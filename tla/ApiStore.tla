------------------------------ MODULE ApiStore ------------------------------
(***************************************************************************)
(* ObjectStore as the HTTP handlers see it: the calls GetObject,           *)
(* PutObject, DeleteObject and ObjectShards and the states on disk they    *)
(* tell apart.  ObjectStore.tla has the shard files; here an object is     *)
(* the sequence of its stripes on disk and its marker.  A call is several  *)
(* steps where it passes through states another handler, or a restarted    *)
(* process, can tell apart: a stripe being rewritten, a truncated marker,  *)
(* shards gone and marker still there.                                     *)
(*                                                                         *)
(* An object ID is the string split at its slashes.                        *)
(***************************************************************************)
EXTENDS Integers, Sequences, FiniteSets

CONSTANTS Clients,   \* HTTP clients; each has one request at a time
          Ids,       \* the object IDs that requests can name
          Failures,  \* what may go wrong: a subset of {"read", "write", "crash"}
          None,      \* no marker, no answer yet
          Torn,      \* a marker that is truncated and not yet written
          Mixed,     \* a stripe being written, or with shards of two writes
          Lost,      \* a stripe with too few of its shards to be read
          Broken     \* a stripe with a shard file that has no header

ASSUME ApiStoreAssumption == Failures \subseteq {"read", "write", "crash"}

VARIABLES
  shards,   \* [Ids -> sequence of stripes]; << >>: no shard file
  markers,  \* [Ids -> None, Torn or ObjectMeta.Size]
  pc,       \* where each client's handler is
  tgt,      \* the object ID of its current call
  data,     \* PutObject: the stripes to write
  idx,      \* PutObject: stripeIdx; reader: totalStripes
  linked,   \* nobody else has removed the marker, or touched the stripe, being written
  resp      \* the answer, once it is decided

storeVars == <<shards, markers, pc, tgt, data, idx, linked, resp>>

\* The empty objects in E are on disk.
StoreInit(E) ==
  /\ shards = [i \in Ids |-> << >>] /\ markers = [i \in Ids |-> IF i \in E THEN 0 ELSE None]
  /\ pc = [p \in Clients |-> "idle"] /\ tgt = [p \in Clients |-> None]
  /\ data = [p \in Clients |-> << >>] /\ idx = [p \in Clients |-> 0]
  /\ linked = [p \in Clients |-> FALSE] /\ resp = [p \in Clients |-> None]

Busy(p)     == pc[p] \notin {"idle", "done"}
Begin(p, l) == pc' = [pc EXCEPT ![p] = l] /\ resp' = [resp EXCEPT ![p] = None]
Goto(p, l)  == pc' = [pc EXCEPT ![p] = l] /\ UNCHANGED resp
Reply(p, r) == pc' = [pc EXCEPT ![p] = "done"] /\ resp' = [resp EXCEPT ![p] = r]

-----------------------------------------------------------------------------
(* ListObjectShards decodes the header of every shard file in the store.   *)

Bad == {Mixed, Lost, Broken}
Stripes(id) == {shards[id][i] : i \in DOMAIN shards[id]}
WalkFails   == \E id \in Ids : Broken \in Stripes(id)

\* It also fails when a file is removed between ReadDir and Open.
Deleting(q) == pc[q] \in {"delShards", "delRest"} /\ shards[tgt[q]] # << >>
WalkMayFail(p) == "read" \in Failures \/ \E q \in Clients \ {p} : Deleting(q)

\* Mutant: the number of stripes is taken from the marker.
MarkerStripes(id) == IF markers[id] \in {None, Torn} THEN 0 ELSE markers[id]

totalStripes(id) == Len(shards[id])

\* GetObject of id begins with the walk and goes on at place l, or with Failure.
ListObjectShards(p, id, l, Failure) ==
  /\ \/ /\ ~WalkFails
        /\ tgt' = [tgt EXCEPT ![p] = id] /\ idx' = [idx EXCEPT ![p] = totalStripes(id)]
        /\ Goto(p, l)
     \/ (WalkFails \/ WalkMayFail(p)) /\ Failure
  /\ UNCHANGED <<shards, markers, data, linked>>

\* Mutant: a marker that cannot be decoded counts as missing.
TornIsNotFound(id) == IF markers[id] \in {None, Torn} THEN "ErrObjectNotFound" ELSE "ok"

ReadMarker(id) ==
  CASE markers[id] = None -> "ErrObjectNotFound" [] markers[id] = Torn -> "err"
    [] OTHER -> "ok"

\* The results the call may have when the last stripe the walk has listed is
\* read for its length, or, if it has listed none, the marker for the size.
GetObject(p) ==
  LET s == shards[tgt[p]] IN
  (IF "read" \in Failures THEN {"err"} ELSE {})
  \cup (IF idx[p] = 0 THEN {ReadMarker(tgt[p])}
        ELSE IF idx[p] > Len(s) THEN {"err"}
        ELSE IF s[idx[p]] \in Bad THEN {"ok", "err"} ELSE {"ok"})

SizeFound(p) == IF idx[p] = 0 THEN markers[tgt[p]] ELSE idx[p]

\* ObjectShards(""): every shard of the store.  Without any it looks for the
\* marker of the object with the empty ID, and there is none.
ObjectShardsOfAll(p) ==
  (IF WalkFails \/ WalkMayFail(p) THEN {"err"} ELSE {})
  \cup (IF WalkFails THEN {} ELSE IF \A id \in Ids : shards[id] = << >>
        THEN {"ErrObjectNotFound"} ELSE {"ok"})

\* Reading to the end the n stripes that GetObject found: loadStripe stops at
\* a stripe it cannot rebuild, or delivers shards of two writes joined.
ReadAll(id, n) ==
  LET s == shards[id]
      MayStop(m) == \/ m \in {n, Len(s)} \/ s[m + 1] \in Bad
                    \/ "read" \in Failures
      MayReach(m) == m <= n /\ \A i \in 1 .. m : s[i] \notin {Lost, Broken}
  IN  {[bytes |-> SubSeq(s, 1, m), ok |-> m = n] :
         m \in {j \in 0 .. Len(s) : MayReach(j) /\ MayStop(j)}}

-----------------------------------------------------------------------------
(* PutObject of data[p] at tgt[p], stripe by stripe, then the marker.      *)

StartPut(p, id, d) ==
  /\ tgt' = [tgt EXCEPT ![p] = id] /\ data' = [data EXCEPT ![p] = d]
  /\ idx' = [idx EXCEPT ![p] = 0]

\* s with stripe i replaced; what a DELETE has removed before i is missing.
Patched(s, i, x) ==
  [j \in 1 .. (IF i > Len(s) THEN i ELSE Len(s)) |->
     IF j = i THEN x ELSE IF j <= Len(s) THEN s[j] ELSE Lost]

SetStripe(p, x) == shards' = [shards EXCEPT ![tgt[p]] = Patched(@, idx[p] + 1, x)]

\* Whether the clients at l still have their file to themselves after a step
\* of p on the same object, and, for l = "putStripe", on the stripes in I.
Alone(p, l, I) ==
  [q \in Clients |-> linked[q] /\ ~(q # p /\ pc[q] = l /\ tgt[q] = tgt[p] /\ idx[q] \in I)]

\* The shards of a stripe are created and written one after another.
PutTear(p) ==
  /\ pc[p] = "put" /\ idx[p] < Len(data[p])
  /\ \E x \in {Mixed, Broken} : SetStripe(p, x)
  /\ linked' = [Alone(p, "putStripe", {idx[p]}) EXCEPT ![p] = TRUE]
  /\ Goto(p, "putStripe")
  /\ UNCHANGED <<markers, tgt, data, idx>>

\* Who else is writing the stripe that p writes.
Writers(p) ==
  {q \in Clients \ {p} : pc[q] = "putStripe" /\ tgt[q] = tgt[p] /\ idx[q] = idx[p]}

Headless(p) ==
  idx[p] < Len(shards[tgt[p]]) /\ shards[tgt[p]][idx[p] + 1] = Broken

\* Shards that another client has written or removed meanwhile may stay, and so
\* may a file without a header that it has just created, or failed to write.
PutStripe(p) ==
  /\ pc[p] = "putStripe"
  /\ \/ SetStripe(p, data[p][idx[p] + 1])
     \/ (Writers(p) # {} \/ ~linked[p]) /\ SetStripe(p, Mixed)
     \/ (Writers(p) # {} \/ (~linked[p] /\ Headless(p))) /\ SetStripe(p, Broken)
  /\ idx' = [idx EXCEPT ![p] = @ + 1]
  /\ linked' = Alone(p, "putStripe", {idx[p]})
  /\ Goto(p, "put")
  /\ UNCHANGED <<markers, tgt, data>>

MarkerCreate(p) ==
  /\ pc[p] = "put" /\ idx[p] = Len(data[p])
  /\ markers' = [markers EXCEPT ![tgt[p]] = Torn]
  /\ linked' = [linked EXCEPT ![p] = TRUE]
  /\ Goto(p, "putMarker")
  /\ UNCHANGED <<shards, tgt, data, idx>>

\* The rest of WriteMarker, then the handler goes on with Success; Failure
\* when a DELETE has removed the file before it is opened again.
MarkerWrite(p, Success, Failure) ==
  /\ pc[p] = "putMarker"
  /\ markers' = IF linked[p] THEN [markers EXCEPT ![tgt[p]] = Len(data[p])] ELSE markers
  /\ IF markers'[tgt[p]] = None THEN Failure ELSE Success
  /\ UNCHANGED <<shards, linked>>

\* PutObject fails where it is: a short body, a full disk, a cancelled context.
PutFails(p, Failure) ==
  /\ "write" \in Failures /\ pc[p] \in {"put", "putStripe", "putMarker"}
  /\ Failure
  /\ UNCHANGED <<shards, markers, linked>>

-----------------------------------------------------------------------------
(* DeleteObject of tgt[p]: its shards, in order, then the marker.          *)

\* The walk, and some shards removed.  data[p] keeps what was listed.
DelTear(p) ==
  /\ pc[p] = "delShards" /\ ~WalkFails
  /\ LET s == shards[tgt[p]] IN
     /\ data' = [data EXCEPT ![p] = s]
     /\ \E m \in 0 .. Len(s) :
          shards' = [shards EXCEPT ![tgt[p]] = [i \in DOMAIN s |-> IF i <= m THEN Lost ELSE s[i]]]
     /\ linked' = Alone(p, "putStripe", 0 .. Len(s))
  /\ Goto(p, "delRest")
  /\ UNCHANGED <<markers, tgt, idx>>

\* Shards written since the walk are not in the list and stay.
DelShards(p) ==
  /\ pc[p] = "delRest"
  /\ LET s == shards[tgt[p]]
         listed == {i \in DOMAIN s : i <= Len(data[p])}
     IN \E kept \in BOOLEAN :
          /\ kept => \E i \in listed : data[p][i] = Mixed
          /\ shards' = [shards EXCEPT ![tgt[p]] =
                          IF ~kept /\ listed = DOMAIN s THEN << >>
                          ELSE [i \in DOMAIN s |-> IF i \in listed THEN Lost ELSE s[i]]]
  /\ linked' = Alone(p, "putStripe", 0 .. Len(data[p]))
  /\ Goto(p, "delMarker")
  /\ UNCHANGED <<markers, tgt, data, idx>>

\* The walk fails, or a shard is gone when its turn comes.
DelFails(p, Failure) ==
  /\ \/ pc[p] = "delShards" /\ (WalkFails \/ WalkMayFail(p))
     \/ pc[p] = "delRest" /\ \/ "write" \in Failures
                             \/ \E q \in Clients \ {p} : tgt[q] = tgt[p] /\ data[p] # << >>
                                  /\ pc[q] \in {"delShards", "delRest", "delMarker"}
  /\ Failure
  /\ UNCHANGED <<shards, markers, linked>>

DelMarker(p, Success) ==
  /\ pc[p] = "delMarker"
  /\ markers' = [markers EXCEPT ![tgt[p]] = None]
  /\ linked' = Alone(p, "putMarker", {Len(data[q]) : q \in Clients})
  /\ Success
  /\ UNCHANGED shards

-----------------------------------------------------------------------------
\* The process dies: the locals of its handlers are gone, the files stay.
Forget ==
  /\ pc' = [p \in Clients |-> "idle"] /\ tgt' = [p \in Clients |-> None]
  /\ data' = [p \in Clients |-> << >>] /\ idx' = [p \in Clients |-> 0]
  /\ linked' = [p \in Clients |-> FALSE] /\ resp' = [p \in Clients |-> None]
  /\ UNCHANGED <<shards, markers>>
=============================================================================
