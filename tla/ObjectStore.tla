---------------------------- MODULE ObjectStore ----------------------------
(***************************************************************************)
(* internal/storage ObjectStore over a FileStore: concurrent PutObject,    *)
(* GetObject (with the reader it returns read to the end) and DeleteObject *)
(* requests against one directory of shard files.                          *)
(*                                                                         *)
(* Each client runs one request at a time; there is no lock anywhere, so   *)
(* requests interleave at every file-system call that changes a file and   *)
(* at every shard a reader opens.  A read of one file and one directory    *)
(* walk are single steps.  Of the outcomes only a non-atomic walk has, the *)
(* failure (a listed file is gone when it is opened) is kept; left out is  *)
(* the walk that passes every file at a moment when that file is whole     *)
(* although at each moment some other file is half-written.  It fails in   *)
(* ListError instead.  Content c has Size[c] bytes; its stripe s is the    *)
(* codeword <<c, s>>.                                                      *)
(***************************************************************************)
EXTENDS ShardFile, Sequences

CONSTANTS Writers,       \* clients that send PUT and DELETE requests
          Readers,       \* clients that send GET requests
          Objects,
          Contents,      \* the bodies clients upload
          Size,          \* Size[c]: length of c in bytes
          StripeSize,    \* ObjectStore.stripeSize
          MaxStripe,     \* bound: the highest stripe index any content has
          Failures,      \* what may interrupt a request: {"io", "crash"}
          FaultKinds,    \* damage to files at rest: a subset of DamageKinds
          FaultBudget,   \* bound: damaged shards per stripe at one time
          MaxMutations,  \* bound: PUT and DELETE requests in a behaviour
          Torn,          \* a marker file that is created but not yet written
          Unknown        \* ghost: no promise about an object's content

ASSUME StoreAssumption ==
  /\ StripeSize \in Nat \ {0} /\ MaxStripe \in Nat
  /\ FaultBudget \in Nat /\ MaxMutations \in Nat
  /\ Size \in [Contents -> 0 .. (MaxStripe + 1) * StripeSize]
  /\ Failures \subseteq {"io", "crash"} /\ FaultKinds \subseteq DamageKinds

VARIABLES
  files,     \* [Keys -> None or file]                  on disk
  markers,   \* [Objects -> None, Torn or ObjectMeta.Size]  on disk
  pc, obj,   \* the request each client runs and its object
  cont,      \* PUT: the content being written
  stripe,    \* PUT, GET: stripeIdx
  shard,     \* PUT, GET: shard loop index
  fd,        \* PUT: the open file is still the one in the directory
  total,     \* GET: totalStripes
  size,      \* GET: the size GetObject returned
  got,       \* GET: loadStripe's shards
  slen,      \* GET: loadStripe's stripeLen
  out,       \* GET: the stripes delivered so far
  todo,      \* DELETE: listed keys not deleted yet
  reply,     \* the result, once the request is done
  \* Ghosts, read by the properties only.
  damaged,   \* keys whose file was damaged since it was last created
  value,     \* content of the last acknowledged uncontended request, None
             \* after a DELETE, Unknown once a later PUT or DELETE has begun
  leftover,  \* that PUT left shard files of an older, longer version behind
  solo,      \* PUT, DELETE: no other of the same object has overlapped
  expect,    \* GET: value at the start, until a PUT or DELETE overlaps
  begun      \* PUT and DELETE requests sent so far

disk   == <<files, markers, damaged>>
req    == <<obj, cont>>
pos    == <<stripe, shard>>
reader == <<total, size, got, slen, out>>
ghosts == <<value, leftover, solo, expect, begun>>
vars   == <<disk, pc, req, pos, fd, reader, todo, reply, ghosts>>

-----------------------------------------------------------------------------
Clients == Writers \cup Readers
Stripes == 0 .. MaxStripe
Keys    == Objects \X Stripes \X Shards
Words   == Contents \X Stripes

\* What a file, an in-memory shard and a delivered stripe are.
Headers   == [len : Nat, dlen : Nat, sum : Words]
FileData  == [hdr : Headers \cup {None}, pay : Words \cup {None, Garbage}, n : Nat]
ShardData == [cw : Words, n : Nat]
Delivered == [cw : Words \cup {Garbage}, len : Nat]

\* The special values are none of the ordinary ones.
ASSUME ValuesAssumption ==
  /\ None \notin Contents /\ None \notin Objects /\ None \notin Nat
  /\ None \notin Words /\ None \notin Headers /\ None \notin FileData
  /\ None \notin ShardData
  /\ Torn \notin Nat /\ Torn # None
  /\ Unknown \notin Contents /\ Unknown # None
  /\ Garbage \notin Words /\ Garbage # None

\* Mutant: the chunk length is taken after remaining is decremented.
ChunkAfter(c, s) == Size[c] - (s + 1) * StripeSize

\* PutObject's loop condition (remaining > 0) and chunk length at stripe s.
HasStripe(c, s) == s * StripeSize < Size[c]
StripeLen(c, s) ==
  IF Size[c] - s * StripeSize < StripeSize THEN Size[c] - s * StripeSize ELSE StripeSize

Key(p)   == <<obj[p], stripe[p], shard[p]>>
Word(p)  == <<cont[p], stripe[p]>>
Chunk(p) == StripeLen(cont[p], stripe[p])
NoShards == [i \in Shards |-> None]

PutStates == {"putCreate", "putHeader", "putPayload", "markerCreate", "markerWrite"}
DelStates == {"delList", "delShard", "delMarker"}
GetStates == {"getList", "getMarker", "getSize", "getLoad"}

Finish(p, r) == /\ pc' = [pc EXCEPT ![p] = "done"]
                /\ reply' = [reply EXCEPT ![p] = r]
Goto(p, l)   == /\ pc' = [pc EXCEPT ![p] = l]
                /\ UNCHANGED reply

\* fd after the file of key k has been removed: what its writers still write
\* goes to an unlinked file.
Unlink(k) == [q \in Clients |->
                fd[q] /\ ~(pc[q] \in {"putHeader", "putPayload"} /\ Key(q) = k)]

-----------------------------------------------------------------------------
(* Ghost bookkeeping.                                                      *)

Mutators(o) == {q \in Clients : obj[q] = o /\ pc[q] \in PutStates \cup DelStates}

\* A PUT or DELETE of o begins: nothing is promised about o any more.
BeginMutation(p, o) ==
  /\ begun < MaxMutations /\ begun' = begun + 1
  /\ value' = [value EXCEPT ![o] = Unknown]
  /\ solo' = [q \in Clients |-> IF q = p THEN Mutators(o) = {}
                                ELSE solo[q] /\ q \notin Mutators(o)]
  /\ expect' = [q \in Clients |-> IF obj[q] = o THEN Unknown ELSE expect[q]]
  /\ UNCHANGED leftover

HasLeftover(o, c) ==
  \E s \in Stripes, i \in Shards : ~HasStripe(c, s) /\ files[<<o, s, i>>] # None

\* A PUT (of c) or DELETE (c = None) of client p is acknowledged.
Acknowledge(p, c, left) ==
  /\ value' = IF solo[p] THEN [value EXCEPT ![obj[p]] = c] ELSE value
  /\ leftover' = IF solo[p] THEN [leftover EXCEPT ![obj[p]] = left] ELSE leftover
  /\ UNCHANGED <<solo, expect, begun>>

-----------------------------------------------------------------------------
Init ==
  /\ files = [k \in Keys |-> None] /\ markers = [o \in Objects |-> None]
  /\ pc = [p \in Clients |-> "idle"]
  /\ obj = [p \in Clients |-> None] /\ cont = [p \in Clients |-> None]
  /\ stripe = [p \in Clients |-> 0] /\ shard = [p \in Clients |-> 0]
  /\ fd = [p \in Clients |-> FALSE]
  /\ total = [p \in Clients |-> 0] /\ size = [p \in Clients |-> 0]
  /\ got = [p \in Clients |-> NoShards] /\ slen = [p \in Clients |-> 0]
  /\ out = [p \in Clients |-> << >>] /\ todo = [p \in Clients |-> {}]
  /\ reply = [p \in Clients |-> None]
  /\ damaged = {}
  /\ value = [o \in Objects |-> None] /\ leftover = [o \in Objects |-> FALSE]
  /\ solo = [p \in Clients |-> FALSE] /\ expect = [p \in Clients |-> Unknown]
  /\ begun = 0

-----------------------------------------------------------------------------
(* PutObject: for every stripe, for every shard, create, header, payload;  *)
(* then the marker.                                                        *)

PutStart(p, o, c) ==
  /\ pc[p] = "idle"
  /\ Goto(p, IF HasStripe(c, 0) THEN "putCreate" ELSE "markerCreate")
  /\ obj' = [obj EXCEPT ![p] = o] /\ cont' = [cont EXCEPT ![p] = c]
  /\ BeginMutation(p, o)
  /\ UNCHANGED <<disk, pos, fd, reader, todo>>

\* Mutant: a shard file that exists already is not written again.
PutCreateIfMissing(p) ==
  /\ pc[p] = "putCreate"
  /\ files' = IF files[Key(p)] = None THEN [files EXCEPT ![Key(p)] = CreateFile] ELSE files
  /\ fd' = [fd EXCEPT ![p] = files[Key(p)] = None]
  /\ Goto(p, "putHeader")
  /\ UNCHANGED <<markers, damaged, req, pos, reader, todo, ghosts>>

\* os.Create truncates an existing file; other handles stay on it.
PutCreate(p) ==
  /\ pc[p] = "putCreate"
  /\ files' = [files EXCEPT ![Key(p)] = CreateFile]
  /\ damaged' = damaged \ {Key(p)}
  /\ fd' = [fd EXCEPT ![p] = TRUE]
  /\ Goto(p, "putHeader")
  /\ UNCHANGED <<markers, req, pos, reader, todo, ghosts>>

\* Mutant: the header is not written over a payload that is there already.
PutHeaderIfEmpty(p) ==
  /\ pc[p] = "putHeader"
  /\ files' = IF fd[p] /\ files[Key(p)].pay = None
              THEN [files EXCEPT ![Key(p)] = WriteHeader(@, Word(p), Chunk(p))] ELSE files
  /\ Goto(p, "putPayload")
  /\ UNCHANGED <<markers, damaged, req, pos, fd, reader, todo, ghosts>>

PutHeader(p) ==
  /\ pc[p] = "putHeader"
  /\ files' = IF fd[p] THEN [files EXCEPT ![Key(p)] = WriteHeader(@, Word(p), Chunk(p))]
              ELSE files
  /\ Goto(p, "putPayload")
  /\ UNCHANGED <<markers, damaged, req, pos, fd, reader, todo, ghosts>>

PutPayload(p) ==
  /\ pc[p] = "putPayload"
  /\ files' = IF fd[p] THEN [files EXCEPT ![Key(p)] = WritePayload(@, Word(p), Chunk(p))]
              ELSE files
  /\ IF shard[p] + 1 < ShardCount
     THEN /\ shard' = [shard EXCEPT ![p] = @ + 1]
          /\ UNCHANGED stripe
          /\ Goto(p, "putCreate")
     ELSE /\ shard' = [shard EXCEPT ![p] = 0]
          /\ stripe' = [stripe EXCEPT ![p] = @ + 1]
          /\ Goto(p, IF HasStripe(cont[p], stripe[p] + 1) THEN "putCreate" ELSE "markerCreate")
  /\ UNCHANGED <<markers, damaged, req, fd, reader, todo, ghosts>>

\* The marker of content c: Size is the only field anything reads.
ObjectMeta(c) == Size[c]

\* WriteMarker: os.WriteFile truncates, then writes; the file is reopened to
\* be synced, which fails when a DELETE has removed it in between.
MarkerCreate(p) ==
  /\ pc[p] = "markerCreate"
  /\ markers' = [markers EXCEPT ![obj[p]] = Torn]
  /\ fd' = [fd EXCEPT ![p] = TRUE]
  /\ Goto(p, "markerWrite")
  /\ UNCHANGED <<files, damaged, req, pos, reader, todo, ghosts>>

MarkerWrite(p) ==
  /\ pc[p] = "markerWrite"
  /\ markers' = IF fd[p] THEN [markers EXCEPT ![obj[p]] = ObjectMeta(cont[p])] ELSE markers
  /\ IF markers'[obj[p]] = None
     THEN Finish(p, "ErrMarker") /\ UNCHANGED ghosts
     ELSE /\ Finish(p, "ok")
          /\ Acknowledge(p, cont[p], HasLeftover(obj[p], cont[p]))
  /\ UNCHANGED <<files, damaged, req, pos, fd, reader, todo>>

-----------------------------------------------------------------------------
(* ListObjectShards walks every shard file of the store.                   *)

\* An undecodable header anywhere fails the walk; so does a file that
\* another DELETE removes between ReadDir and Open.
ListFails(p) == \/ \E k \in Keys : Undecodable(files[k])
                \/ \E q \in Clients \ {p} : pc[q] = "delShard"

ListError(p) ==
  /\ pc[p] \in {"getList", "delList"}
  /\ ListFails(p)
  /\ Finish(p, "ErrWalk")
  /\ UNCHANGED <<disk, req, pos, fd, reader, todo, ghosts>>

Listable == \A k \in Keys : ~Undecodable(files[k])
\* Mutant: the listing is not filtered by object.
ListedAll(o) == {k \in Keys : files[k] # None}

Listed(o) == {k \in Keys : k[1] = o /\ files[k] # None}

-----------------------------------------------------------------------------
(* GetObject and objectReader.                                             *)

GetStart(p, o) ==
  /\ pc[p] = "idle"
  /\ Goto(p, "getList")
  /\ obj' = [obj EXCEPT ![p] = o]
  /\ expect' = [expect EXCEPT ![p] = value[o]]
  /\ UNCHANGED <<disk, cont, pos, fd, reader, todo, value, leftover, solo, begun>>

\* The number of stripes is taken from the highest stripe index on disk.
GetList(p) ==
  /\ pc[p] = "getList"
  /\ Listable
  /\ LET ss == {k[2] : k \in Listed(obj[p])} IN
     IF ss = {} THEN Goto(p, "getMarker") /\ UNCHANGED total
     ELSE /\ Goto(p, "getSize")
          /\ total' = [total EXCEPT ![p] = 1 + CHOOSE s \in ss : \A t \in ss : t <= s]
  /\ UNCHANGED <<disk, req, pos, fd, size, got, slen, out, todo, ghosts>>

\* A marker that was not written to the end does not decode.
ReadMarker(m) ==
  CASE m = None -> "ErrObjectNotFound" [] m = Torn -> "ErrMarker" [] OTHER -> "ok"

\* No shards: the marker decides between an empty object and none.
GetMarker(p) ==
  /\ pc[p] = "getMarker"
  /\ LET m == markers[obj[p]] IN
     /\ Finish(p, ReadMarker(m))
     /\ size' = IF ReadMarker(m) = "ok" THEN [size EXCEPT ![p] = m] ELSE size
  /\ UNCHANGED <<disk, req, pos, fd, total, got, slen, out, todo, ghosts>>

\* lastStripeLen: the header of the first shard of the last stripe that
\* verifies gives the length of that stripe.
GetSize(p) ==
  /\ pc[p] = "getSize"
  /\ LET last == total[p] - 1
         f    == files[<<obj[p], last, shard[p]>>]
         r    == VerifyShard(f)
     IN  \/ /\ shard[p] = ShardCount
            /\ Finish(p, "ErrUnrecoverable")
            /\ UNCHANGED <<shard, size>>
         \/ /\ shard[p] < ShardCount /\ ShardLost(r)
            /\ shard' = [shard EXCEPT ![p] = @ + 1]
            /\ UNCHANGED <<pc, reply, size>>
         \/ /\ shard[p] < ShardCount /\ r = "ok"
            /\ size' = [size EXCEPT ![p] = last * StripeSize + f.hdr.len]
            /\ shard' = [shard EXCEPT ![p] = 0]
            /\ Goto(p, "getLoad")
         \/ /\ shard[p] < ShardCount /\ ~ShardLost(r) /\ r # "ok"
            /\ Finish(p, r)
            /\ UNCHANGED <<shard, size>>
  /\ UNCHANGED <<disk, req, stripe, fd, total, got, slen, out, todo, ghosts>>

\* loadStripe: one GetShard per shard of the current stripe.
GetLoad(p) ==
  /\ pc[p] = "getLoad" /\ shard[p] < ShardCount
  /\ LET f == files[Key(p)]
         r == GetShard(f)
     IN  \/ /\ r = "ok"
            /\ got' = [got EXCEPT ![p][shard[p]] = [cw |-> f.pay, n |-> f.hdr.dlen]]
            /\ slen' = [slen EXCEPT ![p] = f.hdr.len]
            /\ shard' = [shard EXCEPT ![p] = @ + 1]
            /\ UNCHANGED <<pc, reply>>
         \/ /\ ShardLost(r)
            /\ shard' = [shard EXCEPT ![p] = @ + 1]
            /\ UNCHANGED <<pc, reply, got, slen>>
         \/ /\ ~ShardLost(r) /\ r # "ok"
            /\ Finish(p, r)
            /\ UNCHANGED <<got, slen, shard>>
  /\ UNCHANGED <<disk, req, stripe, fd, total, size, out, todo, ghosts>>

\* The rest of loadStripe: count, reconstruct if a shard is lost, join.
Valid(shards) == {i \in Shards : shards[i] # None}
Whole(shards) == IF Valid(shards) = Shards THEN shards ELSE Reconstruct(shards)

LoadError(shards, n) ==
  IF Cardinality(Valid(shards)) < DataShards THEN "ErrUnrecoverable"
  ELSE IF Valid(shards) # Shards /\ ReconstructError(shards) # "none"
       THEN ReconstructError(shards)
  ELSE JoinError(Whole(shards), n)

\* Read delivers the stripe; after the last one, or after an empty one, it
\* reports io.EOF.
GetJoin(p) ==
  /\ pc[p] = "getLoad" /\ shard[p] = ShardCount
  /\ LET err == LoadError(got[p], slen[p])
         res == [cw |-> Joined(Whole(got[p]), slen[p]), len |-> slen[p]]
     IN  \/ /\ err # "none"
            /\ Finish(p, err)
            /\ UNCHANGED <<pos, got, slen, out>>
         \/ /\ err = "none" /\ slen[p] = 0
            /\ Finish(p, "ok")
            /\ UNCHANGED <<pos, got, slen, out>>
         \/ /\ err = "none" /\ slen[p] # 0
            /\ out' = [out EXCEPT ![p] = Append(@, res)]
            /\ stripe' = [stripe EXCEPT ![p] = @ + 1]
            /\ shard' = [shard EXCEPT ![p] = 0]
            /\ got' = [got EXCEPT ![p] = NoShards]
            /\ slen' = [slen EXCEPT ![p] = 0]
            /\ IF stripe[p] + 1 = total[p] THEN Finish(p, "ok") ELSE UNCHANGED <<pc, reply>>
  /\ UNCHANGED <<disk, req, fd, total, size, todo, ghosts>>

-----------------------------------------------------------------------------
(* DeleteObject: the listed shards in (stripe, shard) order, then the      *)
(* marker.  A shard that is gone already ends the request with an error.   *)

DelStart(p, o) ==
  /\ pc[p] = "idle"
  /\ Goto(p, "delList")
  /\ obj' = [obj EXCEPT ![p] = o]
  /\ BeginMutation(p, o)
  /\ UNCHANGED <<disk, cont, pos, fd, reader, todo>>

\* Mutant: an object without a marker is taken to have no shards.
DelListMarked(p) ==
  /\ pc[p] = "delList"
  /\ Listable
  /\ LET keys == IF markers[obj[p]] = None THEN {} ELSE Listed(obj[p]) IN
     /\ todo' = [todo EXCEPT ![p] = keys]
     /\ Goto(p, IF keys = {} THEN "delMarker" ELSE "delShard")
  /\ UNCHANGED <<disk, req, pos, fd, reader, ghosts>>

DelList(p) ==
  /\ pc[p] = "delList"
  /\ Listable
  /\ todo' = [todo EXCEPT ![p] = Listed(obj[p])]
  /\ Goto(p, IF Listed(obj[p]) = {} THEN "delMarker" ELSE "delShard")
  /\ UNCHANGED <<disk, req, pos, fd, reader, ghosts>>

\* Mutant: the keys are deleted in no particular order.
InAnyOrder(k, l) == TRUE

Precedes(k, l) == k[2] < l[2] \/ (k[2] = l[2] /\ k[3] <= l[3])

DelShard(p) ==
  /\ pc[p] = "delShard"
  /\ \E k \in todo[p] :
       /\ \A l \in todo[p] : Precedes(k, l)
       /\ IF files[k] = None
          THEN /\ Finish(p, "ErrShardNotFound")
               /\ UNCHANGED <<files, damaged, fd, todo>>
          ELSE /\ files' = [files EXCEPT ![k] = None]
               /\ damaged' = damaged \ {k}
               /\ fd' = Unlink(k)
               /\ todo' = [todo EXCEPT ![p] = @ \ {k}]
               /\ Goto(p, IF todo[p] = {k} THEN "delMarker" ELSE "delShard")
  /\ UNCHANGED <<markers, req, pos, reader, ghosts>>

DelMarker(p) ==
  /\ pc[p] = "delMarker"
  /\ markers' = [markers EXCEPT ![obj[p]] = None]
  /\ fd' = [q \in Clients |-> fd[q] /\ ~(pc[q] = "markerWrite" /\ obj[q] = obj[p])]
  /\ Finish(p, "ok")
  /\ Acknowledge(p, None, FALSE)
  /\ UNCHANGED <<files, damaged, req, pos, reader, todo>>

-----------------------------------------------------------------------------
\* An I/O error, a cancelled context or a body that ends early stops the
\* request where it is; what it has written stays.
RequestFail(p) ==
  /\ "io" \in Failures
  /\ pc[p] \in PutStates \cup DelStates \cup GetStates
  /\ Finish(p, "ErrIO")
  /\ UNCHANGED <<disk, req, pos, fd, reader, todo, ghosts>>

\* The locals of every client in S are gone.
Reset(S) ==
  /\ pc' = [q \in Clients |-> IF q \in S THEN "idle" ELSE pc[q]]
  /\ obj' = [q \in Clients |-> IF q \in S THEN None ELSE obj[q]]
  /\ cont' = [q \in Clients |-> IF q \in S THEN None ELSE cont[q]]
  /\ stripe' = [q \in Clients |-> IF q \in S THEN 0 ELSE stripe[q]]
  /\ shard' = [q \in Clients |-> IF q \in S THEN 0 ELSE shard[q]]
  /\ fd' = [q \in Clients |-> q \notin S /\ fd[q]]
  /\ total' = [q \in Clients |-> IF q \in S THEN 0 ELSE total[q]]
  /\ size' = [q \in Clients |-> IF q \in S THEN 0 ELSE size[q]]
  /\ got' = [q \in Clients |-> IF q \in S THEN NoShards ELSE got[q]]
  /\ slen' = [q \in Clients |-> IF q \in S THEN 0 ELSE slen[q]]
  /\ out' = [q \in Clients |-> IF q \in S THEN << >> ELSE out[q]]
  /\ todo' = [q \in Clients |-> IF q \in S THEN {} ELSE todo[q]]
  /\ reply' = [q \in Clients |-> IF q \in S THEN None ELSE reply[q]]
  /\ solo' = [q \in Clients |-> q \notin S /\ solo[q]]
  /\ expect' = [q \in Clients |-> IF q \in S THEN Unknown ELSE expect[q]]
  /\ UNCHANGED <<disk, value, leftover, begun>>

Return(p) == pc[p] = "done" /\ Reset({p})

\* The process is killed and restarted; the files stay as they are.
Crash ==
  /\ "crash" \in Failures
  /\ \E p \in Clients : pc[p] # "idle"
  /\ Reset(Clients)

DamagedIn(o, s) == {i \in Shards : <<o, s, i>> \in damaged}

\* A file at rest is damaged; at most FaultBudget per stripe.
Fault(k, kind) ==
  /\ files[k] # None
  /\ Cardinality(DamagedIn(k[1], k[2]) \cup {k[3]}) <= FaultBudget
  /\ \E f \in Damage(files[k], kind, StripeSize + 1) : files' = [files EXCEPT ![k] = f]
  /\ damaged' = damaged \cup {k}
  /\ fd' = IF kind = "missing" THEN Unlink(k) ELSE fd
  /\ UNCHANGED <<markers, pc, req, pos, reader, todo, reply, ghosts>>

-----------------------------------------------------------------------------
Step(p) ==
  \/ PutCreate(p) \/ PutHeader(p) \/ PutPayload(p) \/ MarkerCreate(p) \/ MarkerWrite(p)
  \/ ListError(p)
  \/ GetList(p) \/ GetMarker(p) \/ GetSize(p) \/ GetLoad(p) \/ GetJoin(p)
  \/ DelList(p) \/ DelShard(p) \/ DelMarker(p)

Start(p) ==
  \E o \in Objects : \/ p \in Writers /\ \E c \in Contents : PutStart(p, o, c)
                     \/ p \in Writers /\ DelStart(p, o)
                     \/ p \in Readers /\ GetStart(p, o)

Next ==
  \/ \E p \in Clients : Start(p) \/ Step(p) \/ RequestFail(p) \/ Return(p)
  \/ Crash
  \/ \E k \in Keys, kind \in FaultKinds : Fault(k, kind)

\* No fairness: a PUT may wait for its body for ever, and a GET for a client
\* that stops reading.
Spec == Init /\ [][Next]_vars

-----------------------------------------------------------------------------
(* Properties.                                                             *)

Replies == {None, "ok", "ErrIO", "ErrWalk", "ErrObjectNotFound", "ErrMarker",
            "ErrUnrecoverable", "ErrHeader", "ErrShort", "ErrShardNotFound",
            "ErrShardSize", "ErrTooFewShards", "ErrReconstructRequired", "ErrShortData"}

DiskOK ==
  /\ files \in [Keys -> FileData \cup {None}]
  /\ markers \in [Objects -> Nat \cup {None, Torn}]
  /\ damaged \subseteq Keys
ControlOK ==
  /\ pc \in [Clients -> PutStates \cup GetStates \cup DelStates \cup {"idle", "done"}]
  /\ obj \in [Clients -> Objects \cup {None}]
  /\ cont \in [Clients -> Contents \cup {None}]
  /\ stripe \in [Clients -> Nat] /\ shard \in [Clients -> 0 .. ShardCount]
  /\ fd \in [Clients -> BOOLEAN]
  /\ todo \in [Clients -> SUBSET Keys]
  /\ reply \in [Clients -> Replies]
ReaderOK ==
  /\ total \in [Clients -> 0 .. MaxStripe + 1] /\ size \in [Clients -> Nat]
  /\ got \in [Clients -> [Shards -> ShardData \cup {None}]]
  /\ slen \in [Clients -> Nat]
  /\ out \in [Clients -> Seq(Delivered)]
GhostsOK ==
  /\ value \in [Objects -> Contents \cup {None, Unknown}]
  /\ leftover \in [Objects -> BOOLEAN]
  /\ solo \in [Clients -> BOOLEAN]
  /\ expect \in [Clients -> Contents \cup {None, Unknown}]
  /\ begun \in 0 .. MaxMutations

\* Every variable stays in its range, through every step of PutObject,
\* GetObject, objectReader.Read and DeleteObject.
TypeOK == DiskOK /\ ControlOK /\ ReaderOK /\ GhostsOK

\* Client p has read an object that was acknowledged as c before the read
\* began and that no PUT or DELETE has touched since.
ReadOf(p, c) == pc[p] = "done" /\ expect[p] = c

\* The bytes p was given so far are the first stripes of c.
PrefixOf(p, c) ==
  \A i \in 1 .. Len(out[p]) :
    HasStripe(c, i - 1) /\ out[p][i] = [cw |-> <<c, i - 1>>, len |-> StripeLen(c, i - 1)]

\* GetObject and its reader: a read of an acknowledged object that ends
\* without an error delivered exactly the bytes of the PUT, and GetObject
\* announced their number; a read that fails half-way delivered a prefix.
\* This holds through crashes, failed requests, writes to other objects and
\* any damage that spares one shard of every stripe, except damage that
\* leaves a header that still decodes but with another length.
ReadExact ==
  \A p \in Clients, c \in Contents :
    ReadOf(p, c) /\ ~leftover[obj[p]] =>
      /\ PrefixOf(p, c)
      /\ reply[p] = "ok" => /\ size[p] = Size[c]
                            /\ ~HasStripe(c, Len(out[p]))

\* d holds the first bytes of stripe s of c, or all of them followed by no
\* more than the zeros that Split padded the stripe with.
CutOrPadded(d, c, s) ==
  d.cw = <<c, s>> /\ d.len <= DataShards * SplitSize(StripeLen(c, s))

\* GetObject and its reader: whatever damage is done, to headers too, each
\* stripe a read delivers is that stripe of the content that was acknowledged,
\* cut short or with padding behind it when a StripeLen is rotten, and nothing
\* else: no byte of another stripe, version or object, none that was rotten.
BytesAuthentic ==
  \A p \in Clients, c \in Contents :
    ReadOf(p, c) /\ ~leftover[obj[p]] =>
      \A i \in 1 .. Len(out[p]) : CutOrPadded(out[p][i], c, i - 1)

\* GetObject and its reader: with no more lost or rotten shards per stripe
\* than there is parity, an acknowledged object stays readable: the read can
\* fail only in the walk over the whole store or by an I/O error of its own.
ReadAvailable ==
  \A p \in Clients, c \in Contents :
    ReadOf(p, c) /\ ~leftover[obj[p]] => reply[p] \in {"ok", "ErrWalk", "ErrIO"}

\* DeleteObject: once an uncontended DELETE is acknowledged, reads that begin
\* later find no object, also when earlier PUTs had failed half-way, until
\* the next PUT.
DeletedIsGone ==
  \A p \in Clients :
    ReadOf(p, None) => reply[p] \in {"ErrObjectNotFound", "ErrWalk", "ErrIO"}

\* ListObjectShards, over files that requests create, truncate and unlink under
\* one another: as long as no request was interrupted and no header rots, a
\* walk fails only while another request is inside PutShard, between os.Create
\* and the header, or is removing shards.  No file without a header is left
\* behind to fail every later walk.
WalkFailsInRacesOnly ==
  Failures = {} /\ "header" \notin FaultKinds =>
    \A p \in Clients : pc[p] \in {"getList", "delList"} /\ ListFails(p) =>
      \E q \in Clients \ {p} : pc[q] = "delShard" \/ (pc[q] = "putHeader" /\ fd[q])
=============================================================================
