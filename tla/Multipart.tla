----------------------------- MODULE Multipart -----------------------------
(***************************************************************************)
(* internal/api handleMultipartOperations: initiate, upload part, complete *)
(* and abort, over ObjectStore.  An upload is an empty object              *)
(* "__multipart__/<object>/<upload ID>", a part an object below it.  None  *)
(* of the four looks at the bucket or at the upload's marker, and nothing  *)
(* keeps two requests of one upload apart.                                 *)
(*                                                                         *)
(* A request is a record: op, upload (its ID), part (partNumber; 0 is      *)
(* invalid), data (the body's stripes, None without a Content-Length),     *)
(* list (complete: the part numbers in the body, None if it is cut off or  *)
(* is not XML).  All requests are about one object.                        *)
(***************************************************************************)
EXTENDS ApiStore

CONSTANTS Requests,     \* the requests clients send
          TooSmall,     \* bodies below the 5 MiB that a part must have
          PartsRouted,  \* a PUT with an uploadId reaches this handler
          MaxRequests   \* bound: requests in a behaviour

ASSUME MultipartAssumption == PartsRouted \in BOOLEAN /\ MaxRequests \in Nat

VARIABLES
  req,     \* the request each client has sent
  at,      \* complete: the position in completeReq.Parts
  acc,     \* complete: fullData
  issued,  \* the upload IDs that generateUploadID has returned
  \* Ghosts, read by the properties only.
  debt,    \* the parts the last complete began with, None once another request
           \* may have changed them or the object
  begun    \* requests sent so far

local == <<req, at, acc, issued, begun>>
vars  == <<storeVars, local, debt>>

ObjectID         == <<"b", "k">>
UploadMarker(u)  == <<"__multipart__", "b", "k", u>>
PartMarker(u, n) == <<"__multipart__", "b", "k", u, "part", n>>
PartsOf(r)       == [i \in 1 .. Len(r.list) |-> PartMarker(r.upload, r.list[i])]

\* Ids has every ID that a request makes the server look up.
ASSUME UploadsAssumption ==
  /\ ObjectID \in Ids
  /\ \A r \in Requests :
       /\ r.part \in Nat
       /\ r.data # None => r.data \in Seq({r.data[i] : i \in DOMAIN r.data})
       /\ r.list # None => /\ r.list \in Seq(Nat)
                          /\ \A i \in DOMAIN r.list : PartMarker(r.upload, r.list[i]) \in Ids
       /\ r.op = "UploadPart" /\ r.part > 0 => PartMarker(r.upload, r.part) \in Ids
       /\ r.op # "UploadPart" => UploadMarker(r.upload) \in Ids

Init ==
  /\ StoreInit({})
  /\ req = [p \in Clients |-> None] /\ at = [p \in Clients |-> 0]
  /\ acc = [p \in Clients |-> << >>] /\ issued = {}
  /\ debt = None /\ begun = 0

-----------------------------------------------------------------------------
(* Ghost bookkeeping.                                                      *)

Intact(id) == shards[id] # << >> /\ Stripes(id) \cap Bad = {}

\* Whether request r may change the parts in ids or the object.
Touches(r, ids) ==
  \/ r.op = "complete"
  \/ r.op = "UploadPart" /\ (~PartsRouted \/ \E i \in DOMAIN ids : ids[i] = PartMarker(r.upload, r.part))

\* A complete begins whose parts are all on disk and no request under way
\* touches them.
Promise(p, r) ==
  LET ids == PartsOf(r) IN
  IF /\ \A i \in DOMAIN ids : Intact(ids[i])
     /\ \A q \in Clients \ {p} : Busy(q) => ~Touches(req[q], ids)
  THEN [by |-> p, ids |-> ids, parts |-> [i \in DOMAIN ids |-> shards[ids[i]]],
        clean |-> \A q \in Clients \ {p} : ~Busy(q)]
  ELSE None

Note(p, r) ==
  /\ begun < MaxRequests /\ begun' = begun + 1
  /\ debt' = IF r.op = "complete" /\ r.list # None THEN Promise(p, r)
             ELSE IF debt = None \/ Touches(r, debt.ids) THEN None
             ELSE [debt EXCEPT !.clean = FALSE]

-----------------------------------------------------------------------------
Answer(status) == [status |-> status]

\* Random: every call returns an ID that no other has returned.
generateUploadID(u) == u \notin issued /\ issued' = issued \cup {u}

\* POST without an uploadId: the upload's marker is stored under a new ID.
Initiate(p, r) ==
  /\ r.op = "initiate" /\ generateUploadID(r.upload)
  /\ StartPut(p, UploadMarker(r.upload), << >>)
  /\ Begin(p, "put")

\* PUT with an uploadId and a partNumber.  New registers only POST for the
\* multipart handler, so it reaches handlePutObject, which ignores both (its
\* bucket is taken to exist).
UploadPart(p, r) ==
  /\ r.op = "UploadPart"
  /\ IF r.data = None \/ (PartsRouted /\ (r.part < 1 \/ r.data \in TooSmall))
     THEN /\ Reply(p, Answer(IF r.data = None /\ ~(PartsRouted /\ r.part < 1) THEN 411 ELSE 400))
          /\ UNCHANGED <<tgt, data, idx>>
     ELSE /\ StartPut(p, IF PartsRouted THEN PartMarker(r.upload, r.part) ELSE ObjectID, r.data)
          /\ Begin(p, "put")
  /\ UNCHANGED issued

StartComplete(p, r) ==
  /\ r.op = "complete"
  /\ IF r.list = None THEN \E s \in {400, 500} : Reply(p, Answer(s)) ELSE Begin(p, "part")
  /\ UNCHANGED <<issued, tgt, data, idx>>

\* Only the upload's marker is removed.
Abort(p, r) ==
  /\ r.op = "abort"
  /\ tgt' = [tgt EXCEPT ![p] = UploadMarker(r.upload)]
  /\ Begin(p, "delShards")
  /\ UNCHANGED <<issued, data, idx>>

Send(p, r) ==
  /\ ~Busy(p) /\ Note(p, r)
  /\ Initiate(p, r) \/ UploadPart(p, r) \/ StartComplete(p, r) \/ Abort(p, r)
  /\ req' = [req EXCEPT ![p] = r] /\ at' = [at EXCEPT ![p] = 1]
  /\ acc' = [acc EXCEPT ![p] = << >>] /\ linked' = [linked EXCEPT ![p] = FALSE]
  /\ UNCHANGED <<shards, markers>>

-----------------------------------------------------------------------------
(* Complete: read the parts in the order of the list, store what was read, *)
(* then delete the parts and the upload's marker.                          *)

Count(p) == Len(req[p].list)
Step(p) == at' = [at EXCEPT ![p] = @ + 1]

Refused(p) == Reply(p, Answer(500)) /\ UNCHANGED <<tgt, data, idx>>

OpenPart(p) ==
  /\ pc[p] = "part" /\ at[p] <= Count(p)
  /\ ListObjectShards(p, PartsOf(req[p])[at[p]], "partSize", Refused(p))
  /\ UNCHANGED <<local, debt>>

OpenedPart(p) ==
  /\ pc[p] = "partSize"
  /\ \E result \in GetObject(p) :
       IF result = "ok" THEN Goto(p, "readPart") ELSE Reply(p, Answer(500))
  /\ UNCHANGED <<shards, markers, tgt, data, idx, linked, local, debt>>

\* io.ReadAll's error is dropped.
ReadPart(p) ==
  /\ pc[p] = "readPart"
  /\ \E r \in ReadAll(tgt[p], idx[p]) : acc' = [acc EXCEPT ![p] = @ \o r.bytes]
  /\ Step(p) /\ Goto(p, "part")
  /\ UNCHANGED <<shards, markers, tgt, data, idx, linked, req, issued, begun, debt>>

\* Mutant: the parts are deleted before the object is stored.
CleanupFirst(p) ==
  /\ pc[p] = "part" /\ at[p] > Count(p)
  /\ at' = [at EXCEPT ![p] = 1]
  /\ Goto(p, "cleanup")
  /\ UNCHANGED <<shards, markers, tgt, data, idx, linked, req, acc, issued, begun, debt>>

StoreObject(p) ==
  /\ pc[p] = "part" /\ at[p] > Count(p)
  /\ at' = [at EXCEPT ![p] = 1]
  /\ StartPut(p, ObjectID, acc[p]) /\ Goto(p, "put")
  /\ UNCHANGED <<shards, markers, linked, req, acc, issued, begun, debt>>

\* Mutant: the deletion stops one part early.
CleanupButLast(p) ==
  /\ pc[p] = "cleanup" /\ Step(p)
  /\ IF at[p] > Count(p)
     THEN Reply(p, Answer(200)) /\ UNCHANGED tgt
     ELSE /\ tgt' = [tgt EXCEPT ![p] = IF at[p] < Count(p) THEN PartsOf(req[p])[at[p]]
                                       ELSE UploadMarker(req[p].upload)]
          /\ Goto(p, "delShards")
  /\ UNCHANGED <<shards, markers, data, idx, linked, req, acc, issued, begun, debt>>

Cleanup(p) ==
  /\ pc[p] = "cleanup" /\ Step(p)
  /\ IF at[p] > Count(p) + 1
     THEN Reply(p, Answer(200)) /\ UNCHANGED tgt
     ELSE /\ tgt' = [tgt EXCEPT ![p] = IF at[p] <= Count(p) THEN PartsOf(req[p])[at[p]]
                                       ELSE UploadMarker(req[p].upload)]
          /\ Goto(p, "delShards")
  /\ UNCHANGED <<shards, markers, data, idx, linked, req, acc, issued, begun, debt>>

-----------------------------------------------------------------------------
(* The calls of PutObject and DeleteObject, and what follows them.         *)

Stored(p) ==
  /\ IF req[p].op = "complete" THEN Goto(p, "cleanup") ELSE Reply(p, Answer(200))
  /\ UNCHANGED <<tgt, data, idx>>

\* The result of a deletion is dropped.
Removed(p) ==
  /\ IF req[p].op = "complete" THEN Goto(p, "cleanup") ELSE Reply(p, Answer(204))
  /\ UNCHANGED <<tgt, data, idx>>

Mutate(p) ==
  /\ \/ PutTear(p) \/ PutStripe(p) \/ MarkerCreate(p)
     \/ MarkerWrite(p, Stored(p), Refused(p)) \/ PutFails(p, Refused(p))
     \/ DelTear(p) \/ DelShards(p) \/ DelMarker(p, Removed(p))
  /\ UNCHANGED <<local, debt>>

RemoveFails(p) ==
  /\ DelFails(p, Removed(p))
  /\ debt' = IF debt = None THEN None ELSE [debt EXCEPT !.clean = FALSE]
  /\ UNCHANGED local

\* The process dies and is started again.
Crash ==
  /\ "crash" \in Failures /\ \E p \in Clients : Busy(p)
  /\ Forget
  /\ req' = [p \in Clients |-> None] /\ at' = [p \in Clients |-> 0]
  /\ acc' = [p \in Clients |-> << >>]
  /\ UNCHANGED <<issued, debt, begun>>

Next ==
  \/ \E p \in Clients :
       \/ \E r \in Requests : Send(p, r)
       \/ OpenPart(p) \/ OpenedPart(p) \/ ReadPart(p) \/ StoreObject(p) \/ Cleanup(p)
       \/ Mutate(p) \/ RemoveFails(p)
  \/ Crash

Spec == Init /\ [][Next]_vars

-----------------------------------------------------------------------------
(* Properties.                                                             *)

\* The object begins with the parts, one after another: ends[i] is where part i
\* ends.
Assembled(parts) ==
  LET o == shards[ObjectID] IN
  \E ends \in [0 .. Len(parts) -> 0 .. Len(o)] :
    /\ ends[0] = 0
    /\ \A i \in 1 .. Len(parts) :
         /\ ends[i] = ends[i - 1] + Len(parts[i])
         /\ \A j \in 1 .. Len(parts[i]) : o[ends[i - 1] + j] = parts[i][j]

Kept(d) == \A i \in DOMAIN d.ids : shards[d.ids[i]] = d.parts[i]

\* handleMultipartOperations, complete: from the moment a complete begins, the
\* bytes of its parts are on disk, as the parts or as the object, in the order
\* of its list: wherever it fails or is killed, and whatever initiates, aborts
\* and uploads of other parts do meanwhile, until the next complete or upload
\* of one of these parts.
NothingLost == debt # None => Kept(debt) \/ Assembled(debt.parts)

\* handleMultipartOperations, complete: a complete that is answered with 200,
\* with no other request and no failed deletion in between, leaves neither the
\* parts of its list nor the upload's marker behind.  Parts that were uploaded
\* and are not in the list stay on disk: nothing looks for them.
ListedPartsAreGone ==
  \A p \in Clients : pc[p] = "done" /\ req[p].op = "complete" /\ resp[p] = Answer(200)
                     /\ debt # None /\ debt.by = p /\ debt.clean =>
    \A id \in Ids : id \in {debt.ids[i] : i \in DOMAIN debt.ids} \cup {UploadMarker(req[p].upload)} =>
      shards[id] = << >> /\ markers[id] = None
=============================================================================
