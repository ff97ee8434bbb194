------------------------------- MODULE S3Api -------------------------------
(***************************************************************************)
(* internal/api: the bucket and object handlers over ObjectStore.  A       *)
(* bucket is an empty object with the ID "__bucket__/<name>".  Every       *)
(* handler but POST complete looks for it first and acts later; nothing    *)
(* holds the bucket in between, and objects and buckets share one space of *)
(* IDs.                                                                    *)
(*                                                                         *)
(* A request is a record: op (the handler), path (the decoded URL path,    *)
(* split at its slashes), auth ("none", "other" or "AWS4"), data (the      *)
(* body's stripes, None without a Content-Length), range (a Range header), *)
(* max (max-keys) and prefix (what listed keys begin with, None without).  *)
(* The data of a POST complete is what its parts hold; Multipart.tla has   *)
(* the parts.                                                              *)
(***************************************************************************)
EXTENDS ApiStore

CONSTANTS Requests,        \* the requests clients send
          ValidNames,      \* the names validateBucketName accepts
          PermissiveAuth,  \* Config.PermissiveAuth
          Buckets,         \* the buckets on disk when the server starts
          EmptyObjects,    \* the objects without bytes on disk when it starts
          ListTries,       \* shard keys the listing meets per object
          MaxRequests      \* bound: requests in a behaviour

ASSUME S3Assumption ==
  /\ PermissiveAuth \in BOOLEAN /\ Buckets \subseteq ValidNames
  /\ ListTries \in Nat \ {0} /\ MaxRequests \in Nat
  /\ "__bucket__" \notin ValidNames
  /\ \A id \in EmptyObjects : id[1] # "__bucket__"

VARIABLES
  req,    \* the request each client has sent
  todo,   \* ListObjectsV2: shard keys not looked at yet
  found,  \* ListObjectsV2: objectMap, as pairs of ID and size
  \* Ghosts, read by the properties only.
  ever,   \* what was on disk at some time since the request was sent
  always, \* what has been on disk ever since the request was sent
  shaky,  \* ListObjectsV2: the IDs whose walk had a reason to fail
  asked,  \* the buckets there at the start, or validated by a CreateBucket since
  reserved, \* a POST complete has written below "__bucket__"
  begun   \* requests sent so far

vars == <<storeVars, req, todo, found, ever, always, shaky, asked, reserved, begun>>

-----------------------------------------------------------------------------
\* parsePathValues: everything after the second slash is the object; the
\* segment before it is dropped when there are three or more.
Bucket(r) == r.path[1]
Object(r) == IF Len(r.path) >= 3 THEN SubSeq(r.path, 3, Len(r.path)) ELSE Tail(r.path)

BucketId(b) == <<"__bucket__", b>>
ObjectId(r) == <<Bucket(r)>> \o Object(r)

ObjectOps == {"PutObject", "GetObject", "HeadObject", "DeleteObject", "Complete"}

\* Ids has every ID that a request makes the server look up, and "PutObject"
\* and the like are sent with an object in their path.
ASSUME RequestsAssumption ==
  \A r \in Requests :
    /\ r.path \in Seq(STRING) /\ r.path # << >> /\ r.max \in Nat
    /\ r.data # None => r.data \in Seq({r.data[i] : i \in DOMAIN r.data})
    /\ BucketId(Bucket(r)) \in Ids
    /\ r.op \in ObjectOps => ObjectId(r) \in Ids
    /\ r.op = "Complete" => r.data # None

Err(status, code) == [status |-> status, code |-> code, body |-> None]
Ok(status, body)  == [status |-> status, code |-> "", body |-> body]
InternalError     == Err(500, "InternalError")

\* The files a request is about, as the ghosts record them: the bucket's marker
\* and its object, or every object of the bucket.
About(r, id) ==
  id = BucketId(Bucket(r)) \/ IF r.op = "ListObjectsV2" THEN id[1] = Bucket(r) ELSE id = ObjectId(r)
Facts(r) == {<<id, shards[id], markers[id]>> : id \in {i \in Ids : About(r, i)}}

Init ==
  /\ StoreInit({BucketId(b) : b \in Buckets} \cup EmptyObjects)
  /\ req = [p \in Clients |-> None] /\ todo = [p \in Clients |-> {}]
  /\ found = [p \in Clients |-> {}] /\ shaky = [p \in Clients |-> {}]
  /\ ever = [p \in Clients |-> {}] /\ always = [p \in Clients |-> {}]
  /\ asked = Buckets /\ reserved = FALSE /\ begun = 0

-----------------------------------------------------------------------------
\* Mutant: bucket names are not validated.
AcceptAnyName(b) == TRUE

validateBucketName(b) == b \in ValidNames

Authorized(r) == PermissiveAuth \/ r.auth = "AWS4"

Send(p, r) ==
  /\ ~Busy(p) /\ begun < MaxRequests /\ begun' = begun + 1
  /\ req' = [req EXCEPT ![p] = r]
  /\ IF ~Authorized(r)
     THEN Reply(p, Err(403, IF r.auth = "none" THEN "AccessDenied" ELSE "SignatureDoesNotMatch"))
     ELSE IF r.op = "CreateBucket" /\ ~validateBucketName(Bucket(r))
     THEN Reply(p, Err(400, "InvalidArgument"))
     ELSE Begin(p, IF r.op = "Complete" THEN "complete" ELSE "check")
  /\ tgt' = [tgt EXCEPT ![p] = None] /\ data' = [data EXCEPT ![p] = << >>]
  /\ idx' = [idx EXCEPT ![p] = 0] /\ linked' = [linked EXCEPT ![p] = FALSE]
  /\ todo' = [todo EXCEPT ![p] = {}] /\ found' = [found EXCEPT ![p] = {}]
  /\ shaky' = [shaky EXCEPT ![p] = {}]
  /\ ever' = [ever EXCEPT ![p] = Facts(r)] /\ always' = [always EXCEPT ![p] = Facts(r)]
  /\ asked' = IF r.op = "CreateBucket" /\ Bucket(r) \in ValidNames
              THEN asked \cup {Bucket(r)} ELSE asked
  /\ UNCHANGED <<shards, markers, reserved>>

-----------------------------------------------------------------------------
(* Every handler but complete begins with GetObject of the bucket's marker. *)

Handling(p, op) == pc[p] # "idle" /\ req[p].op = op
kept  == <<req, todo, found, shaky, asked, reserved, begun>>
local == <<kept, ever, always>>

Written(p) == Reply(p, Ok(200, None)) /\ UNCHANGED <<tgt, data, idx>>
Deleted(p) == Reply(p, Ok(204, None)) /\ UNCHANGED <<tgt, data, idx>>
Failed(p)  == Reply(p, InternalError) /\ UNCHANGED <<tgt, data, idx>>

Check(p) ==
  /\ pc[p] = "check"
  /\ ListObjectShards(p, BucketId(Bucket(req[p])), "checked", Failed(p))
  /\ UNCHANGED local

Checked(p, result) == pc[p] = "checked" /\ result \in GetObject(p)

CheckError(p) ==
  /\ Checked(p, "err") /\ Failed(p)
  /\ UNCHANGED <<shards, markers, linked, local>>

\* Mutant: any failed check is reported as a missing bucket.
NoBucketOnError(p) ==
  /\ Checked(p, "ErrObjectNotFound") \/ Checked(p, "err")
  /\ ~Handling(p, "CreateBucket")
  /\ Reply(p, Err(404, "NoSuchBucket"))
  /\ UNCHANGED <<shards, markers, tgt, data, idx, linked, local>>

NoBucket(p) ==
  /\ Checked(p, "ErrObjectNotFound") /\ ~Handling(p, "CreateBucket")
  /\ Reply(p, Err(404, "NoSuchBucket"))
  /\ UNCHANGED <<shards, markers, tgt, data, idx, linked, local>>

CreateBucket(p) ==
  /\ Handling(p, "CreateBucket")
  /\ \/ /\ Checked(p, "ok")
        /\ Reply(p, Err(409, "BucketAlreadyOwnedByYou"))
        /\ UNCHANGED <<tgt, data, idx>>
     \/ /\ Checked(p, "ErrObjectNotFound")
        /\ StartPut(p, BucketId(Bucket(req[p])), << >>)
        /\ Goto(p, "put")
  /\ UNCHANGED <<shards, markers, linked, local>>

DeleteBucket(p) ==
  /\ Handling(p, "DeleteBucket") /\ Checked(p, "ok")
  /\ tgt' = [tgt EXCEPT ![p] = BucketId(Bucket(req[p]))]
  /\ Goto(p, "delShards")
  /\ UNCHANGED <<shards, markers, data, idx, linked, local>>

HeadBucket(p) ==
  /\ Handling(p, "HeadBucket") /\ Checked(p, "ok")
  /\ Reply(p, Ok(200, None))
  /\ UNCHANGED <<shards, markers, tgt, data, idx, linked, local>>

PutObject(p) ==
  /\ Handling(p, "PutObject") /\ Checked(p, "ok")
  /\ IF req[p].data = None
     THEN Reply(p, Err(411, "MissingContentLength")) /\ UNCHANGED <<tgt, data, idx>>
     ELSE StartPut(p, ObjectId(req[p]), req[p].data) /\ Goto(p, "put")
  /\ UNCHANGED <<shards, markers, linked, local>>

DeleteObject(p) ==
  /\ Handling(p, "DeleteObject") /\ Checked(p, "ok")
  /\ tgt' = [tgt EXCEPT ![p] = ObjectId(req[p])]
  /\ Goto(p, "delShards")
  /\ UNCHANGED <<shards, markers, data, idx, linked, local>>

\* GET, HEAD and the listing go on with a call of their own.
CheckedRead(p) ==
  /\ Checked(p, "ok") /\ req[p].op \in {"GetObject", "HeadObject", "ListObjectsV2"}
  /\ Goto(p, IF Handling(p, "ListObjectsV2") THEN "list" ELSE "open")
  /\ UNCHANGED <<shards, markers, tgt, data, idx, linked, local>>

-----------------------------------------------------------------------------
(* PutObject, DeleteObject: the calls, then the answer.                    *)

\* POST complete stores an object in a bucket it does not look for, unless
\* its body or a part cannot be read.
Complete(p) ==
  /\ pc[p] = "complete"
  /\ \/ StartPut(p, ObjectId(req[p]), req[p].data) /\ Goto(p, "put")
        /\ reserved' = (reserved \/ Bucket(req[p]) = "__bucket__")
     \/ \E e \in {Err(400, "InvalidArgument"), InternalError} :
          Reply(p, e) /\ UNCHANGED <<tgt, data, idx, reserved>>
  /\ UNCHANGED <<shards, markers, linked, req, todo, found, shaky, asked, begun, ever, always>>

Mutate(p) ==
  /\ \/ PutTear(p) \/ PutStripe(p) \/ MarkerCreate(p)
     \/ MarkerWrite(p, Written(p), Failed(p)) \/ PutFails(p, Failed(p))
     \/ DelTear(p) \/ DelShards(p) \/ DelFails(p, Failed(p)) \/ DelMarker(p, Deleted(p))
  /\ UNCHANGED kept
  /\ ever' = [q \in Clients |-> IF Busy(q) THEN ever[q] \cup Facts(req[q])' ELSE ever[q]]
  /\ always' = [q \in Clients |-> IF Busy(q) THEN always[q] \cap Facts(req[q])' ELSE always[q]]

-----------------------------------------------------------------------------
(* HEAD and GET.  GET sends its status with the result of GetObject and    *)
(* drops the error of the copy that follows.                               *)

\* A Range request is answered with the whole object.
Success(r) == IF r.range THEN 206 ELSE 200

Open(p) ==
  /\ pc[p] = "open"
  /\ ListObjectShards(p, ObjectId(req[p]), "opened", Failed(p))
  /\ UNCHANGED local

Opened(p) ==
  /\ pc[p] = "opened"
  /\ \E result \in GetObject(p) :
       CASE result = "err" -> Reply(p, InternalError)
         [] result = "ErrObjectNotFound" -> Reply(p, Err(404, "NoSuchKey"))
         [] result = "ok" /\ Handling(p, "HeadObject") -> Reply(p, Ok(200, SizeFound(p)))
         [] OTHER -> /\ pc' = [pc EXCEPT ![p] = "copy"]
                     /\ resp' = [resp EXCEPT ![p] = Ok(Success(req[p]), << >>)]
  /\ UNCHANGED <<shards, markers, tgt, data, idx, linked, local>>

Copy(p) ==
  /\ pc[p] = "copy"
  /\ \E r \in ReadAll(tgt[p], idx[p]) : Reply(p, Ok(resp[p].status, r.bytes))
  /\ UNCHANGED <<shards, markers, tgt, data, idx, linked, local>>

-----------------------------------------------------------------------------
(* ListObjectsV2 takes the IDs from the shards of the store and the sizes  *)
(* from a GetObject for every shard key; what fails is left out.           *)

\* The filters on the ID: the bucket's and the prefix.
InListing(r, id) ==
  /\ id[1] = Bucket(r) /\ id[1] \notin {"__bucket__", "__multipart__"}
  /\ r.prefix # None => id[2] = r.prefix

List(p) ==
  /\ pc[p] = "list"
  /\ \E result \in ObjectShardsOfAll(p) :
       IF result = "ok"
       THEN /\ todo' = [todo EXCEPT ![p] =
                          {id \in Ids : shards[id] # << >> /\ InListing(req[p], id)}
                          \X (1 .. ListTries)]
            /\ Goto(p, "listKeys")
       ELSE Reply(p, InternalError) /\ UNCHANGED todo
  /\ UNCHANGED <<shards, markers, tgt, data, idx, linked, req, found, shaky, ever, always, asked,
                 reserved, begun>>

Named(p, id) == \E f \in found[p] : f[1] = id

ListKey(p) ==
  /\ pc[p] = "listKeys"
  /\ \E k \in todo[p] :
       /\ ListObjectShards(p, k[1], "listSize", UNCHANGED <<pc, resp, tgt, idx>>)
       /\ todo' = [todo EXCEPT ![p] = @ \ {k}]
       /\ shaky' = IF WalkFails \/ WalkMayFail(p) THEN [shaky EXCEPT ![p] = @ \cup {k[1]}]
                   ELSE shaky
  /\ UNCHANGED <<req, found, ever, always, asked, reserved, begun>>

ListSize(p) ==
  /\ pc[p] = "listSize"
  /\ \E result \in GetObject(p) :
       found' = [found EXCEPT ![p] =
                   IF result = "ok" /\ ~Named(p, tgt[p]) THEN @ \cup {<<tgt[p], SizeFound(p)>>}
                   ELSE @]
  /\ Goto(p, "listKeys")
  /\ UNCHANGED <<shards, markers, tgt, data, idx, linked, req, todo, shaky, ever, always, asked,
                 reserved, begun>>

\* Mutant: a page that is exactly full is not reported as truncated.
TruncatedAbove(n, max) == n > max
IsTruncated(n, max) == n >= max

\* The page is filled in the order of a Go map: any max-keys of them.
ListReply(p) ==
  /\ pc[p] = "listKeys" /\ todo[p] = {}
  /\ \E page \in SUBSET found[p] :
       /\ \/ page = found[p] /\ Cardinality(page) <= req[p].max
          \/ Cardinality(page) = req[p].max
       /\ Reply(p, Ok(200, [keys |-> page,
                            truncated |-> IsTruncated(Cardinality(page), req[p].max)]))
  /\ UNCHANGED <<shards, markers, tgt, data, idx, linked, local>>

-----------------------------------------------------------------------------
\* The process dies and is started again.
Crash ==
  /\ "crash" \in Failures /\ \E p \in Clients : Busy(p)
  /\ Forget
  /\ req' = [p \in Clients |-> None] /\ todo' = [p \in Clients |-> {}]
  /\ found' = [p \in Clients |-> {}] /\ shaky' = [p \in Clients |-> {}]
  /\ ever' = [p \in Clients |-> {}] /\ always' = [p \in Clients |-> {}]
  /\ UNCHANGED <<asked, reserved, begun>>

Handler(p) ==
  \/ Check(p) \/ CheckError(p) \/ NoBucket(p) \/ CreateBucket(p) \/ DeleteBucket(p) \/ HeadBucket(p)
  \/ PutObject(p) \/ DeleteObject(p) \/ CheckedRead(p) \/ Complete(p) \/ Mutate(p)
  \/ Open(p) \/ Opened(p) \/ Copy(p)
  \/ List(p) \/ ListKey(p) \/ ListSize(p) \/ ListReply(p)

Next ==
  \/ \E p \in Clients : (\E r \in Requests : Send(p, r)) \/ Handler(p)
  \/ Crash

Spec == Init /\ [][Next]_vars

-----------------------------------------------------------------------------
(* Properties.                                                             *)

Answered(p, op) == pc[p] = "done" /\ req[p].op = op

\* At some moment of p's request id had no shard, and at some moment no marker.
SeenAbsent(p, id) ==
  /\ \E f \in ever[p] : f[1] = id /\ f[2] = << >>
  /\ \E f \in ever[p] : f[1] = id /\ f[3] = None

\* The bucket and object handlers: "no such bucket" and "no such key" are said
\* only of what had no shard at some moment of the request and no marker at
\* some moment of it: not of a bucket or an object that could not be read, or
\* whose marker a crash left truncated.  The two moments may differ: a PUT can
\* store the first shard after GetObject's walk, and a DELETE remove the marker
\* before it is looked for.
NoFalseAbsence ==
  \A p \in Clients : pc[p] = "done" =>
    /\ resp[p].code = "NoSuchBucket" => SeenAbsent(p, BucketId(Bucket(req[p])))
    /\ resp[p].code = "NoSuchKey" => SeenAbsent(p, ObjectId(req[p]))

\* handleGetObject: the bytes of an object nobody has touched since the
\* request came in are sent completely, whatever interrupted requests have
\* made of its marker, or the status says otherwise.
QuietReadIsWhole ==
  \A p \in Clients : Answered(p, "GetObject") /\ "read" \notin Failures =>
    \A f \in always[p] : f[1] = ObjectId(req[p]) /\ f[2] # << >>
                         /\ Bad \cap {f[2][i] : i \in DOMAIN f[2]} = {} =>
      \/ resp[p].status = Success(req[p]) /\ resp[p].body = f[2]
      \/ resp[p].status \in {403, 500} \/ resp[p].code = "NoSuchBucket"

\* A size of an object: of its stripes or as its marker tells it.
SizeSeen(p, k) ==
  \E f \in ever[p] : f[1] = k[1] /\ k[2] \in {Len(f[2]), f[3]}

\* handleListObjectsV2: a page names objects of its bucket only, with a size
\* they had during the request.  A page that is not reported as truncated names
\* every object whose bytes were on disk all the time and whose last stripe is
\* readable.  Left out without a word are only objects whose walk met a file
\* without a header, a DELETE at work, or a failing disk (the continue after
\* GetObject).
ListingIsHonest ==
  \A p \in Clients : Answered(p, "ListObjectsV2") /\ resp[p].status = 200 =>
    /\ \A k \in resp[p].body.keys : SizeSeen(p, k)
    /\ ~resp[p].body.truncated =>
         \A f \in always[p] : InListing(req[p], f[1]) /\ f[2] # << >>
                              /\ f[2][Len(f[2])] \notin Bad /\ f[1] \notin shaky[p] =>
           \E k \in resp[p].body.keys : k[1] = f[1]

\* Buckets and objects share one space of IDs, and a PUT of the object "b" in a
\* bucket "__bucket__" would write the marker of the bucket "b": as long as no
\* POST complete, which looks for no bucket, has stored an object there, every
\* bucket on disk was there at the start or was asked for by a CreateBucket
\* with a valid name.
BucketsAreCreated ==
  ~reserved => \A id \in Ids : id[1] = "__bucket__" /\ markers[id] # None =>
                 id[2] \in asked
=============================================================================
