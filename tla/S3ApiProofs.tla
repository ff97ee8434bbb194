----------------------------- MODULE S3ApiProofs -----------------------------
(***************************************************************************)
(* What the bucket and object handlers answer was true of the store at     *)
(* some moment of the request, for any number of clients, buckets, objects *)
(* and requests.                                                           *)
(***************************************************************************)
EXTENDS S3Api, SequenceTheorems, TLAPS

PutPlaces == {"put", "putStripe", "putMarker"}
DelPlaces == {"delShards", "delRest", "delMarker"}
Places == PutPlaces \cup DelPlaces
          \cup {"idle", "done", "check", "checked", "complete", "open", "opened", "copy",
                "list", "listKeys", "listSize"}

Stripe == Bad \cup UNION {{r.data[i] : i \in DOMAIN r.data} : r \in {q \in Requests : q.data # None}}

TypeInv ==
  /\ shards \in [Ids -> Seq(Stripe)] /\ DOMAIN markers = Ids
  /\ pc \in [Clients -> Places] /\ req \in [Clients -> Requests \cup {None}]
  /\ idx \in [Clients -> Nat] /\ data \in [Clients -> Seq(Stripe)]
  /\ DOMAIN tgt = Clients /\ DOMAIN resp = Clients
  /\ DOMAIN todo = Clients /\ DOMAIN found = Clients /\ DOMAIN shaky = Clients
  /\ DOMAIN ever = Clients /\ DOMAIN always = Clients

\* A handler is at a place of its request.
AtPlace(p) ==
  /\ pc[p] # "idle" => req[p] \in Requests
  /\ pc[p] \in PutPlaces => req[p].op \in {"CreateBucket", "PutObject", "Complete"}
  /\ pc[p] \in DelPlaces => req[p].op \in {"DeleteBucket", "DeleteObject"}
  /\ pc[p] = "complete" => req[p].op = "Complete"
  /\ pc[p] \in {"open", "opened"} => req[p].op \in {"GetObject", "HeadObject"}
  /\ pc[p] = "copy" => req[p].op = "GetObject"
  /\ pc[p] \in {"list", "listKeys", "listSize"} => req[p].op = "ListObjectsV2"

\* The ghosts of a request in progress have followed the disk.
Followed(p) == Busy(p) => Facts(req[p]) \subseteq ever[p] /\ always[p] \subseteq Facts(req[p])

\* CreateBucket goes on with a valid name.
Creating(p) ==
  pc[p] \in {"check", "checked"} /\ req[p].op = "CreateBucket" =>
    Bucket(req[p]) \in asked \cap ValidNames

\* Between the walk and the rest of GetObject: the object had as many stripes
\* as the walk has listed, and has them still if nobody has touched it.  A
\* bucket had none, unless POST complete has written one.
Walked == {"checked", "opened", "listSize"}
Counted(p) ==
  pc[p] \in Walked =>
    /\ tgt[p] \in Ids /\ About(req[p], tgt[p])
    /\ pc[p] = "checked" => tgt[p] = BucketId(Bucket(req[p])) /\ (~reserved => idx[p] = 0)
    /\ pc[p] = "opened" => tgt[p] = ObjectId(req[p])
    /\ \E f \in ever[p] : f[1] = tgt[p] /\ f[2] \in Seq(Stripe) /\ Len(f[2]) = idx[p]
    /\ \A f \in always[p] : f[1] = tgt[p] => Len(f[2]) = idx[p]

\* A PUT of a bucket's marker has no body and a name that was asked for; a
\* PUT of an object is in no reserved bucket, unless it is of POST complete.
PutTarget(p) ==
  pc[p] \in PutPlaces =>
    \/ /\ tgt[p] = BucketId(Bucket(req[p])) /\ data[p] = << >>
       /\ Bucket(req[p]) \in asked \cap ValidNames /\ pc[p] # "putStripe"
    \/ /\ tgt[p] = ObjectId(req[p]) /\ (Bucket(req[p]) = "__bucket__" => reserved)
       /\ pc[p] = "putStripe" => idx[p] < Len(data[p])

\* A DELETE is of an ID that a request can name.
DelTarget(p) == pc[p] \in DelPlaces => tgt[p] \in Ids

\* GET knows the number of stripes of an object that has not changed.
Copying(p) ==
  pc[p] = "copy" =>
    /\ tgt[p] = ObjectId(req[p]) /\ resp[p].status = Success(req[p])
    /\ resp[p].code = ""
    /\ \A f \in always[p] : f[1] = ObjectId(req[p]) => idx[p] = Len(f[2])

\* The listing starts with nothing found.
Fresh(p) == pc[p] \in {"check", "checked", "list"} => found[p] = {}

\* An object that the page of r has to name.
Due(r, f) == InListing(r, f[1]) /\ f[2] # << >> /\ f[2][Len(f[2])] \notin Bad

\* The listing has found, or is still to look at, what was there all along.
Listing(p) ==
  pc[p] \in {"listKeys", "listSize"} =>
    /\ todo[p] \subseteq {id \in Ids : InListing(req[p], id)} \X (1 .. ListTries)
    /\ \A k \in found[p] : SizeSeen(p, k)
    /\ pc[p] = "listSize" /\ "read" \in Failures => tgt[p] \in shaky[p]
    /\ \A f \in always[p] : Due(req[p], f) =>
         \/ Named(p, f[1]) \/ <<f[1], 1>> \in todo[p] \/ f[1] \in shaky[p]
         \/ pc[p] = "listSize" /\ tgt[p] = f[1]

\* The four properties, of one client's answer.
AbsentAnswer(p) ==
  pc[p] = "done" =>
    /\ resp[p].code = "NoSuchBucket" => SeenAbsent(p, BucketId(Bucket(req[p])))
    /\ resp[p].code = "NoSuchKey" => SeenAbsent(p, ObjectId(req[p]))

ReadAnswer(p) ==
  Answered(p, "GetObject") /\ "read" \notin Failures =>
    \A f \in always[p] : f[1] = ObjectId(req[p]) /\ f[2] # << >>
                         /\ Bad \cap {f[2][i] : i \in DOMAIN f[2]} = {} =>
      \/ resp[p].status = Success(req[p]) /\ resp[p].body = f[2]
      \/ resp[p].status \in {403, 500} \/ resp[p].code = "NoSuchBucket"

ListAnswer(p) ==
  Answered(p, "ListObjectsV2") /\ resp[p].status = 200 =>
    /\ \A k \in resp[p].body.keys : SizeSeen(p, k)
    /\ ~resp[p].body.truncated =>
         \A f \in always[p] : Due(req[p], f) /\ f[1] \notin shaky[p] =>
           \E k \in resp[p].body.keys : k[1] = f[1]

ClientInv(p) ==
  /\ AtPlace(p) /\ Followed(p) /\ Creating(p) /\ Counted(p) /\ PutTarget(p)
  /\ DelTarget(p) /\ Copying(p) /\ Fresh(p) /\ Listing(p)
  /\ AbsentAnswer(p) /\ ReadAnswer(p) /\ ListAnswer(p)

\* The space of bucket IDs holds markers of valid buckets and nothing else.
BucketSpace ==
  ~reserved => \A id \in Ids : id[1] = "__bucket__" =>
    shards[id] = << >> /\ (markers[id] # None => id[2] \in asked \cap ValidNames)

Inv == TypeInv /\ BucketSpace /\ \A p \in Clients : ClientInv(p)

-----------------------------------------------------------------------------
\* The fields of an answer.
LEMMA AnswerFields ==
  /\ \A s, c : Err(s, c).status = s /\ Err(s, c).code = c
  /\ \A s, b : Ok(s, b).status = s /\ Ok(s, b).code = "" /\ Ok(s, b).body = b
BY DEF Err, Ok

\* The IDs of a well-formed request.
LEMMA IdFacts ==
  ASSUME NEW r \in Requests
  PROVE  /\ BucketId(Bucket(r)) \in Ids
         /\ BucketId(Bucket(r))[1] = "__bucket__" /\ BucketId(Bucket(r))[2] = Bucket(r)
         /\ ObjectId(r)[1] = Bucket(r)
         /\ r.op \in ObjectOps => ObjectId(r) \in Ids
<1>1. r.path \in Seq(STRING) /\ r.path # << >>
  BY RequestsAssumption
<1>2. Object(r) \in Seq(STRING)
  <2>1. CASE Len(r.path) >= 3
    <3>1. Len(r.path) \in Nat /\ \A i \in 3 .. Len(r.path) : r.path[i] \in STRING
      BY <1>1, LenProperties, ElementOfSeq
    <3>2. SubSeq(r.path, 3, Len(r.path)) \in Seq(STRING)
      BY <3>1, SubSeqProperties
    <3> QED BY <2>1, <3>2 DEF Object
  <2>2. CASE ~(Len(r.path) >= 3)
    BY <1>1, <2>2, HeadTailProperties DEF Object
  <2> QED BY <2>1, <2>2
<1>3. ObjectId(r)[1] = Bucket(r)
  <2>1. Len(r.path) \in Nat /\ Len(r.path) # 0
    BY <1>1, EmptySeq
  <2>2. Bucket(r) \in STRING
    BY <1>1, <2>1, ElementOfSeq DEF Bucket
  <2> QED BY <1>2, <2>2 DEF ObjectId
<1> QED BY <1>3, RequestsAssumption DEF BucketId

\* The invariant holds when the server starts.
LEMMA InitInv == Init => Inv
<1> SUFFICES ASSUME Init PROVE Inv
  OBVIOUS
<1> USE DEF Init, StoreInit
<1>1. TypeInv
  BY DEF TypeInv, Places
<1>2. BucketSpace
  <2>1. ASSUME NEW id \in Ids, markers[id] # None, id[1] = "__bucket__"
        PROVE  id[2] \in asked \cap ValidNames
    <3>1. PICK b \in Buckets : id = BucketId(b)
      BY <2>1, S3Assumption
    <3> QED BY <3>1, S3Assumption DEF BucketId
  <2> QED BY <2>1 DEF BucketSpace
<1>3. \A p \in Clients : ClientInv(p)
  BY DEF ClientInv, AtPlace, Followed, Busy, Creating, Counted, Walked, PutTarget, DelTarget, Copying,
         Fresh, Listing, AbsentAnswer, ReadAnswer, ListAnswer, Answered, PutPlaces, DelPlaces
<1> QED BY <1>1, <1>2, <1>3 DEF Inv

\* The invariant of a client, as long as nothing of the client but its ghosts
\* changes.
LEMMA ClientFrame ==
  ASSUME NEW q \in Clients, ClientInv(q), Followed(q)',
         /\ pc'[q] = pc[q] /\ req'[q] = req[q] /\ resp'[q] = resp[q] /\ tgt'[q] = tgt[q]
         /\ idx'[q] = idx[q] /\ data'[q] = data[q] /\ todo'[q] = todo[q]
         /\ found'[q] = found[q] /\ shaky'[q] = shaky[q],
         ever[q] \subseteq ever'[q], always'[q] \subseteq always[q], asked \subseteq asked',
         reserved => reserved'
  PROVE  ClientInv(q)'
<1> USE DEF ClientInv
<1>a. AtPlace(q)'
  BY DEF AtPlace
<1>d. Creating(q)'
  BY DEF Creating, Bucket
<1>g. Counted(q)'
  BY DEF Counted, Walked, About, BucketId, Bucket, ObjectId, Object
<1>b. PutTarget(q)'
  BY DEF PutTarget, BucketId, Bucket, ObjectId, Object
<1>f. DelTarget(q)'
  BY DEF DelTarget
<1>c. Copying(q)'
  BY DEF Copying, ObjectId, Object, Bucket, Success
<1>e. Fresh(q)'
  BY DEF Fresh
<1>2. Listing(q)'
  <2> SUFFICES ASSUME pc[q] \in {"listKeys", "listSize"} PROVE Listing(q)'
    BY DEF Listing
  <2>1. \A x \in found'[q] : SizeSeen(q, x)'
    BY DEF Listing, SizeSeen
  <2>2. /\ todo'[q] \subseteq {id \in Ids : InListing(req'[q], id)} \X (1 .. ListTries)
        /\ pc'[q] = "listSize" /\ "read" \in Failures => tgt'[q] \in shaky'[q]
    BY DEF Listing
  <2>3. ASSUME NEW f \in always'[q], Due(req'[q], f)
        PROVE  \/ Named(q, f[1])' \/ <<f[1], 1>> \in todo'[q] \/ f[1] \in shaky'[q]
               \/ pc'[q] = "listSize" /\ tgt'[q] = f[1]
    BY <2>3 DEF Listing, Named
  <2> QED BY <2>1, <2>2, <2>3 DEF Listing
<1>3. AbsentAnswer(q)'
  BY DEF AbsentAnswer, SeenAbsent
<1>4. ReadAnswer(q)'
  BY DEF ReadAnswer, Answered, Success
<1>5. ListAnswer(q)'
  BY DEF ListAnswer, Answered, SizeSeen, Due, InListing, Bucket
<1> QED BY <1>a, <1>b, <1>c, <1>d, <1>e, <1>f, <1>g, <1>2, <1>3, <1>4, <1>5

-----------------------------------------------------------------------------
(* Steps that change nothing on disk.                                      *)

\* A step that changes nothing but locals of p.
Own(p) ==
  /\ UNCHANGED <<shards, markers, req, ever, always, asked>> /\ (reserved => reserved')
  /\ \A q \in Clients \ {p} :
       /\ pc'[q] = pc[q] /\ resp'[q] = resp[q] /\ tgt'[q] = tgt[q]
       /\ idx'[q] = idx[q] /\ data'[q] = data[q] /\ todo'[q] = todo[q]
       /\ found'[q] = found[q] /\ shaky'[q] = shaky[q]

\* Such a step leaves the other clients and the disk as they are.
LEMMA OwnStep ==
  ASSUME Inv, NEW p \in Clients, Own(p), TypeInv', ClientInv(p)'
  PROVE  Inv'
<1>1. BucketSpace'
  BY DEF Inv, BucketSpace, Own
<1>2. ASSUME NEW q \in Clients PROVE ClientInv(q)'
  <2>1. CASE q = p
    BY <2>1
  <2>2. CASE q # p
    <3>1. ClientInv(q) /\ Followed(q)
      BY DEF Inv, ClientInv
    <3>2. Followed(q)'
      BY <2>2, <3>1 DEF Own, Followed, Busy, Facts
    <3> QED BY <2>2, <3>1, <3>2, ClientFrame DEF Own
  <2> QED BY <2>1, <2>2
<1> QED BY <1>1, <1>2 DEF Inv

\* An answer keeps the invariant when it is true.
LEMMA ReplyStep ==
  ASSUME Inv, NEW p \in Clients, Own(p), TypeInv', Busy(p), pc'[p] = "done",
         AbsentAnswer(p)', ReadAnswer(p)', ListAnswer(p)'
  PROVE  Inv'
<1>1. req[p] \in Requests /\ req'[p] = req[p]
  BY DEF Inv, ClientInv, AtPlace, Busy, Own
<1>2. AtPlace(p)'
  BY <1>1 DEF AtPlace, PutPlaces, DelPlaces
<1>3. /\ Followed(p)' /\ Creating(p)' /\ Counted(p)' /\ PutTarget(p)' /\ DelTarget(p)'
      /\ Copying(p)' /\ Fresh(p)' /\ Listing(p)'
  BY DEF Followed, Busy, Creating, Counted, Walked, PutTarget, DelTarget, Copying, Fresh, Listing, PutPlaces, DelPlaces
<1>4. ClientInv(p)'
  BY <1>2, <1>3 DEF ClientInv
<1> QED BY <1>4, OwnStep

\* The answers that promise nothing: errors that speak of no absence.
Harmless(r) ==
  /\ r.code \notin {"NoSuchBucket", "NoSuchKey"}
  /\ r.status # 200

\* Such an answer keeps the invariant.
LEMMA HarmlessReply ==
  ASSUME Inv, NEW p \in Clients, Own(p), TypeInv', Busy(p), pc'[p] = "done",
         Harmless(resp'[p]), req[p].op = "GetObject" => resp'[p].status \in {403, 500}
  PROVE  Inv'
<1>1. req'[p] = req[p]
  BY DEF Own
<1>2. AbsentAnswer(p)'
  BY DEF AbsentAnswer, Harmless
<1>3. ReadAnswer(p)'
  BY <1>1 DEF ReadAnswer, Answered
<1>4. ListAnswer(p)'
  BY DEF ListAnswer, Harmless
<1> QED BY <1>2, <1>3, <1>4, ReplyStep

\* A check that fails is answered with an error and nothing else.
LEMMA CheckErrorStep ==
  ASSUME Inv, NEW p \in Clients, CheckError(p)
  PROVE  Inv'
<1> USE DEF CheckError, Failed, Reply, kept, local
<1>1. Busy(p)
  BY DEF Checked, Busy
<1>2. TypeInv'
  BY DEF Inv, TypeInv, Places
<1>3. Own(p)
  BY DEF Own, Inv, TypeInv
<1>4. pc'[p] = "done" /\ resp'[p] = InternalError
  BY DEF Inv, TypeInv
<1>5. Harmless(resp'[p]) /\ resp'[p].status \in {403, 500}
  BY <1>4 DEF Harmless, InternalError, Err
<1> QED BY <1>1, <1>2, <1>3, <1>4, <1>5, HarmlessReply

-----------------------------------------------------------------------------
(* The check of the bucket.                                                *)

\* What a result of GetObject says about the disk.
LEMMA GetFacts ==
  ASSUME NEW p, NEW result \in GetObject(p)
  PROVE  /\ result \in {"ok", "err", "ErrObjectNotFound"}
         /\ result = "ErrObjectNotFound" => idx[p] = 0 /\ markers[tgt[p]] = None
         /\ result = "ok" /\ idx[p] = 0 => markers[tgt[p]] \notin {None, Torn}
<1> DEFINE id == tgt[p]
<1>1. ReadMarker(id) \in {"ok", "err", "ErrObjectNotFound"}
  BY DEF ReadMarker
<1>2. ReadMarker(id) = "ErrObjectNotFound" => markers[id] = None
  BY DEF ReadMarker
<1>3. ReadMarker(id) = "ok" => markers[id] \notin {None, Torn}
  BY DEF ReadMarker
<1> QED BY <1>1, <1>2, <1>3 DEF GetObject

\* A client at work has a request, and the IDs of it exist.
LEMMA BusyFacts ==
  ASSUME Inv, NEW p \in Clients, pc[p] # "idle"
  PROVE  /\ req[p] \in Requests /\ BucketId(Bucket(req[p])) \in Ids
         /\ BucketId(Bucket(req[p]))[1] = "__bucket__"
         /\ BucketId(Bucket(req[p]))[2] = Bucket(req[p])
         /\ ObjectId(req[p])[1] = Bucket(req[p])
         /\ req[p].op \in ObjectOps => ObjectId(req[p]) \in Ids
<1>1. req[p] \in Requests
  BY DEF Inv, ClientInv, AtPlace
<1> QED BY <1>1, IdFacts

\* A bucket that was found has a valid name, unless POST complete has been
\* among the buckets.
LEMMA BucketFound ==
  ASSUME Inv, NEW p \in Clients, Checked(p, "ok"), ~reserved
  PROVE  Bucket(req[p]) \in asked \cap ValidNames /\ Bucket(req[p]) # "__bucket__"
<1> DEFINE id == BucketId(Bucket(req[p]))
<1>1. id \in Ids /\ id[1] = "__bucket__" /\ id[2] = Bucket(req[p])
  BY BusyFacts DEF Checked
<1>2. markers[id] # None => id[2] \in asked \cap ValidNames
  BY <1>1 DEF Inv, BucketSpace
<1>3. tgt[p] = id /\ idx[p] = 0
  BY DEF Inv, ClientInv, Counted, Walked, Checked
<1>4. markers[id] # None
  BY <1>3, GetFacts DEF Checked
<1> QED BY <1>1, <1>2, <1>4, S3Assumption

\* What is on disk during a request is in its ghost.
LEMMA SeenNow ==
  ASSUME Inv, NEW p \in Clients, Busy(p), NEW id \in Ids, About(req[p], id)
  PROVE  <<id, shards[id], markers[id]>> \in ever[p]
BY DEF Inv, ClientInv, Followed, Facts

\* What was on disk all the time is on disk now.
LEMMA StillThere ==
  ASSUME Inv, NEW p \in Clients, Busy(p), NEW f \in always[p]
  PROVE  f[1] \in Ids /\ f[2] = shards[f[1]] /\ f[3] = markers[f[1]]
BY DEF Inv, ClientInv, Followed, Facts

\* GetObject answers that there is no object when the walk has listed no shard
\* and the marker is missing later.
LEMMA NothingFound ==
  ASSUME Inv, NEW p \in Clients, pc[p] \in Walked, "ErrObjectNotFound" \in GetObject(p)
  PROVE  SeenAbsent(p, tgt[p])
<1>1. idx[p] = 0 /\ markers[tgt[p]] = None
  BY GetFacts
<1>2. /\ tgt[p] \in Ids /\ About(req[p], tgt[p]) /\ Busy(p)
      /\ \E f \in ever[p] : f[1] = tgt[p] /\ f[2] \in Seq(Stripe) /\ Len(f[2]) = idx[p]
  BY DEF Inv, ClientInv, Counted, Walked, Busy
<1>3. \E f \in ever[p] : f[1] = tgt[p] /\ f[2] = << >>
  BY <1>1, <1>2, EmptySeq
<1>4. <<tgt[p], shards[tgt[p]], markers[tgt[p]]>> \in ever[p]
  BY <1>2, SeenNow
<1>5. \E f \in ever[p] : f[1] = tgt[p] /\ f[3] = None
  BY <1>1, <1>4
<1> QED BY <1>3, <1>5 DEF SeenAbsent

\* After the walk the handler knows the stripes of the object.
LEMMA CountStep ==
  ASSUME Inv, NEW p \in Clients, Busy(p), NEW id \in Ids, About(req[p], id),
         tgt'[p] = id, idx'[p] = totalStripes(id), UNCHANGED <<req, ever, always, reserved>>,
         pc'[p] = "checked" => id = BucketId(Bucket(req[p])),
         pc'[p] = "opened" => id = ObjectId(req[p])
  PROVE  Counted(p)'
<1>1. <<id, shards[id], markers[id]>> \in ever[p] /\ shards[id] \in Seq(Stripe)
  BY SeenNow DEF Inv, TypeInv
<1>2. \E f \in ever[p] : f[1] = id /\ f[2] \in Seq(Stripe) /\ Len(f[2]) = totalStripes(id)
  BY <1>1 DEF totalStripes
<1>3. \A f \in always[p] : f[1] = id => Len(f[2]) = totalStripes(id)
  BY StillThere DEF totalStripes
<1>4. pc'[p] = "checked" /\ ~reserved => totalStripes(id) = 0
  <2>1. SUFFICES ASSUME pc'[p] = "checked", ~reserved PROVE Len(shards[id]) = 0
    BY DEF totalStripes
  <2>2. id[1] = "__bucket__"
    BY <2>1 DEF BucketId
  <2>3. shards[id] = << >>
    BY <2>1, <2>2 DEF Inv, BucketSpace
  <2> QED BY <2>3
<1>5. About(req'[p], tgt'[p])
  BY DEF About
<1> QED BY <1>2, <1>3, <1>4, <1>5 DEF Counted, Bucket, BucketId, ObjectId, Object

\* "No such bucket" is said when GetObject of its marker has found nothing.
LEMMA NoBucketStep ==
  ASSUME Inv, NEW p \in Clients, NoBucket(p)
  PROVE  Inv'
<1> USE DEF NoBucket, Reply, kept, local
<1>1. Busy(p)
  BY DEF Checked, Busy
<1>2. TypeInv'
  BY DEF Inv, TypeInv, Places
<1>3. Own(p)
  BY DEF Own, Inv, TypeInv
<1>4. pc'[p] = "done" /\ resp'[p] = Err(404, "NoSuchBucket") /\ req' = req /\ ever' = ever
  BY DEF Inv, TypeInv
<1>5. SeenAbsent(p, BucketId(Bucket(req[p])))
  <2>1. tgt[p] = BucketId(Bucket(req[p])) /\ pc[p] \in Walked
    BY DEF Inv, ClientInv, Counted, Walked, Checked
  <2>2. SeenAbsent(p, tgt[p])
    BY <2>1, NothingFound DEF Checked
  <2> QED BY <2>1, <2>2
<1>6. AbsentAnswer(p)'
  <2>1. resp'[p].code = "NoSuchBucket"
    BY <1>4 DEF Err
  <2>2. SeenAbsent(p, BucketId(Bucket(req[p])))'
    BY <1>4, <1>5 DEF SeenAbsent, BucketId, Bucket
  <2> HIDE DEF NoBucket, Reply
  <2> QED BY <2>1, <2>2 DEF AbsentAnswer
<1>7. ReadAnswer(p)' /\ ListAnswer(p)'
  BY <1>4 DEF ReadAnswer, ListAnswer, Err
<1> QED BY <1>1, <1>2, <1>3, <1>4, <1>6, <1>7, ReplyStep

\* HEAD of a bucket says nothing of its objects.
LEMMA HeadBucketStep ==
  ASSUME Inv, NEW p \in Clients, HeadBucket(p)
  PROVE  Inv'
<1> USE DEF HeadBucket, Reply, kept, local
<1>1. Busy(p) /\ req[p].op = "HeadBucket"
  BY DEF Checked, Busy, Handling
<1>2. TypeInv'
  BY DEF Inv, TypeInv, Places
<1>3. Own(p)
  BY DEF Own, Inv, TypeInv
<1>4. pc'[p] = "done" /\ resp'[p] = Ok(200, None) /\ req'[p] = req[p]
  BY DEF Inv, TypeInv
<1>5. AbsentAnswer(p)'
  <2> HIDE DEF HeadBucket
  <2>0. Ok(200, None).code = ""
    BY DEF Ok
  <2>1. resp'[p].code = ""
    BY <1>4, <2>0
  <2> QED BY <2>1 DEF AbsentAnswer
<1>6. ReadAnswer(p)' /\ ListAnswer(p)'
  BY <1>1, <1>4 DEF ReadAnswer, ListAnswer, Answered
<1> QED BY <1>1, <1>2, <1>3, <1>4, <1>5, <1>6, ReplyStep

\* The body of a PUT is a sequence of stripes.
LEMMA BodyIsStripes ==
  ASSUME NEW r \in Requests, r.data # None
  PROVE  r.data \in Seq(Stripe)
<1>1. r.data \in Seq({r.data[i] : i \in DOMAIN r.data})
  BY RequestsAssumption
<1>2. \A i \in DOMAIN r.data : r.data[i] \in Stripe
  BY DEF Stripe
<1>3. Len(r.data) \in Nat /\ DOMAIN r.data = 1 .. Len(r.data)
  BY <1>1, LenProperties
<1>4. r.data = [i \in 1 .. Len(r.data) |-> r.data[i]]
  BY <1>1, <1>3
<1> QED BY <1>2, <1>3, <1>4, IsASeq

\* CreateBucket goes on to write the marker of a name it has validated.
LEMMA CreateBucketStep ==
  ASSUME Inv, NEW p \in Clients, CreateBucket(p)
  PROVE  Inv'
<1> USE DEF CreateBucket, kept, local
<1>1. Busy(p) /\ pc[p] = "checked" /\ req[p].op = "CreateBucket"
  BY DEF Checked, Busy, Handling
<1>2. CASE Reply(p, Err(409, "BucketAlreadyOwnedByYou")) /\ UNCHANGED <<tgt, data, idx>>
  <2> USE <1>2 DEF Reply
  <2>1. TypeInv'
    BY DEF Inv, TypeInv, Places
  <2>2. Own(p)
    BY DEF Own, Inv, TypeInv
  <2>3. pc'[p] = "done" /\ resp'[p] = Err(409, "BucketAlreadyOwnedByYou")
    BY DEF Inv, TypeInv
  <2>4. Harmless(resp'[p])
    BY <2>3 DEF Harmless, Err
  <2> QED BY <1>1, <2>1, <2>2, <2>3, <2>4, HarmlessReply
<1>3. CASE StartPut(p, BucketId(Bucket(req[p])), << >>) /\ Goto(p, "put")
  <2> USE <1>3 DEF StartPut, Goto
  <2>1. TypeInv'
    BY EmptySeq DEF Inv, TypeInv, Places, PutPlaces
  <2>2. Own(p)
    BY DEF Own, Inv, TypeInv
  <2>3. /\ pc'[p] = "put" /\ tgt'[p] = BucketId(Bucket(req[p])) /\ data'[p] = << >>
        /\ req' = req /\ asked' = asked /\ reserved' = reserved /\ ever' = ever
        /\ always' = always
        /\ shards' = shards /\ markers' = markers
    BY DEF Inv, TypeInv
  <2>4. Bucket(req[p]) \in asked \cap ValidNames /\ req[p] \in Requests /\ Followed(p)
    BY <1>1 DEF Inv, ClientInv, Creating, AtPlace
  <2> HIDE <1>3 DEF CreateBucket, StartPut, Goto
  <2>5. AtPlace(p)'
    BY <1>1, <2>3, <2>4 DEF AtPlace, PutPlaces, DelPlaces
  <2>6. Followed(p)'
    BY <1>1, <2>3, <2>4 DEF Followed, Busy, Facts
  <2>7. PutTarget(p)'
    BY <2>3, <2>4 DEF PutTarget, Bucket, BucketId
  <2>8. /\ Creating(p)' /\ Counted(p)' /\ DelTarget(p)' /\ Copying(p)' /\ Fresh(p)'
        /\ Listing(p)' /\ AbsentAnswer(p)' /\ ReadAnswer(p)' /\ ListAnswer(p)'
    BY <2>3 DEF Creating, Counted, Walked, DelTarget, DelPlaces, Copying, Fresh, Listing, AbsentAnswer, ReadAnswer, ListAnswer, Answered
  <2>9. ClientInv(p)'
    BY <2>5, <2>6, <2>7, <2>8 DEF ClientInv
  <2> QED BY <2>1, <2>2, <2>9, OwnStep
<1> QED BY <1>2, <1>3

\* PutObject goes on in a bucket that was found, hence in no reserved one.
LEMMA PutObjectStep ==
  ASSUME Inv, NEW p \in Clients, PutObject(p)
  PROVE  Inv'
<1> USE DEF PutObject, kept, local
<1>1. Busy(p) /\ pc[p] = "checked" /\ req[p].op = "PutObject"
  BY DEF Checked, Busy, Handling
<1>2. CASE req[p].data = None
  <2> USE <1>2 DEF Reply
  <2>1. TypeInv'
    BY DEF Inv, TypeInv, Places
  <2>2. Own(p)
    BY DEF Own, Inv, TypeInv
  <2>3. pc'[p] = "done" /\ resp'[p] = Err(411, "MissingContentLength")
    BY DEF Inv, TypeInv
  <2>4. Harmless(resp'[p])
    BY <2>3 DEF Harmless, Err
  <2> QED BY <1>1, <2>1, <2>2, <2>3, <2>4, HarmlessReply
<1>3. CASE req[p].data # None
  <2> USE <1>3 DEF StartPut, Goto
  <2>0. req[p] \in Requests /\ Followed(p) /\ req[p].data \in Seq(Stripe)
    BY <1>1, BodyIsStripes DEF Inv, ClientInv, AtPlace
  <2>1. TypeInv'
    <3>1. data \in [Clients -> Seq(Stripe)] /\ data' = [data EXCEPT ![p] = req[p].data]
      BY DEF Inv, TypeInv
    <3>2. data' \in [Clients -> Seq(Stripe)]
      BY <2>0, <3>1
    <3>3. /\ pc' = [pc EXCEPT ![p] = "put"] /\ idx' = [idx EXCEPT ![p] = 0]
          /\ tgt' = [tgt EXCEPT ![p] = ObjectId(req[p])]
      OBVIOUS
    <3>4. UNCHANGED <<shards, markers, req, resp, todo, found, shaky, ever, always>>
      OBVIOUS
    <3> HIDE <1>3 DEF PutObject
    <3> QED BY <3>2, <3>3, <3>4 DEF Inv, TypeInv, Places, PutPlaces
  <2>2. Own(p)
    BY DEF Own, Inv, TypeInv
  <2>3. /\ pc'[p] = "put" /\ tgt'[p] = ObjectId(req[p])
        /\ req' = req /\ asked' = asked /\ reserved' = reserved /\ ever' = ever
        /\ always' = always
        /\ shards' = shards /\ markers' = markers
    BY DEF Inv, TypeInv
  <2>4. Bucket(req[p]) = "__bucket__" => reserved
    BY BucketFound
  <2> HIDE <1>3 DEF PutObject, StartPut, Goto
  <2>5. AtPlace(p)'
    BY <1>1, <2>0, <2>3, <2>4 DEF AtPlace, PutPlaces, DelPlaces
  <2>6. Followed(p)'
    BY <1>1, <2>0, <2>3, <2>4 DEF Followed, Busy, Facts
  <2>7. PutTarget(p)'
    BY <2>3, <2>4 DEF PutTarget, Bucket, ObjectId, Object
  <2>8. /\ Creating(p)' /\ Counted(p)' /\ DelTarget(p)' /\ Copying(p)' /\ Fresh(p)'
        /\ Listing(p)' /\ AbsentAnswer(p)' /\ ReadAnswer(p)' /\ ListAnswer(p)'
    BY <2>3 DEF Creating, Counted, Walked, DelTarget, DelPlaces, Copying, Fresh, Listing, AbsentAnswer, ReadAnswer, ListAnswer, Answered
  <2>9. ClientInv(p)'
    BY <2>5, <2>6, <2>7, <2>8 DEF ClientInv
  <2> QED BY <2>1, <2>2, <2>9, OwnStep
<1> QED BY <1>2, <1>3

\* A handler that goes on after the check with a DELETE or a read.
LEMMA MoveStep ==
  ASSUME Inv, NEW p \in Clients, Own(p), TypeInv', AtPlace(p)', DelTarget(p)', pc[p] = "checked",
         pc'[p] \in {"delShards", "open", "list"}, found' = found
  PROVE  Inv'
<1>1. Followed(p) /\ Busy(p)
  BY DEF Inv, ClientInv, Busy
<1>2. Followed(p)'
  BY <1>1 DEF Followed, Facts, Own
<1>4. Fresh(p)'
  BY DEF Inv, ClientInv, Fresh
<1>3. /\ Creating(p)' /\ Counted(p)' /\ PutTarget(p)' /\ Copying(p)' /\ Listing(p)'
      /\ AbsentAnswer(p)' /\ ReadAnswer(p)' /\ ListAnswer(p)'
  BY DEF Creating, Counted, Walked, PutTarget, PutPlaces, Copying, Listing, AbsentAnswer, ReadAnswer,
         ListAnswer, Answered
<1> QED BY <1>2, <1>3, <1>4, OwnStep DEF ClientInv

\* DELETE, GET, HEAD and the listing go on after a check that found the bucket.
LEMMA GoOnStep ==
  ASSUME Inv, NEW p \in Clients, DeleteBucket(p) \/ DeleteObject(p) \/ CheckedRead(p)
  PROVE  Inv'
<1>1. pc[p] = "checked" /\ req[p] \in Requests
  BY DEF DeleteBucket, DeleteObject, CheckedRead, Checked, Inv, ClientInv, AtPlace
<1>2. TypeInv' /\ Own(p) /\ found' = found
  <2> USE DEF Goto, kept, local
  <2>1. CASE DeleteBucket(p)
    BY <2>1 DEF DeleteBucket, Inv, TypeInv, Places, DelPlaces, Own
  <2>2. CASE DeleteObject(p)
    BY <2>2 DEF DeleteObject, Inv, TypeInv, Places, DelPlaces, Own
  <2>3. CASE CheckedRead(p)
    BY <2>3 DEF CheckedRead, Inv, TypeInv, Places, DelPlaces, Own
  <2> QED BY <2>1, <2>2, <2>3
<1>3. AtPlace(p)' /\ pc'[p] \in {"delShards", "open", "list"}
  <2> USE DEF Goto, kept, local
  <2>1. CASE DeleteBucket(p)
    BY <1>1, <2>1 DEF DeleteBucket, Handling, Inv, TypeInv, AtPlace, PutPlaces, DelPlaces
  <2>2. CASE DeleteObject(p)
    BY <1>1, <2>2 DEF DeleteObject, Handling, Inv, TypeInv, AtPlace, PutPlaces, DelPlaces
  <2>3. CASE CheckedRead(p)
    BY <1>1, <2>3 DEF CheckedRead, Handling, Inv, TypeInv, AtPlace, PutPlaces, DelPlaces
  <2> QED BY <2>1, <2>2, <2>3
<1>4. DelTarget(p)'
  <2> USE BusyFacts DEF Goto, kept, local, Handling, Inv, TypeInv, DelTarget, DelPlaces, ObjectOps
  <2>1. CASE DeleteBucket(p)
    BY <1>1, <2>1 DEF DeleteBucket
  <2>2. CASE DeleteObject(p)
    BY <1>1, <2>2 DEF DeleteObject
  <2>3. CASE CheckedRead(p)
    BY <1>1, <2>3 DEF CheckedRead
  <2> QED BY <2>1, <2>2, <2>3
<1> QED BY <1>1, <1>2, <1>3, <1>4, MoveStep

-----------------------------------------------------------------------------
(* The walk of GetObject, and POST complete.                               *)

\* The walk for the bucket's marker, and for the object of GET and HEAD.
LEMMA WalkStep ==
  ASSUME Inv, NEW p \in Clients, Check(p) \/ Open(p)
  PROVE  Inv'
<1>1. /\ Busy(p) /\ Followed(p) /\ req[p] \in Requests /\ pc[p] \in {"check", "open"}
      /\ AtPlace(p) /\ Creating(p) /\ Fresh(p) /\ DOMAIN pc = Clients
  BY DEF Check, Open, Busy, Inv, ClientInv, AtPlace, TypeInv
<1>2. UNCHANGED <<shards, markers, req, ever, always, asked, reserved, data, todo, found, shaky>>
  BY DEF Check, Open, ListObjectShards, kept, local
<1>3. PICK id \in Ids, l \in {"checked", "opened"} :
        /\ About(req[p], id)
        /\ l = "checked" => pc[p] = "check" /\ id = BucketId(Bucket(req[p]))
        /\ l = "opened" => pc[p] = "open" /\ id = ObjectId(req[p])
        /\ \/ /\ tgt' = [tgt EXCEPT ![p] = id] /\ idx' = [idx EXCEPT ![p] = totalStripes(id)]
              /\ Goto(p, l)
           \/ Failed(p)
  <2>1. CASE Check(p)
    <3>1. BucketId(Bucket(req[p])) \in Ids /\ About(req[p], BucketId(Bucket(req[p])))
      BY <1>1, IdFacts DEF About
    <3> QED BY <2>1, <3>1 DEF Check, ListObjectShards
  <2>2. CASE Open(p)
    <3>0. pc[p] = "open" /\ req[p].op \in {"GetObject", "HeadObject"}
      BY <1>1, <2>2 DEF Open, AtPlace
    <3>1. ObjectId(req[p]) \in Ids /\ About(req[p], ObjectId(req[p]))
      BY <1>1, <3>0, IdFacts DEF About, ObjectOps
    <3> QED BY <2>2, <3>1 DEF Open, ListObjectShards
  <2> QED BY <2>1, <2>2
<1>4. CASE Failed(p)
  <2>1. TypeInv' /\ Own(p) /\ pc'[p] = "done" /\ resp'[p] = InternalError
    BY <1>2, <1>4 DEF Inv, TypeInv, Own, Failed, Reply, Places
  <2>2. Harmless(resp'[p]) /\ resp'[p].status \in {403, 500}
    BY <2>1 DEF Harmless, InternalError, Err
  <2> QED BY <1>1, <2>1, <2>2, HarmlessReply
<1>5. CASE /\ tgt' = [tgt EXCEPT ![p] = id] /\ idx' = [idx EXCEPT ![p] = totalStripes(id)]
           /\ Goto(p, l)
  <2>1. totalStripes(id) \in Nat
    BY <1>3, LenProperties DEF totalStripes, Inv, TypeInv
  <2>2. TypeInv' /\ Own(p)
    BY <1>2, <1>5, <2>1 DEF Inv, TypeInv, Own, Goto, Places
  <2>3. pc'[p] = l /\ tgt'[p] = id /\ idx'[p] = totalStripes(id)
    BY <1>5 DEF Inv, TypeInv, Goto
  <2>4. Counted(p)'
    BY <1>1, <1>2, <1>3, <2>3, CountStep
  <2>5. AtPlace(p)' /\ Followed(p)'
    BY <1>1, <1>2, <1>3, <2>3 DEF AtPlace, Followed, Busy, Facts, PutPlaces, DelPlaces
  <2>6. Creating(p)' /\ Fresh(p)'
    BY <1>1, <1>2, <1>3, <2>3 DEF Creating, Fresh
  <2>7. /\ PutTarget(p)' /\ DelTarget(p)' /\ Copying(p)' /\ Listing(p)' /\ AbsentAnswer(p)'
        /\ ReadAnswer(p)' /\ ListAnswer(p)'
    BY <1>3, <2>3 DEF PutTarget, DelTarget, PutPlaces, DelPlaces, Copying, Listing, AbsentAnswer,
                      ReadAnswer, ListAnswer, Answered
  <2> QED BY <2>2, <2>4, <2>5, <2>6, <2>7, OwnStep DEF ClientInv
<1> QED BY <1>3, <1>4, <1>5

\* POST complete goes on to write an object of any bucket; if that is the
\* reserved one, the space of buckets is no longer what it was.
LEMMA CompleteStep ==
  ASSUME Inv, NEW p \in Clients, Complete(p)
  PROVE  Inv'
<1>1. /\ Busy(p) /\ pc[p] = "complete" /\ req[p].op = "Complete" /\ Followed(p)
      /\ req[p] \in Requests /\ req[p].data # None
  BY RequestsAssumption DEF Complete, Busy, Inv, ClientInv, AtPlace
<1>2. UNCHANGED <<shards, markers, req, ever, always, asked, todo, found, shaky>>
  BY DEF Complete
<1>3. \/ /\ StartPut(p, ObjectId(req[p]), req[p].data) /\ Goto(p, "put")
         /\ reserved' = (reserved \/ Bucket(req[p]) = "__bucket__")
      \/ \E e \in {Err(400, "InvalidArgument"), InternalError} :
           Reply(p, e) /\ UNCHANGED <<tgt, data, idx, reserved>>
  BY DEF Complete
<1>4. ASSUME NEW e \in {Err(400, "InvalidArgument"), InternalError},
             Reply(p, e), UNCHANGED <<tgt, data, idx, reserved>>
      PROVE  Inv'
  <2>1. TypeInv' /\ Own(p) /\ pc'[p] = "done" /\ resp'[p] = e
    BY <1>2, <1>4 DEF Inv, TypeInv, Own, Reply, Places
  <2>2. Harmless(e)
    BY <1>4 DEF Harmless, InternalError, Err
  <2> QED BY <1>1, <2>1, <2>2, HarmlessReply
<1>5. CASE /\ StartPut(p, ObjectId(req[p]), req[p].data) /\ Goto(p, "put")
           /\ reserved' = (reserved \/ Bucket(req[p]) = "__bucket__")
  <2>0. req[p].data \in Seq(Stripe)
    BY <1>1, BodyIsStripes
  <2>1. TypeInv'
    <3>1. data' = [data EXCEPT ![p] = req[p].data] /\ data' \in [Clients -> Seq(Stripe)]
      BY <1>5, <2>0 DEF StartPut, Inv, TypeInv
    <3>2. /\ pc' = [pc EXCEPT ![p] = "put"] /\ idx' = [idx EXCEPT ![p] = 0] /\ UNCHANGED resp
          /\ tgt' = [tgt EXCEPT ![p] = ObjectId(req[p])]
      BY <1>5 DEF StartPut, Goto
    <3> QED BY <1>2, <3>1, <3>2 DEF Inv, TypeInv, Places, PutPlaces
  <2>2. Own(p)
    BY <1>2, <1>5 DEF Own, Inv, TypeInv, StartPut, Goto
  <2>3. /\ pc'[p] = "put" /\ tgt'[p] = ObjectId(req[p])
        /\ Bucket(req[p]) = "__bucket__" => reserved'
    BY <1>5 DEF Inv, TypeInv, StartPut, Goto
  <2>4. AtPlace(p)' /\ Followed(p)'
    BY <1>1, <1>2, <2>3 DEF AtPlace, Followed, Busy, Facts, PutPlaces, DelPlaces
  <2>5. PutTarget(p)'
    BY <1>2, <2>3 DEF PutTarget, Bucket, ObjectId, Object
  <2>6. /\ Creating(p)' /\ Counted(p)' /\ DelTarget(p)' /\ Copying(p)' /\ Fresh(p)'
        /\ Listing(p)' /\ AbsentAnswer(p)' /\ ReadAnswer(p)' /\ ListAnswer(p)'
    BY <2>3 DEF Creating, Counted, Walked, DelTarget, DelPlaces, Copying, Fresh, Listing,
                AbsentAnswer, ReadAnswer, ListAnswer, Answered
  <2> QED BY <2>1, <2>2, <2>4, <2>5, <2>6, OwnStep DEF ClientInv
<1> QED BY <1>3, <1>4, <1>5

-----------------------------------------------------------------------------
(* GET and HEAD.                                                           *)

\* "No such key" is said when GetObject has found nothing; a GET that goes on
\* knows how many stripes there are.
LEMMA OpenedStep ==
  ASSUME Inv, NEW p \in Clients, Opened(p)
  PROVE  Inv'
<1> DEFINE id == ObjectId(req[p])
<1>1. /\ pc[p] = "opened" /\ Busy(p) /\ Followed(p) /\ req[p] \in Requests /\ Counted(p)
      /\ req[p].op \in {"GetObject", "HeadObject"}
  BY DEF Opened, Busy, Inv, ClientInv, AtPlace
<1>0. /\ tgt[p] = id /\ pc[p] \in Walked
      /\ \A f \in always[p] : f[1] = id => Len(f[2]) = idx[p]
  BY <1>1 DEF Counted, Walked
<1>2. UNCHANGED <<shards, markers, req, ever, always, asked, reserved, data, todo, found, shaky, tgt, idx>>
  BY DEF Opened, kept, local
<1>3. PICK result \in GetObject(p) :
        CASE result = "err" -> Reply(p, InternalError)
          [] result = "ErrObjectNotFound" -> Reply(p, Err(404, "NoSuchKey"))
          [] result = "ok" /\ Handling(p, "HeadObject") -> Reply(p, Ok(200, SizeFound(p)))
          [] OTHER -> /\ pc' = [pc EXCEPT ![p] = "copy"]
                      /\ resp' = [resp EXCEPT ![p] = Ok(Success(req[p]), << >>)]
  BY DEF Opened
<1>4. /\ result \in {"ok", "err", "ErrObjectNotFound"}
      /\ result = "ErrObjectNotFound" => idx[p] = 0
  BY GetFacts
<1>5. ASSUME NEW r, Reply(p, r)
      PROVE  TypeInv' /\ Own(p) /\ pc'[p] = "done" /\ resp'[p] = r
  BY <1>2, <1>5 DEF Inv, TypeInv, Own, Reply, Places
<1>6. CASE result = "err"
  <2>1. Reply(p, InternalError)
    BY <1>3, <1>6
  <2>2. TypeInv' /\ Own(p) /\ pc'[p] = "done" /\ resp'[p] = InternalError
    BY <1>5, <2>1
  <2>3. Harmless(resp'[p]) /\ resp'[p].status \in {403, 500}
    BY <2>2 DEF Harmless, InternalError, Err
  <2> QED BY <1>1, <2>2, <2>3, HarmlessReply
<1>7. CASE result = "ErrObjectNotFound"
  <2>1. Reply(p, Err(404, "NoSuchKey"))
    BY <1>3, <1>7
  <2>2. TypeInv' /\ Own(p) /\ pc'[p] = "done" /\ resp'[p] = Err(404, "NoSuchKey")
    BY <1>5, <2>1
  <2>3. resp'[p].code = "NoSuchKey" /\ resp'[p].status = 404
    BY <2>2 DEF Err
  <2>4. SeenAbsent(p, id)
    BY <1>0, <1>3, <1>7, NothingFound
  <2>5. AbsentAnswer(p)'
    <3>1. SeenAbsent(p, ObjectId(req[p]))'
      BY <1>2, <2>4 DEF SeenAbsent, ObjectId, Object, Bucket
    <3> QED BY <2>3, <3>1 DEF AbsentAnswer
  <2>6. ReadAnswer(p)'
    <3>1. ASSUME NEW f \in always[p], f[1] = id PROVE f[2] = << >>
      <4>1. Len(f[2]) = 0
        BY <1>0, <1>4, <1>7, <3>1
      <4>2. f[2] \in Seq(Stripe)
        BY <1>1, <3>1, StillThere DEF Inv, TypeInv
      <4> QED BY <4>1, <4>2, EmptySeq
    <3> QED BY <1>2, <3>1 DEF ReadAnswer
  <2>7. ListAnswer(p)'
    BY <2>3 DEF ListAnswer
  <2> QED BY <1>1, <2>2, <2>5, <2>6, <2>7, ReplyStep
<1>8. CASE result = "ok" /\ req[p].op = "HeadObject"
  <2>1. Reply(p, Ok(200, SizeFound(p)))
    BY <1>1, <1>3, <1>8 DEF Handling
  <2>2. TypeInv' /\ Own(p) /\ pc'[p] = "done" /\ resp'[p] = Ok(200, SizeFound(p))
    BY <1>5, <2>1
  <2>3. Ok(200, SizeFound(p)).code = ""
    BY DEF Ok
  <2>4. resp'[p].code = "" /\ req'[p].op = "HeadObject"
    BY <1>2, <1>8, <2>2, <2>3
  <2>5. AbsentAnswer(p)' /\ ReadAnswer(p)' /\ ListAnswer(p)'
    BY <2>4 DEF AbsentAnswer, ReadAnswer, ListAnswer, Answered
  <2> QED BY <1>1, <2>2, <2>5, ReplyStep
<1>9. CASE result = "ok" /\ req[p].op = "GetObject"
  <2>1. /\ pc' = [pc EXCEPT ![p] = "copy"]
        /\ resp' = [resp EXCEPT ![p] = Ok(Success(req[p]), << >>)]
    BY <1>1, <1>3, <1>9 DEF Handling
  <2>3. TypeInv' /\ Own(p)
    BY <1>2, <2>1 DEF Inv, TypeInv, Own, Places
  <2>4. pc'[p] = "copy" /\ resp'[p] = Ok(Success(req[p]), << >>)
    BY <1>2, <2>1 DEF Inv, TypeInv
  <2>5. Ok(Success(req[p]), << >>).status = Success(req[p]) /\ Ok(Success(req[p]), << >>).code = ""
    BY DEF Ok
  <2>7. Copying(p)'
    BY <1>0, <1>2, <2>4, <2>5 DEF Copying
  <2>8. AtPlace(p)' /\ Followed(p)'
    BY <1>1, <1>2, <1>9, <2>4 DEF AtPlace, Followed, Busy, Facts, PutPlaces, DelPlaces
  <2>9. /\ Creating(p)' /\ Counted(p)' /\ PutTarget(p)' /\ DelTarget(p)' /\ Fresh(p)'
        /\ Listing(p)' /\ AbsentAnswer(p)' /\ ReadAnswer(p)' /\ ListAnswer(p)'
    BY <2>4 DEF Creating, Counted, Walked, PutTarget, DelTarget, PutPlaces, DelPlaces, Fresh,
                Listing, AbsentAnswer, ReadAnswer, ListAnswer, Answered
  <2> QED BY <2>3, <2>7, <2>8, <2>9, OwnStep DEF ClientInv
<1> QED BY <1>1, <1>4, <1>6, <1>7, <1>8, <1>9

\* Nothing stops the copy of readable stripes before the end.
LEMMA WholeRead ==
  ASSUME NEW id, NEW s \in Seq(Stripe), s = shards[id], "read" \notin Failures,
         Bad \cap {s[i] : i \in DOMAIN s} = {}, NEW r \in ReadAll(id, Len(s))
  PROVE  r.bytes = s
<1>1. Len(s) \in Nat /\ DOMAIN s = 1 .. Len(s)
  BY LenProperties
<1>2. PICK m \in 0 .. Len(s) :
        /\ r = [bytes |-> SubSeq(s, 1, m), ok |-> m = Len(s)]
        /\ m = Len(s) \/ s[m + 1] \in Bad
  BY <1>1 DEF ReadAll
<1>3. m = Len(s)
  <2>1. ASSUME m # Len(s) PROVE FALSE
    <3>1. m + 1 \in DOMAIN s
      BY <1>1, <2>1
    <3> QED BY <1>2, <2>1, <3>1
  <2> QED BY <2>1
<1>4. SubSeq(s, 1, Len(s)) = s
  OBVIOUS
<1> QED BY <1>2, <1>3, <1>4

\* The copy of an object nobody touches reaches its end.
LEMMA CopyStep ==
  ASSUME Inv, NEW p \in Clients, Copy(p)
  PROVE  Inv'
<1>1. /\ pc[p] = "copy" /\ Busy(p) /\ Copying(p) /\ req[p] \in Requests
      /\ req[p].op = "GetObject" /\ ObjectId(req[p]) \in Ids
  BY IdFacts DEF Copy, Busy, Inv, ClientInv, AtPlace, ObjectOps
<1>2. /\ UNCHANGED <<shards, markers, req, ever, always, asked, reserved, data, todo, found, shaky>>
      /\ UNCHANGED <<tgt, idx>>
  BY DEF Copy, kept, local
<1>3. PICK r \in ReadAll(tgt[p], idx[p]) : Reply(p, Ok(resp[p].status, r.bytes))
  BY DEF Copy
<1>4. TypeInv' /\ Own(p) /\ pc'[p] = "done" /\ resp'[p] = Ok(resp[p].status, r.bytes)
  BY <1>2, <1>3 DEF Inv, TypeInv, Own, Reply, Places
<1>5. /\ Ok(resp[p].status, r.bytes).code = "" /\ Ok(resp[p].status, r.bytes).body = r.bytes
      /\ Ok(resp[p].status, r.bytes).status = Success(req[p])
  BY <1>1 DEF Ok, Copying
<1>6. resp'[p].code = "" /\ resp'[p].body = r.bytes /\ resp'[p].status = Success(req[p])
  BY <1>4, <1>5
<1>7. AbsentAnswer(p)' /\ ListAnswer(p)'
  BY <1>1, <1>2, <1>6 DEF AbsentAnswer, ListAnswer, Answered
<1>8. ReadAnswer(p)'
  <2>1. ASSUME "read" \notin Failures, NEW f \in always[p], f[1] = ObjectId(req[p]),
               Bad \cap {f[2][i] : i \in DOMAIN f[2]} = {}
        PROVE  r.bytes = f[2]
    <3>1. f[2] = shards[f[1]] /\ tgt[p] = f[1] /\ idx[p] = Len(f[2])
      BY <1>1, <2>1, StillThere DEF Copying
    <3>2. f[2] \in Seq(Stripe)
      BY <1>1, <2>1, <3>1 DEF Inv, TypeInv
    <3> QED BY <2>1, <3>1, <3>2, WholeRead
  <2> QED BY <1>2, <1>6, <2>1 DEF ReadAnswer, Success
<1> QED BY <1>1, <1>4, <1>7, <1>8, ReplyStep

-----------------------------------------------------------------------------
(* ListObjectsV2.                                                          *)

\* The IDs the listing starts with include all that stay on disk.
LEMMA ListStep ==
  ASSUME Inv, NEW p \in Clients, List(p)
  PROVE  Inv'
<1>1. /\ pc[p] = "list" /\ Busy(p) /\ Followed(p) /\ req[p] \in Requests /\ found[p] = {}
      /\ req[p].op = "ListObjectsV2"
  BY DEF List, Busy, Inv, ClientInv, AtPlace, Fresh
<1>2. UNCHANGED <<shards, markers, req, ever, always, asked, reserved, data, found, shaky, tgt, idx>>
  BY DEF List
<1>3. \/ Reply(p, InternalError) /\ UNCHANGED todo
      \/ /\ todo' = [todo EXCEPT ![p] = {id \in Ids : shards[id] # << >> /\ InListing(req[p], id)}
                                        \X (1 .. ListTries)]
         /\ Goto(p, "listKeys")
  BY DEF List
<1>4. CASE Reply(p, InternalError) /\ UNCHANGED todo
  <2>1. TypeInv' /\ Own(p) /\ pc'[p] = "done" /\ resp'[p] = InternalError
    BY <1>2, <1>4 DEF Inv, TypeInv, Own, Reply, Places
  <2>2. Harmless(resp'[p]) /\ resp'[p].status \in {403, 500}
    BY <2>1 DEF Harmless, InternalError, Err
  <2> QED BY <1>1, <2>1, <2>2, HarmlessReply
<1>5. CASE /\ todo' = [todo EXCEPT ![p] = {id \in Ids : shards[id] # << >> /\ InListing(req[p], id)}
                                          \X (1 .. ListTries)]
           /\ Goto(p, "listKeys")
  <2>1. TypeInv' /\ Own(p)
    BY <1>2, <1>5 DEF Inv, TypeInv, Own, Goto, Places
  <2>2. /\ pc'[p] = "listKeys"
        /\ todo'[p] = {id \in Ids : shards[id] # << >> /\ InListing(req[p], id)} \X (1 .. ListTries)
    BY <1>5 DEF Goto, Inv, TypeInv
  <2>3. ASSUME NEW f \in always[p], Due(req[p], f)
        PROVE  <<f[1], 1>> \in todo'[p]
    <3>1. f[1] \in Ids /\ shards[f[1]] # << >>
      BY <1>1, <2>3, StillThere DEF Due
    <3>2. 1 \in 1 .. ListTries
      BY S3Assumption
    <3> QED BY <2>2, <2>3, <3>1, <3>2 DEF Due
  <2>4. todo'[p] \subseteq {id \in Ids : InListing(req[p], id)} \X (1 .. ListTries)
    BY <2>2
  <2>5. Listing(p)'
    BY <1>1, <1>2, <2>2, <2>3, <2>4 DEF Listing
  <2>6. AtPlace(p)' /\ Followed(p)'
    BY <1>1, <1>2, <2>2 DEF AtPlace, Followed, Busy, Facts, PutPlaces, DelPlaces
  <2>7. /\ Creating(p)' /\ Counted(p)' /\ PutTarget(p)' /\ DelTarget(p)' /\ Fresh(p)'
        /\ Copying(p)' /\ AbsentAnswer(p)' /\ ReadAnswer(p)' /\ ListAnswer(p)'
    BY <2>2 DEF Creating, Counted, Walked, PutTarget, DelTarget, PutPlaces, DelPlaces, Fresh, Copying, AbsentAnswer, ReadAnswer,
                ListAnswer, Answered
  <2> QED BY <2>1, <2>5, <2>6, <2>7, OwnStep DEF ClientInv
<1> QED BY <1>3, <1>4, <1>5

\* A key is dropped from the list when its walk begins, and the walk had a
\* reason to fail if it does.
LEMMA ListKeyStep ==
  ASSUME Inv, NEW p \in Clients, ListKey(p)
  PROVE  Inv'
<1>1. /\ pc[p] = "listKeys" /\ Busy(p) /\ Followed(p) /\ req[p] \in Requests /\ Listing(p)
      /\ req[p].op = "ListObjectsV2"
  BY DEF ListKey, Busy, Inv, ClientInv, AtPlace
<1>2. UNCHANGED <<shards, markers, req, ever, always, asked, reserved, data, found>>
  BY DEF ListKey, ListObjectShards
<1>3. PICK k \in todo[p] :
        /\ ListObjectShards(p, k[1], "listSize", UNCHANGED <<pc, resp, tgt, idx>>)
        /\ todo' = [todo EXCEPT ![p] = @ \ {k}]
        /\ shaky' = IF WalkFails \/ WalkMayFail(p) THEN [shaky EXCEPT ![p] = @ \cup {k[1]}]
                    ELSE shaky
  BY DEF ListKey
<1>4. k[1] \in Ids /\ About(req[p], k[1]) /\ totalStripes(k[1]) \in Nat
  <2>1. k[1] \in Ids /\ About(req[p], k[1])
    BY <1>1 DEF Listing, InListing, About
  <2> QED BY <2>1, LenProperties DEF totalStripes, Inv, TypeInv
<1>5. \/ /\ tgt' = [tgt EXCEPT ![p] = k[1]] /\ idx' = [idx EXCEPT ![p] = totalStripes(k[1])]
         /\ pc' = [pc EXCEPT ![p] = "listSize"] /\ UNCHANGED resp
      \/ (WalkFails \/ WalkMayFail(p)) /\ UNCHANGED <<pc, resp, tgt, idx>>
  BY <1>3 DEF ListObjectShards, Goto
<1>6. TypeInv' /\ Own(p)
  <2>1. DOMAIN shaky' = Clients /\ \A q \in Clients \ {p} : shaky'[q] = shaky[q]
    BY <1>3 DEF Inv, TypeInv
  <2>2. DOMAIN todo' = Clients /\ \A q \in Clients \ {p} : todo'[q] = todo[q]
    BY <1>3 DEF Inv, TypeInv
  <2>3. /\ pc' \in [Clients -> Places] /\ idx' \in [Clients -> Nat] /\ DOMAIN tgt' = Clients
        /\ UNCHANGED resp
        /\ \A q \in Clients \ {p} : pc'[q] = pc[q] /\ tgt'[q] = tgt[q] /\ idx'[q] = idx[q]
    <3>1. /\ pc \in [Clients -> Places] /\ idx \in [Clients -> Nat] /\ DOMAIN tgt = Clients
          /\ "listSize" \in Places
      BY DEF Inv, TypeInv, Places
    <3>2. CASE UNCHANGED <<pc, resp, tgt, idx>>
      BY <3>1, <3>2
    <3>3. CASE /\ tgt' = [tgt EXCEPT ![p] = k[1]]
               /\ idx' = [idx EXCEPT ![p] = totalStripes(k[1])]
               /\ pc' = [pc EXCEPT ![p] = "listSize"] /\ UNCHANGED resp
      BY <3>1, <3>3, <1>4
    <3> QED BY <3>2, <3>3, <1>5
  <2> QED BY <1>2, <2>1, <2>2, <2>3 DEF Inv, TypeInv, Own
<1>7. /\ todo'[p] = todo[p] \ {k} /\ shaky[p] \subseteq shaky'[p]
      /\ WalkFails \/ WalkMayFail(p) => k[1] \in shaky'[p]
      /\ \/ pc'[p] = "listSize" /\ tgt'[p] = k[1] /\ idx'[p] = totalStripes(k[1])
         \/ pc'[p] = "listKeys" /\ (WalkFails \/ WalkMayFail(p))
  BY <1>1, <1>3, <1>5 DEF Inv, TypeInv
<1>8. Listing(p)'
  <2>1. todo'[p] \subseteq {id \in Ids : InListing(req[p], id)} \X (1 .. ListTries)
    BY <1>1, <1>7 DEF Listing
  <2>2. \A x \in found'[p] : SizeSeen(p, x)'
    BY <1>1, <1>2 DEF Listing, SizeSeen
  <2>3. pc'[p] = "listSize" /\ "read" \in Failures => tgt'[p] \in shaky'[p]
    BY <1>7 DEF WalkMayFail
  <2>4. ASSUME NEW f \in always[p], Due(req[p], f)
        PROVE  \/ \E x \in found[p] : x[1] = f[1]
               \/ <<f[1], 1>> \in todo'[p] \/ f[1] \in shaky'[p]
               \/ pc'[p] = "listSize" /\ tgt'[p] = f[1]
    <3>1. (\E x \in found[p] : x[1] = f[1]) \/ <<f[1], 1>> \in todo[p] \/ f[1] \in shaky[p]
      BY <1>1, <2>4 DEF Listing, Named
    <3>2. CASE k # <<f[1], 1>>
      BY <1>7, <3>1, <3>2
    <3>3. CASE k = <<f[1], 1>>
      <4>1. k[1] = f[1]
        BY <3>3
      <4> QED BY <1>7, <4>1
    <3> QED BY <3>2, <3>3
  <2> QED BY <1>2, <2>1, <2>2, <2>3, <2>4 DEF Listing, Named, Due, InListing, Bucket
<1>9. Counted(p)'
  <2>1. CASE pc'[p] = "listSize" /\ tgt'[p] = k[1] /\ idx'[p] = totalStripes(k[1])
    BY <1>1, <1>2, <1>4, <2>1, CountStep
  <2>2. CASE pc'[p] = "listKeys"
    BY <2>2 DEF Counted, Walked
  <2> QED BY <1>7, <2>1, <2>2
<1>10. AtPlace(p)' /\ Followed(p)'
  BY <1>1, <1>2, <1>7 DEF AtPlace, Followed, Busy, Facts, PutPlaces, DelPlaces
<1>11. /\ Creating(p)' /\ PutTarget(p)' /\ DelTarget(p)' /\ Fresh(p)' /\ Copying(p)'
       /\ AbsentAnswer(p)' /\ ReadAnswer(p)' /\ ListAnswer(p)'
  BY <1>7 DEF Creating, PutTarget, DelTarget, PutPlaces, DelPlaces, Fresh, Copying, AbsentAnswer,
              ReadAnswer, ListAnswer, Answered
<1> QED BY <1>6, <1>8, <1>9, <1>10, <1>11, OwnStep DEF ClientInv

\* The size is one that the object had, and an object that is there all the
\* time, with a last stripe to read the size from, is named.
LEMMA ListSizeStep ==
  ASSUME Inv, NEW p \in Clients, ListSize(p)
  PROVE  Inv'
<1>1. /\ pc[p] = "listSize" /\ Busy(p) /\ Followed(p) /\ req[p] \in Requests /\ Listing(p)
      /\ req[p].op = "ListObjectsV2" /\ Counted(p)
  BY DEF ListSize, Busy, Inv, ClientInv, AtPlace
<1>2. /\ UNCHANGED <<shards, markers, req, ever, always, asked, reserved, data, todo, shaky, tgt, idx>>
      /\ pc' = [pc EXCEPT ![p] = "listKeys"] /\ UNCHANGED resp
  BY DEF ListSize, Goto
<1>3. PICK result \in GetObject(p) :
        found' = [found EXCEPT ![p] =
                    IF result = "ok" /\ ~Named(p, tgt[p]) THEN @ \cup {<<tgt[p], SizeFound(p)>>}
                    ELSE @]
  BY DEF ListSize
<1>4. TypeInv' /\ Own(p)
  BY <1>2, <1>3 DEF Inv, TypeInv, Own, Places
<1>5. /\ pc'[p] = "listKeys"
      /\ found'[p] = IF result = "ok" /\ ~Named(p, tgt[p]) THEN found[p] \cup {<<tgt[p], SizeFound(p)>>}
                     ELSE found[p]
  BY <1>2, <1>3 DEF Inv, TypeInv
<1>6. SizeSeen(p, <<tgt[p], SizeFound(p)>>)
  <2>1. tgt[p] \in Ids /\ About(req[p], tgt[p])
    BY <1>1 DEF Counted, Walked
  <2>2. CASE idx[p] = 0
    <3>1. <<tgt[p], shards[tgt[p]], markers[tgt[p]]>> \in ever[p]
      BY <1>1, <2>1, SeenNow
    <3>2. \E f \in ever[p] : f[1] = tgt[p] /\ markers[tgt[p]] \in {Len(f[2]), f[3]}
      BY <3>1
    <3> QED BY <2>2, <3>2 DEF SizeSeen, SizeFound
  <2>3. CASE idx[p] # 0
    <3>1. \E f \in ever[p] : f[1] = tgt[p] /\ Len(f[2]) = idx[p]
      BY <1>1 DEF Counted, Walked
    <3> QED BY <2>3, <3>1 DEF SizeSeen, SizeFound
  <2> QED BY <2>2, <2>3
<1>7. Listing(p)'
  <2>1. \A x \in found'[p] : SizeSeen(p, x)
    BY <1>1, <1>5, <1>6 DEF Listing
  <2>2. \A x \in found'[p] : SizeSeen(p, x)'
    BY <1>2, <2>1 DEF SizeSeen
  <2>3. ASSUME NEW f \in always[p], Due(req[p], f)
        PROVE  (\E x \in found'[p] : x[1] = f[1]) \/ <<f[1], 1>> \in todo[p] \/ f[1] \in shaky[p]
    <3>1. \/ \E x \in found[p] : x[1] = f[1]
          \/ <<f[1], 1>> \in todo[p] \/ f[1] \in shaky[p] \/ tgt[p] = f[1]
      BY <1>1, <2>3 DEF Listing, Named
    <3>2. CASE \E x \in found[p] : x[1] = f[1]
      BY <1>5, <3>2
    <3>3. CASE tgt[p] = f[1] /\ f[1] \notin shaky[p]
      <4>1. "read" \notin Failures
        BY <1>1, <3>3 DEF Listing
      <4>2. f[2] = shards[tgt[p]] /\ f[2] \in Seq(Stripe) /\ idx[p] = Len(f[2])
        <5>1. f[1] \in Ids /\ f[2] = shards[f[1]]
          BY <1>1, StillThere
        <5>2. Len(f[2]) = idx[p]
          BY <1>1, <3>3 DEF Counted, Walked
        <5> QED BY <3>3, <5>1, <5>2 DEF Inv, TypeInv
      <4>3. f[2] # << >> /\ f[2][idx[p]] \notin Bad /\ idx[p] # 0 /\ Len(f[2]) \in Nat
        BY <2>3, <4>2, EmptySeq, LenProperties DEF Due
      <4>4. result = "ok"
        BY <4>1, <4>2, <4>3 DEF GetObject
      <4>5. CASE Named(p, tgt[p])
        BY <1>5, <3>3, <4>5 DEF Named
      <4>6. CASE ~Named(p, tgt[p])
        <5>1. <<tgt[p], SizeFound(p)>> \in found'[p]
          BY <1>5, <4>4, <4>6
        <5> QED BY <3>3, <5>1
      <4> QED BY <4>5, <4>6
    <3> QED BY <3>1, <3>2, <3>3
  <2>4. todo[p] \subseteq {id \in Ids : InListing(req[p], id)} \X (1 .. ListTries)
    BY <1>1 DEF Listing
  <2> QED BY <1>2, <1>5, <2>2, <2>3, <2>4 DEF Listing, Named, Due, InListing, Bucket
<1>8. AtPlace(p)' /\ Followed(p)'
  BY <1>1, <1>2, <1>5 DEF AtPlace, Followed, Busy, Facts, PutPlaces, DelPlaces
<1>9. /\ Creating(p)' /\ Counted(p)' /\ PutTarget(p)' /\ DelTarget(p)' /\ Fresh(p)' /\ Copying(p)'
      /\ AbsentAnswer(p)' /\ ReadAnswer(p)' /\ ListAnswer(p)'
  BY <1>5 DEF Creating, Counted, Walked, PutTarget, DelTarget, PutPlaces, DelPlaces, Fresh, Copying,
              AbsentAnswer, ReadAnswer, ListAnswer, Answered
<1> QED BY <1>4, <1>7, <1>8, <1>9, OwnStep DEF ClientInv

\* A page that is not truncated has all that was found.
LEMMA ListReplyStep ==
  ASSUME Inv, NEW p \in Clients, ListReply(p)
  PROVE  Inv'
<1>1. /\ pc[p] = "listKeys" /\ Busy(p) /\ req[p] \in Requests /\ Listing(p) /\ todo[p] = {}
      /\ req[p].op = "ListObjectsV2" /\ req[p].max \in Nat
  BY RequestsAssumption DEF ListReply, Busy, Inv, ClientInv, AtPlace
<1>2. UNCHANGED <<shards, markers, req, ever, always, asked, reserved, data, todo, found, shaky, tgt, idx>>
  BY DEF ListReply, kept, local
<1>3. PICK page \in SUBSET found[p] :
        /\ \/ page = found[p] /\ Cardinality(page) <= req[p].max
           \/ Cardinality(page) = req[p].max
        /\ Reply(p, Ok(200, [keys |-> page,
                             truncated |-> IsTruncated(Cardinality(page), req[p].max)]))
  BY DEF ListReply
<1> DEFINE body == [keys |-> page, truncated |-> IsTruncated(Cardinality(page), req[p].max)]
<1>4. TypeInv' /\ Own(p) /\ pc'[p] = "done" /\ resp'[p] = Ok(200, body)
  BY <1>2, <1>3 DEF Inv, TypeInv, Own, Reply, Places
<1>5. body.keys = page /\ (~body.truncated => page = found[p])
  <2>1. page = found[p] \/ IsTruncated(Cardinality(page), req[p].max)
    BY <1>1, <1>3 DEF IsTruncated
  <2>2. body.keys = page
    OBVIOUS
  <2>3. body.truncated = IsTruncated(Cardinality(page), req[p].max)
    BY Zenon
  <2> HIDE DEF body
  <2> QED BY <2>1, <2>2, <2>3, Zenon
<1> HIDE DEF body
<1>6. Ok(200, body).code = "" /\ Ok(200, body).body = body
  BY DEF Ok
<1>7. resp'[p].code = "" /\ resp'[p].body = body
  BY <1>4, <1>6
<1>8. AbsentAnswer(p)' /\ ReadAnswer(p)'
  BY <1>1, <1>2, <1>7 DEF AbsentAnswer, ReadAnswer, Answered
<1>9. ListAnswer(p)'
  <2>1. \A k \in page : SizeSeen(p, k)
    BY <1>1, <1>3 DEF Listing
  <2>2. \A k \in page : SizeSeen(p, k)'
    BY <1>2, <2>1 DEF SizeSeen
  <2>3. ASSUME ~body.truncated, NEW f \in always[p], Due(req[p], f), f[1] \notin shaky[p]
        PROVE  \E k \in page : k[1] = f[1]
    BY <1>1, <1>5, <2>3 DEF Listing, Named
  <2> QED BY <1>2, <1>5, <1>7, <2>2, <2>3 DEF ListAnswer, Due, InListing, Bucket
<1> QED BY <1>1, <1>4, <1>8, <1>9, ReplyStep

-----------------------------------------------------------------------------
(* A new request, and a restart.                                           *)

\* The ghosts begin with what is on disk; a rejected request is told nothing
\* of any bucket.
LEMMA SendStep ==
  ASSUME Inv, NEW p \in Clients, NEW r \in Requests, Send(p, r)
  PROVE  Inv'
<1>1. TypeInv'
  <2>1. pc' \in [Clients -> Places] /\ DOMAIN resp' = Clients
    BY DEF Send, Inv, TypeInv, Reply, Begin, Places
  <2>2. /\ DOMAIN tgt' = Clients /\ data' \in [Clients -> Seq(Stripe)]
        /\ idx' \in [Clients -> Nat] /\ req' \in [Clients -> Requests \cup {None}]
    BY EmptySeq DEF Send, Inv, TypeInv
  <2>3. /\ DOMAIN todo' = Clients /\ DOMAIN found' = Clients /\ DOMAIN shaky' = Clients
        /\ DOMAIN ever' = Clients /\ DOMAIN always' = Clients /\ UNCHANGED <<shards, markers>>
    BY DEF Send, Inv, TypeInv
  <2> QED BY <2>1, <2>2, <2>3 DEF Inv, TypeInv
<1>2. /\ asked \subseteq asked' /\ reserved' = reserved
      /\ r.op = "CreateBucket" /\ Bucket(r) \in ValidNames => Bucket(r) \in asked'
  BY DEF Send
<1>3. BucketSpace'
  BY <1>2 DEF Send, Inv, BucketSpace
<1>4. ASSUME NEW q \in Clients, q # p PROVE ClientInv(q)'
  <2>1. ClientInv(q) /\ Followed(q)
    BY DEF Inv, ClientInv
  <2>2. /\ pc'[q] = pc[q] /\ req'[q] = req[q] /\ resp'[q] = resp[q] /\ tgt'[q] = tgt[q]
        /\ idx'[q] = idx[q] /\ data'[q] = data[q] /\ todo'[q] = todo[q]
        /\ found'[q] = found[q] /\ shaky'[q] = shaky[q]
        /\ ever'[q] = ever[q] /\ always'[q] = always[q] /\ UNCHANGED <<shards, markers>>
    BY <1>4 DEF Send, Inv, TypeInv, Reply, Begin
  <2>3. Followed(q)'
    BY <2>1, <2>2 DEF Followed, Busy, Facts
  <2> QED BY <1>2, <2>1, <2>2, <2>3, ClientFrame
<1>5. ClientInv(p)'
  <2>1. /\ req'[p] = r /\ found'[p] = {} /\ ever'[p] = Facts(r) /\ always'[p] = Facts(r)
        /\ UNCHANGED <<shards, markers>>
    BY DEF Send, Inv, TypeInv
  <2>2. Followed(p)'
    BY <2>1 DEF Followed, Facts
  <2>3. Fresh(p)'
    BY <2>1 DEF Fresh
  <2>4. CASE pc'[p] = "done" /\ resp'[p].code \notin {"NoSuchBucket", "NoSuchKey"}
             /\ (resp'[p].status = 403 \/ (resp'[p].status = 400 /\ r.op = "CreateBucket"))
    <3>1. /\ AtPlace(p)' /\ Creating(p)' /\ Counted(p)' /\ PutTarget(p)' /\ DelTarget(p)'
          /\ Copying(p)' /\ Listing(p)'
      BY <2>1, <2>4 DEF AtPlace, Creating, Counted, Walked, PutTarget, DelTarget, Copying, Listing, PutPlaces, DelPlaces
    <3>2. AbsentAnswer(p)' /\ ReadAnswer(p)' /\ ListAnswer(p)'
      BY <2>1, <2>4 DEF AbsentAnswer, ReadAnswer, ListAnswer, Answered
    <3> QED BY <2>2, <2>3, <3>1, <3>2 DEF ClientInv
  <2>5. CASE /\ pc'[p] = IF r.op = "Complete" THEN "complete" ELSE "check"
             /\ r.op = "CreateBucket" => Bucket(r) \in ValidNames
    <3>1. /\ AtPlace(p)' /\ Counted(p)' /\ PutTarget(p)' /\ DelTarget(p)' /\ Copying(p)'
          /\ Listing(p)'
      BY <2>1, <2>5 DEF AtPlace, Counted, Walked, PutTarget, DelTarget, Copying, Listing, PutPlaces, DelPlaces
    <3>2. Creating(p)'
      BY <1>2, <2>1, <2>5 DEF Creating
    <3>3. AbsentAnswer(p)' /\ ReadAnswer(p)' /\ ListAnswer(p)'
      BY <2>5 DEF AbsentAnswer, ReadAnswer, ListAnswer, Answered
    <3> QED BY <2>2, <2>3, <3>1, <3>2, <3>3 DEF ClientInv
  <2>6. \/ \E c \in {"AccessDenied", "SignatureDoesNotMatch"} : Reply(p, Err(403, c))
        \/ r.op = "CreateBucket" /\ Reply(p, Err(400, "InvalidArgument"))
        \/ /\ Begin(p, IF r.op = "Complete" THEN "complete" ELSE "check")
           /\ r.op = "CreateBucket" => Bucket(r) \in ValidNames
    BY DEF Send, validateBucketName
  <2>7. ASSUME NEW c \in {"AccessDenied", "SignatureDoesNotMatch"}, Reply(p, Err(403, c))
        PROVE  pc'[p] = "done" /\ resp'[p].code = c /\ resp'[p].status = 403
    BY <2>7 DEF Reply, Inv, TypeInv, Err
  <2>8. ASSUME Reply(p, Err(400, "InvalidArgument"))
        PROVE  pc'[p] = "done" /\ resp'[p].code = "InvalidArgument" /\ resp'[p].status = 400
    BY <2>8 DEF Reply, Inv, TypeInv, Err
  <2>9. ASSUME NEW l, Begin(p, l) PROVE pc'[p] = l
    BY <2>9 DEF Begin, Inv, TypeInv
  <2>10. CASE \E c \in {"AccessDenied", "SignatureDoesNotMatch"} : Reply(p, Err(403, c))
    <3>1. PICK c \in {"AccessDenied", "SignatureDoesNotMatch"} : Reply(p, Err(403, c))
      BY <2>10
    <3>2. pc'[p] = "done" /\ resp'[p].code = c /\ resp'[p].status = 403
      BY <2>7, <3>1
    <3>3. resp'[p].code \notin {"NoSuchBucket", "NoSuchKey"}
      BY <3>1, <3>2
    <3>4. pc'[p] = "done" /\ resp'[p].code \notin {"NoSuchBucket", "NoSuchKey"}
          /\ (resp'[p].status = 403 \/ (resp'[p].status = 400 /\ r.op = "CreateBucket"))
      BY <3>2, <3>3
    <3> QED BY <2>4, <3>4
  <2>11. CASE r.op = "CreateBucket" /\ Reply(p, Err(400, "InvalidArgument"))
    BY <2>4, <2>8, <2>11
  <2>12. CASE /\ Begin(p, IF r.op = "Complete" THEN "complete" ELSE "check")
              /\ r.op = "CreateBucket" => Bucket(r) \in ValidNames
    BY <2>5, <2>9, <2>12
  <2> QED BY <2>6, <2>10, <2>11, <2>12
<1> QED BY <1>1, <1>3, <1>4, <1>5 DEF Inv

\* Nobody has an answer after a restart, and the disk is as it was.
LEMMA CrashStep ==
  ASSUME Inv, Crash
  PROVE  Inv'
<1> USE DEF Crash, Forget
<1>1. TypeInv'
  BY EmptySeq DEF Inv, TypeInv, Places
<1>2. BucketSpace'
  BY DEF Inv, BucketSpace
<1>3. \A p \in Clients : pc'[p] = "idle"
  OBVIOUS
<1> HIDE DEF Crash
<1>4. ASSUME NEW p \in Clients PROVE ClientInv(p)'
  BY <1>3 DEF ClientInv, AtPlace, Followed, Busy, Creating, Counted, Walked, PutTarget, DelTarget, Copying, Fresh, Listing,
         AbsentAnswer, ReadAnswer, ListAnswer, Answered, PutPlaces, DelPlaces
<1> QED BY <1>1, <1>2, <1>4 DEF Inv

-----------------------------------------------------------------------------
(* PutObject and DeleteObject on disk.                                     *)

\* A stripe put into a sequence of stripes.
LEMMA PatchedIsSeq ==
  ASSUME NEW s \in Seq(Stripe), NEW i \in Nat \ {0}, NEW x \in Stripe
  PROVE  Patched(s, i, x) \in Seq(Stripe)
<1> DEFINE n == IF i > Len(s) THEN i ELSE Len(s)
<1>1. Len(s) \in Nat /\ \A j \in 1 .. Len(s) : s[j] \in Stripe
  BY LenProperties, ElementOfSeq
<1>2. n \in Nat
  BY <1>1
<1>3. \A j \in 1 .. n : (IF j = i THEN x ELSE IF j <= Len(s) THEN s[j] ELSE Lost) \in Stripe
  BY <1>1 DEF Stripe, Bad
<1> HIDE DEF n
<1>4. [j \in 1 .. n |-> IF j = i THEN x ELSE IF j <= Len(s) THEN s[j] ELSE Lost] \in Seq(Stripe)
  BY <1>2, <1>3, IsASeq
<1> QED BY <1>4 DEF Patched, n

\* Some stripes of a sequence lost.
LEMMA LosingIsSeq ==
  ASSUME NEW s \in Seq(Stripe), NEW I
  PROVE  /\ [i \in DOMAIN s |-> IF i \in I THEN Lost ELSE s[i]] \in Seq(Stripe)
         /\ s = << >> => [i \in DOMAIN s |-> IF i \in I THEN Lost ELSE s[i]] = << >>
<1>1. Len(s) \in Nat /\ DOMAIN s = 1 .. Len(s) /\ \A j \in 1 .. Len(s) : s[j] \in Stripe
  BY LenProperties, ElementOfSeq
<1>2. \A i \in 1 .. Len(s) : (IF i \in I THEN Lost ELSE s[i]) \in Stripe
  BY <1>1 DEF Stripe, Bad
<1>3. [i \in 1 .. Len(s) |-> IF i \in I THEN Lost ELSE s[i]] \in Seq(Stripe)
  BY <1>1, <1>2, IsASeq
<1>4. s = << >> => [i \in DOMAIN s |-> IF i \in I THEN Lost ELSE s[i]] = << >>
  OBVIOUS
<1> QED BY <1>1, <1>3, <1>4

\* What a step of a PUT or a DELETE leaves alone, and how the ghosts follow.
Follow(p) ==
  /\ UNCHANGED <<req, todo, found, shaky, asked, reserved>>
  /\ ever' = [q \in Clients |-> IF Busy(q) THEN ever[q] \cup Facts(req[q])' ELSE ever[q]]
  /\ always' = [q \in Clients |-> IF Busy(q) THEN always[q] \cap Facts(req[q])' ELSE always[q]]
  /\ \A q \in Clients \ {p} :
       /\ pc'[q] = pc[q] /\ resp'[q] = resp[q] /\ tgt'[q] = tgt[q]
       /\ idx'[q] = idx[q] /\ data'[q] = data[q]

\* How a handler goes on after such a step.
GoesOn(p) ==
  \/ /\ pc[p] \in PutPlaces /\ pc'[p] \in PutPlaces /\ tgt'[p] = tgt[p] /\ data'[p] = data[p]
     /\ pc'[p] = "putStripe" => data[p] # << >> /\ idx'[p] < Len(data[p])
  \/ pc[p] \in DelPlaces /\ pc'[p] \in DelPlaces /\ tgt'[p] = tgt[p]
  \/ /\ pc[p] \in PutPlaces \cup DelPlaces /\ pc'[p] = "done"
     /\ resp'[p] \in {Ok(200, None), Ok(204, None), InternalError}

\* The ghosts have followed the step, so every client's invariant holds.
LEMMA FollowStep ==
  ASSUME Inv, NEW p \in Clients, Follow(p), GoesOn(p), TypeInv', BucketSpace'
  PROVE  Inv'
<1>1. ASSUME NEW q \in Clients, pc'[q] = pc[q] \/ Busy(q)
      PROVE  Followed(q)' /\ ever[q] \subseteq ever'[q] /\ always'[q] \subseteq always[q]
  BY <1>1 DEF Follow, Followed, Busy
<1>2. ASSUME NEW q \in Clients, q # p PROVE ClientInv(q)'
  <2>1. ClientInv(q)
    BY DEF Inv
  <2>2. Followed(q)' /\ ever[q] \subseteq ever'[q] /\ always'[q] \subseteq always[q]
    BY <1>1, <1>2 DEF Follow
  <2> QED BY <1>2, <2>1, <2>2, ClientFrame DEF Follow
<1>3. ClientInv(p)'
  <2>1. /\ Busy(p) /\ req'[p] = req[p] /\ req[p] \in Requests /\ asked' = asked /\ reserved' = reserved
        /\ PutTarget(p) /\ DelTarget(p)
        /\ pc[p] \in PutPlaces => req[p].op \in {"CreateBucket", "PutObject", "Complete"}
        /\ pc[p] \in DelPlaces => req[p].op \in {"DeleteBucket", "DeleteObject"}
    BY DEF GoesOn, PutPlaces, DelPlaces, Busy, Inv, ClientInv, AtPlace, Follow
  <2>2. Followed(p)'
    BY <1>1, <2>1
  <2>3. AtPlace(p)'
    BY <2>1 DEF AtPlace, GoesOn, PutPlaces, DelPlaces
  <2>4. Creating(p)' /\ Counted(p)' /\ Copying(p)' /\ Fresh(p)' /\ Listing(p)'
    BY DEF Creating, Counted, Walked, Copying, Fresh, Listing, GoesOn, PutPlaces, DelPlaces
  <2>5. DelTarget(p)'
    BY <2>1 DEF DelTarget, GoesOn, PutPlaces, DelPlaces
  <2>6. PutTarget(p)'
    <3>1. CASE pc'[p] \in PutPlaces
      <4>1. /\ pc[p] \in PutPlaces /\ tgt'[p] = tgt[p] /\ data'[p] = data[p]
            /\ pc'[p] = "putStripe" => data[p] # << >> /\ idx'[p] < Len(data[p])
        BY <3>1 DEF GoesOn, PutPlaces, DelPlaces
      <4> QED BY <2>1, <4>1 DEF PutTarget
    <3>2. CASE pc'[p] \notin PutPlaces
      BY <3>2 DEF PutTarget
    <3> QED BY <3>1, <3>2
  <2>7. pc'[p] = "done" => resp'[p].code \notin {"NoSuchBucket", "NoSuchKey"}
    <3>1. Ok(200, None).code = "" /\ Ok(204, None).code = "" /\ InternalError.code = "InternalError"
      BY DEF Ok, InternalError, Err
    <3> QED BY <3>1 DEF GoesOn, PutPlaces, DelPlaces
  <2>8. AbsentAnswer(p)' /\ ReadAnswer(p)' /\ ListAnswer(p)'
    BY <2>1, <2>7 DEF AbsentAnswer, ReadAnswer, ListAnswer, Answered, GoesOn
  <2> QED BY <2>2, <2>3, <2>4, <2>5, <2>6, <2>8 DEF ClientInv
<1> QED BY <1>2, <1>3 DEF Inv

\* Every step of PutObject keeps the disk typed and writes markers in the space
\* of bucket IDs for CreateBucket only.
LEMMA PutStep ==
  ASSUME Inv, NEW p \in Clients, Follow(p), UNCHANGED kept,
         \/ PutTear(p) \/ PutStripe(p) \/ MarkerCreate(p)
         \/ MarkerWrite(p, Written(p), Failed(p)) \/ PutFails(p, Failed(p))
  PROVE  TypeInv' /\ BucketSpace' /\ GoesOn(p)
<1>1. /\ TypeInv /\ PutTarget(p) /\ BucketSpace
      /\ pc[p] \in PutPlaces
      /\ pc[p] # "idle" => /\ BucketId(Bucket(req[p]))[2] = Bucket(req[p])
                           /\ ObjectId(req[p])[1] = Bucket(req[p])
  BY BusyFacts DEF Inv, ClientInv, PutTear, PutStripe, MarkerCreate, MarkerWrite, PutFails, PutPlaces
<1>2. idx[p] \in Nat /\ data[p] \in Seq(Stripe) /\ Len(data[p]) \in Nat
  BY <1>1, LenProperties DEF TypeInv
<1>3. DOMAIN ever' = Clients /\ DOMAIN always' = Clients /\ UNCHANGED <<req, todo, found, shaky, asked, reserved>>
  BY DEF Follow
<1>4. ASSUME idx[p] < Len(data[p]), NEW x \in Stripe, SetStripe(p, x),
             tgt[p] = ObjectId(req[p]), Bucket(req[p]) = "__bucket__" => reserved
      PROVE  /\ shards' \in [Ids -> Seq(Stripe)]
             /\ ~reserved => \A id \in Ids : id[1] = "__bucket__" => shards'[id] = shards[id]
  <2>1. ASSUME NEW id \in Ids, id = tgt[p] PROVE shards'[id] \in Seq(Stripe)
    <3>1. shards[id] \in Seq(Stripe) /\ idx[p] + 1 \in Nat \ {0}
      BY <1>1, <1>2 DEF TypeInv
    <3>2. Patched(shards[id], idx[p] + 1, x) \in Seq(Stripe)
      BY <3>1, PatchedIsSeq
    <3> QED BY <1>1, <1>4, <2>1, <3>2 DEF SetStripe, TypeInv
  <2>2. ASSUME NEW id \in Ids, id # tgt[p] PROVE shards'[id] = shards[id]
    BY <1>1, <1>4, <2>2 DEF SetStripe, TypeInv
  <2>3. ASSUME NEW id \in Ids PROVE shards'[id] \in Seq(Stripe)
    BY <1>1, <2>1, <2>2 DEF TypeInv
  <2>4. shards' = [id \in Ids |-> shards'[id]]
    BY <1>1, <1>4 DEF SetStripe, TypeInv
  <2>5. ~reserved => \A id \in Ids : id[1] = "__bucket__" => id # tgt[p]
    BY <1>1, <1>4 DEF PutPlaces
  <2> QED BY <2>2, <2>3, <2>4, <2>5
<1>5. CASE PutTear(p)
  <2>1. data[p] # << >> /\ idx[p] < Len(data[p]) /\ pc[p] = "put"
    BY <1>2, <1>5 DEF PutTear
  <2>2. tgt[p] = ObjectId(req[p]) /\ (Bucket(req[p]) = "__bucket__" => reserved)
    BY <1>1, <2>1 DEF PutTarget
  <2>3. PICK x \in {Mixed, Broken} : SetStripe(p, x)
    BY <1>5 DEF PutTear
  <2>4. /\ shards' \in [Ids -> Seq(Stripe)]
        /\ ~reserved => \A id \in Ids : id[1] = "__bucket__" => shards'[id] = shards[id]
    BY <1>4, <2>1, <2>2, <2>3 DEF Stripe, Bad
  <2>5. pc' = [pc EXCEPT ![p] = "putStripe"] /\ UNCHANGED <<markers, tgt, data, idx, resp>>
    BY <1>5 DEF PutTear, Goto
  <2>6. TypeInv'
    BY <1>1, <1>3, <2>4, <2>5 DEF TypeInv, Places, PutPlaces
  <2>7. BucketSpace'
    BY <1>1, <1>3, <2>4, <2>5 DEF BucketSpace
  <2> QED BY <1>1, <2>1, <2>5, <2>6, <2>7 DEF GoesOn, PutPlaces, TypeInv
<1>6. CASE PutStripe(p)
  <2>1. idx[p] < Len(data[p]) /\ pc[p] = "putStripe"
    BY <1>1, <1>6 DEF PutStripe, PutTarget, PutPlaces
  <2>2. tgt[p] = ObjectId(req[p]) /\ (Bucket(req[p]) = "__bucket__" => reserved)
    BY <1>1, <2>1 DEF PutTarget
  <2>3. PICK x \in {data[p][idx[p] + 1], Mixed, Broken} : SetStripe(p, x)
    BY <1>6 DEF PutStripe
  <2>4. data[p][idx[p] + 1] \in Stripe
    BY <1>2, <2>1, ElementOfSeq
  <2>5. /\ shards' \in [Ids -> Seq(Stripe)]
        /\ ~reserved => \A id \in Ids : id[1] = "__bucket__" => shards'[id] = shards[id]
    BY <1>4, <2>1, <2>2, <2>3, <2>4 DEF Stripe, Bad
  <2>6. /\ pc' = [pc EXCEPT ![p] = "put"] /\ idx' = [idx EXCEPT ![p] = @ + 1]
        /\ UNCHANGED <<markers, tgt, data, resp>>
    BY <1>6 DEF PutStripe, Goto
  <2>7. TypeInv'
    BY <1>1, <1>3, <2>5, <2>6 DEF TypeInv, Places, PutPlaces
  <2>8. BucketSpace'
    BY <1>1, <1>3, <2>5, <2>6 DEF BucketSpace
  <2> QED BY <1>1, <2>6, <2>7, <2>8 DEF GoesOn, PutPlaces, TypeInv
<1>7. ASSUME UNCHANGED shards, DOMAIN markers' = Ids,
             \A id \in Ids : id # tgt[p] => markers'[id] = markers[id]
      PROVE  BucketSpace'
  <2>1. ASSUME NEW id \in Ids, id[1] = "__bucket__", id = tgt[p], ~reserved
        PROVE  id[2] \in asked \cap ValidNames
    BY <1>1, <2>1 DEF PutTarget, PutPlaces
  <2> QED BY <1>1, <1>3, <1>7, <2>1 DEF BucketSpace
<1>8. ASSUME NEW r, Reply(p, r), UNCHANGED <<shards, tgt, data, idx>>, DOMAIN markers' = Ids
      PROVE  TypeInv' /\ pc'[p] = "done" /\ resp'[p] = r
  BY <1>1, <1>3, <1>8 DEF TypeInv, Reply, Places
<1>9. CASE MarkerCreate(p)
  <2>1. /\ pc' = [pc EXCEPT ![p] = "putMarker"] /\ markers' = [markers EXCEPT ![tgt[p]] = Torn]
        /\ UNCHANGED <<shards, tgt, data, idx, resp>>
    BY <1>9 DEF MarkerCreate, Goto
  <2>2. TypeInv'
    BY <1>1, <1>3, <2>1 DEF TypeInv, Places, PutPlaces
  <2>3. BucketSpace'
    BY <1>1, <1>7, <2>1 DEF TypeInv
  <2> QED BY <1>1, <2>1, <2>2, <2>3 DEF GoesOn, PutPlaces, TypeInv
<1>10. CASE MarkerWrite(p, Written(p), Failed(p))
  <2>1. /\ markers' = IF linked[p] THEN [markers EXCEPT ![tgt[p]] = Len(data[p])] ELSE markers
        /\ UNCHANGED shards
    BY <1>10 DEF MarkerWrite
  <2>2. DOMAIN markers' = Ids /\ \A id \in Ids : id # tgt[p] => markers'[id] = markers[id]
    BY <1>1, <2>1 DEF TypeInv
  <2>3. BucketSpace'
    BY <1>7, <2>1, <2>2
  <2>4. (Reply(p, Ok(200, None)) \/ Reply(p, InternalError)) /\ UNCHANGED <<tgt, data, idx>>
    BY <1>10 DEF MarkerWrite, Written, Failed
  <2>5. TypeInv' /\ pc'[p] = "done" /\ resp'[p] \in {Ok(200, None), InternalError}
    BY <1>8, <2>1, <2>2, <2>4
  <2> QED BY <1>1, <2>3, <2>5 DEF GoesOn
<1>11. CASE PutFails(p, Failed(p))
  <2>1. Reply(p, InternalError) /\ UNCHANGED <<shards, markers, tgt, data, idx>>
    BY <1>11 DEF PutFails, Failed
  <2>2. TypeInv' /\ pc'[p] = "done" /\ resp'[p] = InternalError
    BY <1>1, <1>8, <2>1 DEF TypeInv
  <2>3. BucketSpace'
    BY <1>1, <1>7, <2>1 DEF TypeInv
  <2> QED BY <1>1, <2>2, <2>3 DEF GoesOn
<1> QED BY <1>5, <1>6, <1>9, <1>10, <1>11

\* Every step of DeleteObject keeps the disk typed, and the bucket IDs without
\* shards.
LEMMA DelStep ==
  ASSUME Inv, NEW p \in Clients, Follow(p),
         \/ DelTear(p) \/ DelShards(p) \/ DelFails(p, Failed(p)) \/ DelMarker(p, Deleted(p))
  PROVE  TypeInv' /\ BucketSpace' /\ GoesOn(p)
<1> DEFINE s == shards[tgt[p]]
<1>1. TypeInv /\ DelTarget(p) /\ BucketSpace /\ pc[p] \in DelPlaces
  BY DEF Inv, ClientInv, DelTear, DelShards, DelFails, DelMarker, DelPlaces
<1>2. tgt[p] \in Ids /\ s \in Seq(Stripe)
  BY <1>1 DEF TypeInv, DelTarget
<1>3. DOMAIN ever' = Clients /\ DOMAIN always' = Clients /\ UNCHANGED <<req, todo, found, shaky, asked, reserved>>
  BY DEF Follow
<1>4. ASSUME NEW t \in Seq(Stripe), s = << >> => t = << >>,
             shards' = [shards EXCEPT ![tgt[p]] = t], UNCHANGED markers
      PROVE  shards' \in [Ids -> Seq(Stripe)] /\ BucketSpace'
  BY <1>1, <1>2, <1>3, <1>4 DEF TypeInv, BucketSpace
<1>5. CASE DelTear(p)
  <2>1. PICK m \in 0 .. Len(s) :
          shards' = [shards EXCEPT ![tgt[p]] = [i \in DOMAIN s |-> IF i <= m THEN Lost ELSE s[i]]]
    BY <1>5 DEF DelTear
  <2> DEFINE t == [i \in DOMAIN s |-> IF i \in {j \in DOMAIN s : j <= m} THEN Lost ELSE s[i]]
  <2>2. t = [i \in DOMAIN s |-> IF i <= m THEN Lost ELSE s[i]]
    OBVIOUS
  <2>3. t \in Seq(Stripe) /\ (s = << >> => t = << >>)
    BY <1>2, LosingIsSeq
  <2> HIDE DEF t
  <2>4. /\ pc' = [pc EXCEPT ![p] = "delRest"] /\ data' = [data EXCEPT ![p] = s]
        /\ UNCHANGED <<markers, tgt, idx, resp>>
    BY <1>5 DEF DelTear, Goto
  <2>5. shards' \in [Ids -> Seq(Stripe)] /\ BucketSpace'
    BY <1>4, <2>1, <2>2, <2>3, <2>4
  <2>6. TypeInv'
    BY <1>1, <1>2, <1>3, <2>4, <2>5 DEF TypeInv, Places, DelPlaces
  <2> QED BY <1>1, <2>4, <2>5, <2>6 DEF GoesOn, DelPlaces, TypeInv
<1>6. CASE DelShards(p)
  <2> DEFINE listed == {i \in DOMAIN s : i <= Len(data[p])}
             t == [i \in DOMAIN s |-> IF i \in listed THEN Lost ELSE s[i]]
  <2>1. \/ shards' = [shards EXCEPT ![tgt[p]] = << >>]
        \/ shards' = [shards EXCEPT ![tgt[p]] = t]
    BY <1>6 DEF DelShards
  <2>2. t \in Seq(Stripe) /\ (s = << >> => t = << >>)
    BY <1>2, LosingIsSeq
  <2> HIDE DEF t
  <2>3. pc' = [pc EXCEPT ![p] = "delMarker"] /\ UNCHANGED <<markers, tgt, data, idx, resp>>
    BY <1>6 DEF DelShards, Goto
  <2>4. shards' \in [Ids -> Seq(Stripe)] /\ BucketSpace'
    BY <1>4, <2>1, <2>2, <2>3, EmptySeq
  <2>5. TypeInv'
    BY <1>1, <1>3, <2>3, <2>4 DEF TypeInv, Places, DelPlaces
  <2> QED BY <1>1, <2>3, <2>4, <2>5 DEF GoesOn, DelPlaces, TypeInv
<1>7. ASSUME NEW r, Reply(p, r), UNCHANGED <<shards, tgt, data, idx>>, DOMAIN markers' = Ids
      PROVE  TypeInv' /\ pc'[p] = "done" /\ resp'[p] = r
  BY <1>1, <1>3, <1>7 DEF TypeInv, Reply, Places
<1>8. CASE DelFails(p, Failed(p))
  <2>1. Reply(p, InternalError) /\ UNCHANGED <<shards, markers, tgt, data, idx>>
    BY <1>8 DEF DelFails, Failed
  <2>2. TypeInv' /\ pc'[p] = "done" /\ resp'[p] = InternalError
    BY <1>1, <1>7, <2>1 DEF TypeInv
  <2>3. BucketSpace'
    BY <1>1, <1>3, <2>1 DEF BucketSpace
  <2> QED BY <1>1, <2>2, <2>3 DEF GoesOn
<1>9. CASE DelMarker(p, Deleted(p))
  <2>1. /\ Reply(p, Ok(204, None)) /\ markers' = [markers EXCEPT ![tgt[p]] = None]
        /\ UNCHANGED <<shards, tgt, data, idx>>
    BY <1>9 DEF DelMarker, Deleted
  <2>2. TypeInv' /\ pc'[p] = "done" /\ resp'[p] = Ok(204, None)
    BY <1>1, <1>7, <2>1 DEF TypeInv
  <2>3. BucketSpace'
    BY <1>1, <1>3, <2>1 DEF BucketSpace, TypeInv
  <2> QED BY <1>1, <2>2, <2>3 DEF GoesOn
<1> QED BY <1>5, <1>6, <1>8, <1>9

\* A step of a PUT or a DELETE.
LEMMA MutateStep ==
  ASSUME Inv, NEW p \in Clients, Mutate(p)
  PROVE  Inv'
<1>1. \A q \in Clients \ {p} :
        /\ pc'[q] = pc[q] /\ resp'[q] = resp[q] /\ tgt'[q] = tgt[q]
        /\ idx'[q] = idx[q] /\ data'[q] = data[q]
  <2> USE DEF Inv, TypeInv, Goto, Reply, Written, Deleted, Failed
  <2>1. CASE PutTear(p)
    BY <2>1 DEF PutTear
  <2>2. CASE PutStripe(p)
    BY <2>2 DEF PutStripe
  <2>3. CASE MarkerCreate(p)
    BY <2>3 DEF MarkerCreate
  <2>4. CASE MarkerWrite(p, Written(p), Failed(p))
    BY <2>4 DEF MarkerWrite
  <2>5. CASE PutFails(p, Failed(p))
    BY <2>5 DEF PutFails
  <2>6. CASE DelTear(p)
    BY <2>6 DEF DelTear
  <2>7. CASE DelShards(p)
    BY <2>7 DEF DelShards
  <2>8. CASE DelFails(p, Failed(p))
    BY <2>8 DEF DelFails
  <2>9. CASE DelMarker(p, Deleted(p))
    BY <2>9 DEF DelMarker
  <2> QED BY <2>1, <2>2, <2>3, <2>4, <2>5, <2>6, <2>7, <2>8, <2>9 DEF Mutate
<1>2. Follow(p)
  BY <1>1 DEF Follow, Mutate, kept
<1>3. TypeInv' /\ BucketSpace' /\ GoesOn(p)
  BY <1>2, PutStep, DelStep DEF Mutate
<1> QED BY <1>2, <1>3, FollowStep

-----------------------------------------------------------------------------
(* The theorems.                                                           *)

\* Every step keeps the invariant.
LEMMA NextInv == Inv /\ [Next]_vars => Inv'
<1> SUFFICES ASSUME Inv, [Next]_vars PROVE Inv'
  OBVIOUS
<1>1. ASSUME NEW p \in Clients, NEW r \in Requests, Send(p, r) PROVE Inv'
  BY <1>1, SendStep
<1>2. ASSUME NEW p \in Clients, Handler(p) PROVE Inv'
  BY <1>2, WalkStep, CheckErrorStep, NoBucketStep, CreateBucketStep, GoOnStep, HeadBucketStep,
     PutObjectStep, CompleteStep, MutateStep, OpenedStep, CopyStep, ListStep, ListKeyStep,
     ListSizeStep, ListReplyStep
     DEF Handler
<1>3. CASE UNCHANGED vars
  <2>1. \A p \in Clients : ClientInv(p) /\ Followed(p)
    BY DEF Inv, ClientInv
  <2>2. UNCHANGED <<shards, markers, pc, tgt, data, idx, resp, req, todo, found, ever, always,
                    shaky, asked, reserved>>
    BY <1>3 DEF vars, storeVars
  <2>3. ASSUME NEW p \in Clients PROVE ClientInv(p)'
    <3>1. Followed(p)'
      BY <2>1, <2>2 DEF Followed, Busy, Facts
    <3> QED BY <2>1, <2>2, <3>1, ClientFrame
  <2> QED BY <2>2, <2>3 DEF Inv, TypeInv, BucketSpace
<1> QED BY <1>1, <1>2, <1>3, CrashStep DEF Next

\* The invariant holds in every state.
LEMMA SpecInv == Spec => []Inv
<1> QED BY InitInv, NextInv, PTL DEF Spec

\* No handler says "no such bucket" or "no such key" of what had a shard, or a
\* marker, whole or damaged, all through the request.
THEOREM AbsenceIsTrue == Spec => []NoFalseAbsence
<1>1. Inv => NoFalseAbsence
  BY DEF Inv, ClientInv, AbsentAnswer, NoFalseAbsence
<1> QED BY <1>1, SpecInv, PTL

\* A GET of an object that nobody touches sends all of it, or an error status.
THEOREM QuietReads == Spec => []QuietReadIsWhole
<1>1. Inv => QuietReadIsWhole
  BY DEF Inv, ClientInv, ReadAnswer, QuietReadIsWhole
<1> QED BY <1>1, SpecInv, PTL

\* A listing invents nothing.  A page that passes for complete leaves out no
\* object whose bytes are there all the time, with a readable last stripe, but
\* those whose walk had a reason to fail.
THEOREM HonestListing == Spec => []ListingIsHonest
<1>1. Inv => ListingIsHonest
  BY DEF Inv, ClientInv, ListAnswer, Due, ListingIsHonest
<1> QED BY <1>1, SpecInv, PTL

\* Unless POST complete has written among them, every bucket on disk was there
\* at the start or was created with a valid name.
THEOREM CreatedBuckets == Spec => []BucketsAreCreated
<1>1. Inv => BucketsAreCreated
  BY DEF Inv, BucketSpace, BucketsAreCreated
<1> QED BY <1>1, SpecInv, PTL
=============================================================================
