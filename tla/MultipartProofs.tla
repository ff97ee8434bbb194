--------------------------- MODULE MultipartProofs ---------------------------
(***************************************************************************)
(* A complete loses no part and, undisturbed, leaves none of the parts it  *)
(* lists behind, for any number of clients, uploads, parts and requests.   *)
(***************************************************************************)
EXTENDS Multipart, SequenceTheorems, TLAPS

PutPlaces   == {"put", "putStripe", "putMarker"}
DelPlaces   == {"delShards", "delRest", "delMarker"}
EarlyPlaces == {"part", "partSize", "readPart"} \cup PutPlaces
LatePlaces  == {"cleanup"} \cup DelPlaces

Stripe == Bad \cup UNION {{r.data[i] : i \in DOMAIN r.data} : r \in {q \in Requests : q.data # None}}

TypeInv ==
  /\ shards \in [Ids -> Seq(Stripe)] /\ DOMAIN markers = Ids
  /\ pc \in [Clients -> {"idle", "done"} \cup EarlyPlaces \cup LatePlaces]
  /\ req \in [Clients -> Requests \cup {None}]
  /\ idx \in [Clients -> Nat] /\ at \in [Clients -> Nat]
  /\ data \in [Clients -> Seq(Stripe)] /\ acc \in [Clients -> Seq(Stripe)]
  /\ DOMAIN linked = Clients /\ DOMAIN tgt = Clients /\ DOMAIN resp = Clients

\* What a complete deletes: its parts in the order of the list, then the
\* upload's marker.
Item(r, i) == IF i <= Len(r.list) THEN PartsOf(r)[i] ELSE UploadMarker(r.upload)

\* A handler is at a place of its request and at an object the request names.
AtPlace(p) ==
  /\ pc[p] # "idle" => req[p] \in Requests
  /\ pc[p] \in {"part", "partSize", "readPart", "cleanup"} => req[p].op = "complete"
  /\ pc[p] \in PutPlaces => req[p].op \in {"initiate", "UploadPart", "complete"}
  /\ pc[p] \in DelPlaces => req[p].op \in {"abort", "complete"}
  /\ Busy(p) /\ req[p].op = "complete" => req[p].list # None
  /\ pc[p] = "putStripe" => idx[p] < Len(data[p])

\* The target of a PUT.
PutTarget(p) ==
  pc[p] \in PutPlaces =>
    /\ req[p].op = "initiate" => tgt[p] = UploadMarker(req[p].upload) /\ data[p] = << >>
    /\ req[p].op = "UploadPart" =>
         IF PartsRouted THEN req[p].part > 0 /\ tgt[p] = PartMarker(req[p].upload, req[p].part)
         ELSE tgt[p] = ObjectID
    /\ req[p].op = "complete" => tgt[p] = ObjectID /\ at[p] = 1

\* The target of a DELETE.
DelTarget(p) ==
  /\ pc[p] \in DelPlaces /\ req[p].op = "abort" => tgt[p] = UploadMarker(req[p].upload)
  /\ pc[p] \in DelPlaces /\ req[p].op = "complete" =>
       at[p] - 1 \in 1 .. Count(p) + 1 /\ tgt[p] = Item(req[p], at[p] - 1)

\* The position in the list.
Position(p) ==
  /\ pc[p] = "part" => at[p] \in 1 .. Count(p) + 1
  /\ pc[p] \in {"partSize", "readPart"} => at[p] \in 1 .. Count(p) /\ tgt[p] = PartsOf(req[p])[at[p]]
  /\ pc[p] = "cleanup" => at[p] \in 1 .. Count(p) + 2

ClientInv(p) == AtPlace(p) /\ PutTarget(p) /\ DelTarget(p) /\ Position(p)

\* An upload's marker has no shards.
MarkersBare == \A r \in Requests : UploadMarker(r.upload) \in Ids => shards[UploadMarker(r.upload)] = << >>

\* The complete that made the promise is the last request of p.
Owning(p) == debt # None /\ debt.by = p /\ pc[p] # "idle" /\ req[p].op = "complete"

\* The promise is about sound parts, and only its complete may touch them.
DebtShape ==
  debt # None =>
    /\ debt = [by |-> debt.by, ids |-> debt.ids, parts |-> debt.parts, clean |-> debt.clean]
    /\ debt.by \in Clients /\ Len(debt.parts) \in Nat /\ DOMAIN debt.parts = 1 .. Len(debt.parts)
    /\ DOMAIN debt.ids = DOMAIN debt.parts
    /\ \A i \in DOMAIN debt.ids :
         /\ debt.ids[i] \in Ids /\ debt.ids[i] # ObjectID /\ \A u : debt.ids[i] # UploadMarker(u)
         /\ debt.parts[i] \in Seq(Stripe) /\ debt.parts[i] # << >>
         /\ \A j \in DOMAIN debt.parts[i] : debt.parts[i][j] \notin Bad
DebtAlone ==
  debt # None => \A p \in Clients :
    /\ Busy(p) => ~Touches(req[p], debt.ids) \/ Owning(p)
    /\ Owning(p) => debt.ids = PartsOf(req[p])

\* Until the object is stored no part has changed.
EarlyKept == \A p \in Clients : Owning(p) /\ pc[p] \in EarlyPlaces => Kept(debt)

\* s is the first n parts, one after another.
Joined(s, parts, n) ==
  \E ends \in [0 .. n -> 0 .. Len(s)] :
    /\ ends[0] = 0 /\ ends[n] = Len(s)
    /\ \A i \in 1 .. n :
         /\ ends[i] = ends[i - 1] + Len(parts[i])
         /\ \A j \in 1 .. Len(parts[i]) : s[ends[i - 1] + j] = parts[i][j]

\* The stripes that a PUT has written are on disk.
Written(p) ==
  /\ idx[p] <= Len(data[p]) /\ idx[p] <= Len(shards[ObjectID])
  /\ \A j \in 1 .. idx[p] : shards[ObjectID][j] = data[p][j]

\* How far the complete is.
Phase(p) ==
  /\ pc[p] \in {"part", "partSize", "readPart"} => Joined(acc[p], debt.parts, at[p] - 1)
  /\ pc[p] \in {"partSize", "readPart"} => idx[p] = Len(debt.parts[at[p]])
  /\ pc[p] \in PutPlaces => Joined(data[p], debt.parts, Len(debt.parts)) /\ Written(p)
  /\ pc[p] = "putStripe" => linked[p]
  /\ pc[p] = "putMarker" => idx[p] = Len(data[p])
  /\ pc[p] \in LatePlaces => Assembled(debt.parts)
Safe ==
  debt # None /\ "read" \notin Failures =>
    /\ Kept(debt) \/ Assembled(debt.parts)
    /\ \A p \in Clients : Owning(p) => Phase(p)

\* An undisturbed complete: what is deleted, and what is still whole.
Gone(id) == shards[id] = << >> /\ markers[id] = None
GoneTo(p, n) == \A i \in 1 .. n : Gone(Item(req[p], i))
Undisturbed(p) ==
  /\ \A q \in Clients \ {p} : ~Busy(q)
  /\ pc[p] \in LatePlaces =>
       /\ \A i \in DOMAIN debt.ids : \/ shards[debt.ids[i]] \in {debt.parts[i], << >>}
                                     \/ pc[p] = "delRest" /\ tgt[p] = debt.ids[i]
       /\ GoneTo(p, IF pc[p] = "cleanup" THEN at[p] - 1 ELSE at[p] - 2)
  /\ pc[p] = "delRest" =>
       /\ Len(shards[tgt[p]]) = Len(data[p])
       /\ \A i \in DOMAIN data[p] : data[p][i] # Mixed
  /\ pc[p] = "delMarker" => shards[tgt[p]] = << >>
  /\ pc[p] = "done" /\ resp[p] = Answer(200) => GoneTo(p, Count(p) + 1)
Clean == \A p \in Clients : Owning(p) /\ debt.clean => Undisturbed(p)

Basis == TypeInv /\ MarkersBare /\ DebtShape /\ DebtAlone /\ \A p \in Clients : ClientInv(p)
Inv  == Basis /\ EarlyKept /\ Safe /\ Clean

-----------------------------------------------------------------------------
\* The three kinds of IDs are disjoint.
LEMMA KindsOfIds ==
  ASSUME NEW u, NEW v, NEW n
  PROVE  /\ UploadMarker(u) # ObjectID /\ PartMarker(u, n) # ObjectID
         /\ PartMarker(u, n) # UploadMarker(v)
BY DEF UploadMarker, PartMarker, ObjectID

\* The parts that a complete names.
LEMMA PartFacts ==
  ASSUME NEW r \in Requests, r.list # None
  PROVE  /\ Len(r.list) \in Nat /\ DOMAIN PartsOf(r) = 1 .. Len(r.list)
         /\ \A i \in DOMAIN PartsOf(r) :
              PartsOf(r)[i] \in Ids /\ PartsOf(r)[i] # ObjectID /\ \A u : PartsOf(r)[i] # UploadMarker(u)
<1>1. r.list \in Seq(Nat) /\ \A i \in DOMAIN r.list : PartMarker(r.upload, r.list[i]) \in Ids
  BY UploadsAssumption
<1>2. Len(r.list) \in Nat /\ DOMAIN r.list = 1 .. Len(r.list)
  BY <1>1, LenProperties
<1> QED BY <1>1, <1>2, KindsOfIds DEF PartsOf

\* What a complete deletes is in Ids.
LEMMA ItemFacts ==
  ASSUME NEW r \in Requests, r.list # None, r.op = "complete", NEW i \in 1 .. Len(r.list) + 1
  PROVE  /\ Item(r, i) \in Ids /\ Item(r, i) # ObjectID
         /\ i \in 1 .. Len(r.list) \/ Item(r, i) = UploadMarker(r.upload)
<1>1. UploadMarker(r.upload) \in Ids
  BY UploadsAssumption
<1> QED BY <1>1, PartFacts, KindsOfIds DEF Item

\* PutObject and DeleteObject work on an ID that exists.
LEMMA TargetFacts ==
  ASSUME Basis, NEW p \in Clients, pc[p] \in PutPlaces \cup DelPlaces
  PROVE  tgt[p] \in Ids /\ req[p] \in Requests /\ Busy(p)
<1>1. /\ AtPlace(p) /\ PutTarget(p) /\ DelTarget(p) /\ req[p] \in Requests /\ Busy(p)
      /\ req[p].part \in Nat
  BY UploadsAssumption DEF Basis, ClientInv, AtPlace, PutPlaces, DelPlaces, Busy
<1>2. CASE pc[p] \in PutPlaces
  BY <1>1, <1>2, UploadsAssumption DEF AtPlace, PutTarget
<1>3. CASE pc[p] \in DelPlaces
  <2>1. CASE req[p].op = "abort"
    BY <1>1, <1>3, <2>1, UploadsAssumption DEF DelTarget
  <2>2. CASE req[p].op = "complete"
    BY <1>1, <1>3, <2>2, ItemFacts DEF DelTarget, AtPlace, Count
  <2> QED BY <1>1, <1>3, <2>1, <2>2 DEF AtPlace
<1> QED BY <1>1, <1>2, <1>3

\* A request other than the complete itself leaves its parts and the object
\* alone.
LEMMA Untouched ==
  ASSUME Basis, debt # None, NEW p \in Clients, Busy(p), ~Owning(p)
  PROVE  /\ pc[p] \in PutPlaces \cup DelPlaces /\ req[p].op # "complete"
         /\ tgt[p] # ObjectID /\ \A i \in DOMAIN debt.ids : debt.ids[i] # tgt[p]
<1>1. ~Touches(req[p], debt.ids) /\ AtPlace(p) /\ PutTarget(p) /\ DelTarget(p)
  BY DEF Basis, DebtAlone, ClientInv
<1>2. req[p].op # "complete"
  BY <1>1 DEF Touches
<1>3. pc[p] \in PutPlaces \cup DelPlaces
  BY <1>1, <1>2 DEF AtPlace, Busy, Basis, TypeInv, EarlyPlaces, LatePlaces
<1>4. \A u : UploadMarker(u) # ObjectID /\ \A i \in DOMAIN debt.ids : debt.ids[i] # UploadMarker(u)
  BY KindsOfIds DEF Basis, DebtShape
<1>5. CASE req[p].op = "UploadPart"
  BY <1>1, <1>3, <1>5, KindsOfIds DEF Touches, PutTarget, AtPlace, DelPlaces, PutPlaces
<1>6. CASE req[p].op # "UploadPart"
  BY <1>1, <1>2, <1>3, <1>4, <1>6 DEF PutTarget, DelTarget, AtPlace
<1> QED BY <1>2, <1>3, <1>5, <1>6

\* The invariant holds when the server starts.
LEMMA InitInv == Init => Inv
<1> SUFFICES ASSUME Init PROVE Inv
  OBVIOUS
<1> USE DEF Init, StoreInit
<1>1. TypeInv /\ MarkersBare
  BY DEF TypeInv, MarkersBare
<1>2. DebtShape /\ DebtAlone /\ EarlyKept /\ Safe /\ Clean
  BY DEF DebtShape, DebtAlone, EarlyKept, Safe, Clean, Owning
<1>3. \A p \in Clients : ClientInv(p)
  BY DEF ClientInv, AtPlace, PutTarget, DelTarget, Position, Busy, PutPlaces, DelPlaces
<1> QED BY <1>1, <1>2, <1>3 DEF Inv, Basis

-----------------------------------------------------------------------------
(* Steps of a request under way.                                           *)

\* A step of p changes locals of p, and of the promise at most that it is
\* undisturbed.
Moves(p) ==
  /\ Busy(p) /\ pc'[p] # "idle" /\ UNCHANGED req
  /\ \/ debt' = debt
     \/ debt # None /\ debt' = [debt EXCEPT !.clean = FALSE]
  /\ \A q \in Clients \ {p} :
       /\ pc'[q] = pc[q] /\ tgt'[q] = tgt[q] /\ data'[q] = data[q] /\ idx'[q] = idx[q]
       /\ at'[q] = at[q] /\ acc'[q] = acc[q] /\ resp'[q] = resp[q]
       /\ linked[q] /\ tgt[q] # tgt[p] => linked'[q]

\* On disk it changes its object.
Writes(p) == \A id \in Ids \ {tgt[p]} : shards'[id] = shards[id] /\ markers'[id] = markers[id]

\* Such a step keeps the terms of the promise.
LEMMA SameDebt ==
  ASSUME Basis, NEW p \in Clients, Moves(p), debt # None \/ debt' # None
  PROVE  /\ debt # None /\ debt'.by = debt.by /\ debt'.ids = debt.ids /\ debt'.parts = debt.parts
         /\ debt'.clean => debt.clean /\ debt' = debt
         /\ debt' = [by |-> debt'.by, ids |-> debt'.ids, parts |-> debt'.parts, clean |-> debt'.clean]
         /\ debt' # None => \A q \in Clients : Owning(q)' <=> Owning(q)
<1>1. debt # None
  BY DEF Moves
<1>2. debt = [by |-> debt.by, ids |-> debt.ids, parts |-> debt.parts, clean |-> debt.clean]
  BY <1>1 DEF Basis, DebtShape
<1>3. CASE debt' = debt
  BY <1>1, <1>2, <1>3 DEF Moves, Owning, Busy
<1>4. CASE debt' = [debt EXCEPT !.clean = FALSE]
  <2>1. debt' = [by |-> debt.by, ids |-> debt.ids, parts |-> debt.parts, clean |-> FALSE]
    BY <1>2, <1>4
  <2>2. /\ debt'.by = debt.by /\ debt'.ids = debt.ids /\ debt'.parts = debt.parts
        /\ debt'.clean = FALSE
    BY <2>1
  <2> QED BY <1>1, <2>1, <2>2 DEF Moves, Owning, Busy
<1> QED BY <1>3, <1>4 DEF Moves

\* What a step of p must show for the basis of the invariant.
LEMMA BasisStep ==
  ASSUME Basis, NEW p \in Clients, Moves(p), TypeInv', MarkersBare', ClientInv(p)'
  PROVE  Basis'
<1>1. DebtShape'
  <2> SUFFICES ASSUME debt' # None PROVE DebtShape'
    BY DEF DebtShape
  <2> QED BY SameDebt DEF Basis, DebtShape
<1>2. DebtAlone'
  <2> SUFFICES ASSUME debt' # None, NEW q \in Clients
               PROVE  /\ Busy(q)' => ~Touches(req'[q], debt'.ids) \/ Owning(q)'
                      /\ Owning(q)' => debt'.ids = PartsOf(req'[q])
    BY DEF DebtAlone, Touches, PartsOf
  <2>1. debt # None /\ debt'.ids = debt.ids /\ (Owning(q)' <=> Owning(q)) /\ req' = req
    BY SameDebt DEF Moves
  <2>2. Busy(q)' => Busy(q)
    BY DEF Moves, Busy
  <2> QED BY <2>1, <2>2 DEF Basis, DebtAlone
<1>3. ASSUME NEW q \in Clients, q # p PROVE ClientInv(q)'
  <2>1. ClientInv(q)
    BY DEF Basis
  <2> QED BY <1>3, <2>1 DEF Moves, ClientInv, AtPlace, PutTarget, DelTarget, Position, Busy, Count,
                            Item, PartsOf
<1> QED BY <1>1, <1>2, <1>3 DEF Basis

\* Parts that keep their shards are still kept.
LEMMA KeptFrame ==
  ASSUME Basis, debt # None, NEW p \in Clients, Moves(p), debt' # None, Kept(debt),
         \A i \in DOMAIN debt.ids : shards'[debt.ids[i]] = shards[debt.ids[i]]
  PROVE  Kept(debt)'
<1>1. debt'.ids = debt.ids /\ debt'.parts = debt.parts
  BY SameDebt
<1> QED BY <1>1 DEF Kept

\* An object that keeps its shards is still assembled.
LEMMA AssembledFrame ==
  ASSUME Basis, debt # None, NEW p \in Clients, Moves(p), Assembled(debt.parts),
         shards'[ObjectID] = shards[ObjectID]
  PROVE  Assembled(debt.parts)'
<1>1. debt'.parts = debt.parts
  BY SameDebt
<1> QED BY <1>1 DEF Assembled

\* A step of another request.
LEMMA OtherStep ==
  ASSUME Inv, NEW p \in Clients, Moves(p), Basis', ~Owning(p), Writes(p)
  PROVE  Inv'
<1>1. CASE debt' = None
  BY <1>1 DEF Inv, EarlyKept, Safe, Clean, Owning
<1>2. CASE debt' # None
  <2>1. /\ debt # None /\ debt'.by = debt.by /\ debt'.ids = debt.ids /\ debt'.parts = debt.parts
        /\ debt'.clean => debt.clean
        /\ \A q \in Clients : Owning(q)' <=> Owning(q)
    BY <1>2, SameDebt DEF Inv
  <2>2. /\ tgt[p] # ObjectID
        /\ \A i \in DOMAIN debt.ids : debt.ids[i] # tgt[p] /\ debt.ids[i] \in Ids
    BY <2>1, Untouched DEF Inv, Basis, DebtShape, Moves
  <2>3. /\ shards'[ObjectID] = shards[ObjectID]
        /\ \A i \in DOMAIN debt.ids : shards'[debt.ids[i]] = shards[debt.ids[i]]
    BY <2>2, UploadsAssumption DEF Writes
  <2>4. Kept(debt) => Kept(debt)'
    BY <1>2, <2>1, <2>3, KeptFrame DEF Inv
  <2>5. Assembled(debt.parts) => Assembled(debt.parts)'
    BY <1>2, <2>1, <2>3, AssembledFrame DEF Inv
  <2>6. ASSUME NEW q \in Clients, Owning(q)
        PROVE  /\ q # p /\ pc'[q] = pc[q] /\ tgt'[q] = tgt[q] /\ data'[q] = data[q]
               /\ idx'[q] = idx[q] /\ at'[q] = at[q] /\ acc'[q] = acc[q]
               /\ linked[q] /\ tgt[q] # tgt[p] => linked'[q]
    BY <2>6 DEF Moves
  <2>7. EarlyKept'
    BY <2>1, <2>4, <2>6 DEF Inv, EarlyKept
  <2>8. Safe'
    <3> SUFFICES ASSUME "read" \notin Failures PROVE Safe'
      BY DEF Safe
    <3>1. Kept(debt) \/ Assembled(debt.parts)
      BY <2>1 DEF Inv, Safe
    <3>2. ASSUME NEW q \in Clients, Owning(q) PROVE Phase(q)'
      <4>1. Phase(q)
        BY <2>1, <3>2 DEF Inv, Safe
      <4>2. Joined(acc[q], debt.parts, at[q] - 1) => Joined(acc[q], debt.parts, at[q] - 1)'
        BY <2>1, <2>6, <3>2
      <4>3. Joined(data[q], debt.parts, Len(debt.parts)) => Joined(data[q], debt.parts, Len(debt.parts))'
        BY <2>1, <2>6, <3>2
      <4>4. Written(q) => Written(q)'
        BY <2>3, <2>6, <3>2 DEF Written
      <4>5. pc[q] = "putStripe" => tgt[q] = ObjectID
        BY <3>2 DEF Inv, Basis, ClientInv, PutTarget, PutPlaces, Owning
      <4> QED BY <2>1, <2>2, <2>5, <2>6, <3>2, <4>1, <4>2, <4>3, <4>4, <4>5 DEF Phase
    <3> QED BY <2>1, <2>4, <2>5, <3>1, <3>2 DEF Safe
  <2>9. Clean'
    <3> SUFFICES ASSUME NEW q \in Clients, Owning(q)', debt'.clean PROVE FALSE
      BY DEF Clean
    <3>1. Undisturbed(q) /\ q # p
      BY <2>1 DEF Inv, Clean
    <3> QED BY <3>1 DEF Undisturbed, Moves
  <2> QED BY <2>7, <2>8, <2>9 DEF Inv
<1> QED BY <1>1, <1>2

\* What a step of the complete must show.
LEMMA OwnerStep ==
  ASSUME Inv, NEW p \in Clients, Moves(p), Basis', Owning(p), debt' # None,
         pc'[p] \in EarlyPlaces => Kept(debt)',
         "read" \notin Failures => (Kept(debt) \/ Assembled(debt.parts))' /\ Phase(p)',
         debt'.clean => Undisturbed(p)'
  PROVE  Inv'
<1>1. debt # None /\ debt.by = p /\ \A q \in Clients : Owning(q)' => q = p
  BY SameDebt DEF Inv, Owning
<1>2. EarlyKept'
  BY <1>1 DEF EarlyKept
<1>3. Safe'
  BY <1>1 DEF Safe
<1>4. Clean'
  BY <1>1 DEF Clean
<1> QED BY <1>2, <1>3, <1>4 DEF Inv

-----------------------------------------------------------------------------
(* A request arrives.                                                      *)

\* The body of an upload is a sequence of stripes.
LEMMA BodyIsStripes ==
  ASSUME NEW r \in Requests, r.data # None
  PROVE  r.data \in Seq(Stripe)
<1>1. r.data \in Seq({r.data[i] : i \in DOMAIN r.data})
  BY UploadsAssumption
<1>2. Len(r.data) \in Nat /\ DOMAIN r.data = 1 .. Len(r.data)
  BY <1>1, LenProperties
<1>3. \A i \in 1 .. Len(r.data) : r.data[i] \in Stripe
  BY <1>2 DEF Stripe
<1>4. r.data = [i \in 1 .. Len(r.data) |-> r.data[i]]
  BY <1>1, <1>2
<1> QED BY <1>2, <1>3, <1>4, IsASeq

\* A new request begins with its handler at the right place.
LEMMA SendBasics ==
  ASSUME Basis, NEW p \in Clients, NEW r \in Requests, Send(p, r)
  PROVE  /\ TypeInv' /\ MarkersBare' /\ \A q \in Clients : ClientInv(q)'
         /\ pc'[p] # "idle" /\ req'[p] = r /\ at'[p] = 1 /\ acc'[p] = << >>
         /\ UNCHANGED <<shards, markers>>
         /\ \A q \in Clients \ {p} :
              /\ pc'[q] = pc[q] /\ req'[q] = req[q] /\ tgt'[q] = tgt[q] /\ data'[q] = data[q]
              /\ idx'[q] = idx[q] /\ at'[q] = at[q] /\ acc'[q] = acc[q] /\ resp'[q] = resp[q]
              /\ linked'[q] = linked[q]
         /\ r.op = "complete" => pc'[p] \in {"part", "done"} /\ (r.list # None => pc'[p] = "part")
<1>1. TypeInv /\ MarkersBare /\ \A q \in Clients : ClientInv(q)
  BY DEF Basis
<1>2. /\ req' = [req EXCEPT ![p] = r] /\ at' = [at EXCEPT ![p] = 1]
      /\ acc' = [acc EXCEPT ![p] = << >>] /\ linked' = [linked EXCEPT ![p] = FALSE]
      /\ UNCHANGED <<shards, markers>>
  BY DEF Send
<1> DEFINE Begins ==
             \/ pc'[p] = "done"
             \/ /\ pc'[p] = "put" /\ r.op = "initiate"
                /\ tgt'[p] = UploadMarker(r.upload) /\ data'[p] = << >>
             \/ /\ pc'[p] = "put" /\ r.op = "UploadPart"
                /\ IF PartsRouted THEN r.part > 0 /\ tgt'[p] = PartMarker(r.upload, r.part)
                   ELSE tgt'[p] = ObjectID
             \/ pc'[p] = "part" /\ r.op = "complete" /\ r.list # None
             \/ pc'[p] = "delShards" /\ r.op = "abort" /\ tgt'[p] = UploadMarker(r.upload)
           Typed ==
             /\ pc' \in [Clients -> {"idle", "done"} \cup EarlyPlaces \cup LatePlaces]
             /\ data' \in [Clients -> Seq(Stripe)] /\ idx' \in [Clients -> Nat]
             /\ DOMAIN tgt' = Clients /\ DOMAIN resp' = Clients
             /\ \A q \in Clients \ {p} :
                  /\ pc'[q] = pc[q] /\ tgt'[q] = tgt[q] /\ data'[q] = data[q]
                  /\ idx'[q] = idx[q] /\ resp'[q] = resp[q]
<1>3. /\ Typed /\ Begins
      /\ r.op = "complete" /\ r.list # None => pc'[p] = "part"
  <2> USE DEF EarlyPlaces, LatePlaces, PutPlaces, DelPlaces
  <2>1. CASE Initiate(p, r)
    <3>1. Typed
      BY <1>1, <2>1 DEF Initiate, StartPut, Begin, TypeInv
    <3>2. Begins /\ r.op # "complete"
      BY <1>1, <2>1 DEF Initiate, StartPut, Begin, TypeInv
    <3> QED BY <3>1, <3>2
  <2>2. CASE UploadPart(p, r)
    <3>1. CASE r.data = None \/ (PartsRouted /\ (r.part < 1 \/ r.data \in TooSmall))
      <4>1. /\ \E m : pc' = [pc EXCEPT ![p] = "done"] /\ resp' = [resp EXCEPT ![p] = m]
            /\ UNCHANGED <<tgt, data, idx>> /\ r.op = "UploadPart"
        BY <2>2, <3>1 DEF UploadPart, Reply
      <4> QED BY <1>1, <4>1 DEF TypeInv
    <3>2. CASE ~(r.data = None \/ (PartsRouted /\ (r.part < 1 \/ r.data \in TooSmall)))
      <4> DEFINE t == IF PartsRouted THEN PartMarker(r.upload, r.part) ELSE ObjectID
      <4>1. /\ pc' = [pc EXCEPT ![p] = "put"] /\ resp' = [resp EXCEPT ![p] = None]
            /\ tgt' = [tgt EXCEPT ![p] = t]
            /\ data' = [data EXCEPT ![p] = r.data] /\ idx' = [idx EXCEPT ![p] = 0] /\ r.op = "UploadPart"
        BY <2>2, <3>2 DEF UploadPart, StartPut, Begin
      <4>2. r.data \in Seq(Stripe) /\ 0 \in Nat
        BY <3>2, BodyIsStripes
      <4>3. PartsRouted => r.part > 0
        <5>1. PartsRouted => ~(r.part < 1)
          BY <3>2
        <5>2. r.part \in Nat
          BY UploadsAssumption
        <5> QED BY <5>1, <5>2
      <4>4. Typed
        BY <1>1, <4>1, <4>2 DEF TypeInv
      <4>5. pc'[p] = "put" /\ tgt'[p] = t
        BY <1>1, <4>1 DEF TypeInv
      <4>6. Begins
        BY <4>1, <4>3, <4>5
      <4> QED BY <4>1, <4>4, <4>6
    <3> QED BY <3>1, <3>2
  <2>3. CASE StartComplete(p, r)
    <3>1. /\ UNCHANGED <<tgt, data, idx>> /\ r.op = "complete"
          /\ \/ r.list = None /\ \E m : pc' = [pc EXCEPT ![p] = "done"] /\ resp' = [resp EXCEPT ![p] = m]
             \/ r.list # None /\ pc' = [pc EXCEPT ![p] = "part"] /\ resp' = [resp EXCEPT ![p] = None]
      BY <2>3 DEF StartComplete, Reply, Begin
    <3> QED BY <1>1, <3>1 DEF TypeInv
  <2>4. CASE Abort(p, r)
    <3>1. Typed
      BY <1>1, <2>4 DEF Abort, Begin, TypeInv
    <3>2. Begins /\ r.op # "complete"
      BY <1>1, <2>4 DEF Abort, Begin, TypeInv
    <3> QED BY <3>1, <3>2
  <2> QED BY <2>1, <2>2, <2>3, <2>4 DEF Send
<1>4. TypeInv'
  <2>1. << >> \in Seq(Stripe) /\ 1 \in Nat
    OBVIOUS
  <2>2. /\ req' \in [Clients -> Requests \cup {None}] /\ at' \in [Clients -> Nat]
        /\ acc' \in [Clients -> Seq(Stripe)] /\ DOMAIN linked' = Clients
        /\ shards' \in [Ids -> Seq(Stripe)] /\ DOMAIN markers' = Ids
    BY <1>1, <1>2, <2>1 DEF TypeInv
  <2> QED BY <1>3, <2>2 DEF TypeInv
<1>5. MarkersBare'
  BY <1>1, <1>2 DEF MarkersBare
<1>6. \A q \in Clients \ {p} :
        /\ pc'[q] = pc[q] /\ req'[q] = req[q] /\ tgt'[q] = tgt[q] /\ data'[q] = data[q]
        /\ idx'[q] = idx[q] /\ at'[q] = at[q] /\ acc'[q] = acc[q] /\ resp'[q] = resp[q]
        /\ linked'[q] = linked[q]
  BY <1>1, <1>2, <1>3 DEF TypeInv
<1>7. req'[p] = r /\ at'[p] = 1 /\ acc'[p] = << >>
  BY <1>1, <1>2 DEF TypeInv
<1>8. ASSUME NEW q \in Clients PROVE ClientInv(q)'
  <2>1. CASE q # p
    <3>1. ClientInv(q)
      BY <1>1
    <3>2. /\ pc'[q] = pc[q] /\ req'[q] = req[q] /\ tgt'[q] = tgt[q] /\ data'[q] = data[q]
          /\ idx'[q] = idx[q] /\ at'[q] = at[q]
      BY <1>6, <2>1
    <3> QED BY <3>1, <3>2 DEF ClientInv, AtPlace, PutTarget, DelTarget, Position, Busy, Count,
                              Item, PartsOf
  <2>2. CASE q = p
    <3>1. r.list # None => Len(r.list) \in Nat
      BY PartFacts
    <3>2. AtPlace(p)' /\ PutTarget(p)' /\ DelTarget(p)'
      BY <1>3, <1>7 DEF AtPlace, PutTarget, DelTarget, Busy, PutPlaces, DelPlaces
    <3>3. Position(p)'
      BY <1>3, <1>7, <3>1 DEF Position, Count
    <3> QED BY <2>2, <3>2, <3>3 DEF ClientInv
  <2> QED BY <2>1, <2>2
<1>9. pc'[p] # "idle" /\ (r.op = "complete" => pc'[p] \in {"part", "done"})
  BY <1>3
<1> QED BY <1>2, <1>3, <1>4, <1>5, <1>6, <1>7, <1>8, <1>9

\* A request that touches nothing of the promise leaves it as it is.
LEMMA SendHarmless ==
  ASSUME Inv, NEW p \in Clients, NEW r \in Requests, Send(p, r), debt # None,
         ~Touches(r, debt.ids), debt' = [debt EXCEPT !.clean = FALSE]
  PROVE  Inv'
<1>1. Basis /\ r.op # "complete"
  BY DEF Inv, Touches
<1>2. /\ pc'[p] # "idle" /\ req'[p] = r /\ UNCHANGED <<shards, markers>>
      /\ \A q \in Clients \ {p} :
           /\ pc'[q] = pc[q] /\ req'[q] = req[q] /\ tgt'[q] = tgt[q] /\ data'[q] = data[q]
           /\ idx'[q] = idx[q] /\ at'[q] = at[q] /\ acc'[q] = acc[q] /\ linked'[q] = linked[q]
      /\ TypeInv' /\ MarkersBare' /\ \A q \in Clients : ClientInv(q)'
  BY <1>1, SendBasics
<1>3. debt = [by |-> debt.by, ids |-> debt.ids, parts |-> debt.parts, clean |-> debt.clean]
  BY <1>1 DEF Basis, DebtShape
<1>4. debt' = [by |-> debt.by, ids |-> debt.ids, parts |-> debt.parts, clean |-> FALSE]
  BY <1>3
<1>5. debt'.by = debt.by /\ debt'.ids = debt.ids /\ debt'.parts = debt.parts /\ debt'.clean = FALSE
  BY <1>4
<1>6. \A q \in Clients : Owning(q)' => q # p /\ Owning(q)
  BY <1>1, <1>2, <1>5 DEF Owning
<1>7. debt' = [by |-> debt'.by, ids |-> debt'.ids, parts |-> debt'.parts, clean |-> debt'.clean]
  BY <1>4, <1>5
<1>8. DebtShape'
  BY <1>1, <1>5, <1>7 DEF Basis, DebtShape
<1>9. DebtAlone'
  <2> SUFFICES ASSUME NEW q \in Clients, debt' # None
               PROVE  /\ Busy(q)' => ~Touches(req'[q], debt'.ids) \/ Owning(q)'
                      /\ Owning(q)' => debt'.ids = PartsOf(req'[q])
    BY DEF DebtAlone, Touches, PartsOf
  <2>1. CASE q = p
    BY <1>2, <1>5, <1>6, <2>1
  <2>2. CASE q # p
    <3>1. (Busy(q)' <=> Busy(q)) /\ (Owning(q)' <=> Owning(q))
      BY <1>2, <1>5, <2>2 DEF Busy, Owning
    <3> QED BY <1>1, <1>2, <1>5, <2>2, <3>1 DEF Basis, DebtAlone
  <2> QED BY <2>1, <2>2
<1>10. (Kept(debt) => Kept(debt)') /\ (Assembled(debt.parts) => Assembled(debt.parts)')
  BY <1>2, <1>5 DEF Kept, Assembled
<1>11. EarlyKept'
  BY <1>2, <1>6, <1>10 DEF Inv, EarlyKept
<1>12. Safe'
  <2> SUFFICES ASSUME "read" \notin Failures PROVE Safe'
    BY DEF Safe
  <2>1. ASSUME NEW q \in Clients, Owning(q)' PROVE Phase(q)'
    <3>1. q # p /\ Phase(q)
      BY <1>6, <2>1 DEF Inv, Safe
    <3>2. Joined(acc[q], debt.parts, at[q] - 1) => Joined(acc[q], debt.parts, at[q] - 1)'
      BY <1>2, <1>5, <3>1
    <3>3. Joined(data[q], debt.parts, Len(debt.parts)) => Joined(data[q], debt.parts, Len(debt.parts))'
      BY <1>2, <1>5, <3>1
    <3>4. Written(q) => Written(q)'
      BY <1>2, <3>1 DEF Written
    <3> QED BY <1>2, <1>5, <1>10, <3>1, <3>2, <3>3, <3>4 DEF Phase
  <2> QED BY <1>10, <2>1 DEF Inv, Safe
<1>13. Clean'
  BY <1>5 DEF Clean
<1> QED BY <1>2, <1>8, <1>9, <1>11, <1>12, <1>13 DEF Inv, Basis

\* A complete begins and its parts are promised.
LEMMA SendPromise ==
  ASSUME Inv, NEW p \in Clients, NEW r \in Requests, Send(p, r), r.op = "complete", r.list # None,
         debt' = Promise(p, r), debt' # None
  PROVE  Inv'
<1> DEFINE ids == PartsOf(r)
           parts == [i \in DOMAIN ids |-> shards[ids[i]]]
<1>1. Basis
  BY DEF Inv
<1>2. /\ pc'[p] = "part" /\ req'[p] = r /\ at'[p] = 1 /\ acc'[p] = << >> /\ UNCHANGED <<shards, markers>>
      /\ \A q \in Clients \ {p} : pc'[q] = pc[q] /\ req'[q] = req[q]
      /\ TypeInv' /\ MarkersBare' /\ \A q \in Clients : ClientInv(q)'
  BY <1>1, SendBasics
<1>3. /\ \A i \in DOMAIN ids : Intact(ids[i])
      /\ \A q \in Clients \ {p} : Busy(q) => ~Touches(req[q], ids)
      /\ debt' = [by |-> p, ids |-> ids, parts |-> parts, clean |-> \A q \in Clients \ {p} : ~Busy(q)]
  BY DEF Promise
<1>4. /\ debt'.by = p /\ debt'.ids = ids /\ debt'.parts = parts
      /\ debt'.clean = (\A q \in Clients \ {p} : ~Busy(q))
  BY <1>3
<1>5. /\ Len(r.list) \in Nat /\ DOMAIN ids = 1 .. Len(r.list)
      /\ \A i \in DOMAIN ids : ids[i] \in Ids /\ ids[i] # ObjectID /\ \A u : ids[i] # UploadMarker(u)
  BY PartFacts
<1>6. debt' = [by |-> debt'.by, ids |-> debt'.ids, parts |-> debt'.parts, clean |-> debt'.clean]
  BY <1>3, <1>4
<1>7. DebtShape'
  <2>1. DOMAIN parts = 1 .. Len(r.list) /\ Len(parts) = Len(r.list)
    BY <1>5
  <2>2. ASSUME NEW i \in DOMAIN ids
        PROVE  /\ parts[i] \in Seq(Stripe) /\ parts[i] # << >>
               /\ \A j \in DOMAIN parts[i] : parts[i][j] \notin Bad
    <3>1. parts[i] = shards[ids[i]] /\ Intact(ids[i]) /\ shards[ids[i]] \in Seq(Stripe)
      BY <1>1, <1>3, <1>5 DEF Basis, TypeInv
    <3> QED BY <3>1 DEF Intact, Stripes
  <2> HIDE DEF ids, parts
  <2> QED BY <1>4, <1>5, <1>6, <2>1, <2>2 DEF DebtShape
<1>8. \A q \in Clients : Owning(q)' <=> q = p
  BY <1>2, <1>4 DEF Owning
<1>9. DebtAlone'
  <2> SUFFICES ASSUME NEW q \in Clients
               PROVE  /\ Busy(q)' => ~Touches(req'[q], debt'.ids) \/ Owning(q)'
                      /\ Owning(q)' => debt'.ids = PartsOf(req'[q])
    BY DEF DebtAlone, Touches, PartsOf
  <2>1. CASE q = p
    BY <1>2, <1>4, <1>8, <2>1
  <2>2. CASE q # p
    BY <1>2, <1>3, <1>4, <1>8, <2>2 DEF Busy
  <2> QED BY <2>1, <2>2
<1>10. Kept(debt)'
  BY <1>2, <1>4 DEF Kept
<1>11. EarlyKept'
  BY <1>10 DEF EarlyKept
<1>12. Phase(p)'
  <2>1. Joined(<< >>, parts, 0)
    <3> DEFINE ends == [i \in 0 .. 0 |-> 0]
    <3>1. Len(<< >>) = 0 /\ 1 .. 0 = {}
      OBVIOUS
    <3>2. ends \in [0 .. 0 -> 0 .. Len(<< >>)] /\ ends[0] = 0
      BY <3>1
    <3> HIDE DEF ends, parts
    <3> QED BY <3>1, <3>2 DEF Joined
  <2>2. Joined(acc[p], debt.parts, at[p] - 1)'
    <3>1. acc'[p] = << >> /\ debt'.parts = parts /\ at'[p] - 1 = 0
      BY <1>2, <1>4
    <3> HIDE DEF parts
    <3> QED BY <2>1, <3>1
  <2> QED BY <1>2, <2>2 DEF Phase, PutPlaces, DelPlaces, LatePlaces
<1>13. Safe'
  BY <1>8, <1>10, <1>12 DEF Safe
<1>14. Clean'
  BY <1>2, <1>4, <1>8 DEF Clean, Undisturbed, Busy, LatePlaces, DelPlaces
<1> QED BY <1>2, <1>7, <1>9, <1>11, <1>13, <1>14 DEF Inv, Basis

\* Every request keeps the invariant when it begins.
LEMMA SendStep ==
  ASSUME Inv, NEW p \in Clients, NEW r \in Requests, Send(p, r)
  PROVE  Inv'
<1>1. CASE debt' = None
  <2>1. TypeInv' /\ MarkersBare' /\ \A q \in Clients : ClientInv(q)'
    BY SendBasics DEF Inv
  <2> QED BY <1>1, <2>1 DEF Inv, Basis, DebtShape, DebtAlone, EarlyKept, Safe, Clean, Owning
<1>2. CASE debt' # None
  <2>1. CASE r.op = "complete" /\ r.list # None
    BY <1>2, <2>1, SendPromise DEF Send, Note
  <2>2. CASE ~(r.op = "complete" /\ r.list # None)
    <3>1. debt # None /\ ~Touches(r, debt.ids) /\ debt' = [debt EXCEPT !.clean = FALSE]
      BY <1>2, <2>2 DEF Send, Note
    <3> QED BY <3>1, SendHarmless
  <2> QED BY <2>1, <2>2
<1> QED BY <1>1, <1>2

\* After a crash nobody works on the promise and the files are as they were.
LEMMA CrashStep ==
  ASSUME Inv, Crash
  PROVE  Inv'
<1> USE DEF Crash, Forget
<1>1. TypeInv' /\ MarkersBare'
  BY DEF Inv, Basis, TypeInv, MarkersBare
<1>2. DebtShape' /\ DebtAlone'
  BY DEF Inv, Basis, DebtShape, DebtAlone, Owning, Busy
<1>3. \A p \in Clients : ClientInv(p)'
  BY DEF ClientInv, AtPlace, PutTarget, DelTarget, Position, Busy, PutPlaces, DelPlaces
<1>4. Safe'
  BY DEF Inv, Safe, Owning, Kept, Assembled
<1>5. EarlyKept' /\ Clean'
  BY DEF EarlyKept, Clean, Owning
<1> QED BY <1>1, <1>2, <1>3, <1>4, <1>5 DEF Inv, Basis

-----------------------------------------------------------------------------
(* Steps that leave the shards alone.                                      *)

\* What such a step must show.
LEMMA QuietStep ==
  ASSUME Inv, NEW p \in Clients, Moves(p), UNCHANGED shards, Writes(p), TypeInv', ClientInv(p)',
         Owning(p) => /\ pc'[p] \in EarlyPlaces => pc[p] \in EarlyPlaces
                      /\ "read" \notin Failures => Phase(p)'
                      /\ debt' = debt /\ debt.clean /\ Undisturbed(p) => Undisturbed(p)'
  PROVE  Inv'
<1>1. Basis'
  <2>1. MarkersBare'
    BY DEF Inv, Basis, MarkersBare
  <2> QED BY <2>1, BasisStep DEF Inv
<1>2. CASE ~Owning(p)
  BY <1>1, <1>2, OtherStep
<1>3. CASE debt' = None
  BY <1>1, <1>3 DEF Inv, EarlyKept, Safe, Clean, Owning
<1>4. CASE Owning(p) /\ debt' # None
  <2>1. debt # None
    BY <1>4 DEF Owning
  <2>2. (Kept(debt) => Kept(debt)') /\ (Assembled(debt.parts) => Assembled(debt.parts)')
    BY <1>4, <2>1, KeptFrame, AssembledFrame DEF Inv
  <2>3. pc'[p] \in EarlyPlaces => Kept(debt)'
    BY <1>4, <2>2 DEF Inv, EarlyKept
  <2>4. "read" \notin Failures => (Kept(debt) \/ Assembled(debt.parts))' /\ Phase(p)'
    BY <1>4, <2>1, <2>2 DEF Inv, Safe
  <2>5. debt'.clean => Undisturbed(p)'
    BY <1>4, SameDebt DEF Inv, Clean
  <2> QED BY <1>1, <1>4, <2>3, <2>4, <2>5, OwnerStep
<1> QED BY <1>2, <1>3, <1>4

\* An answer other than 200.
LEMMA ErrorStep ==
  ASSUME Inv, NEW p \in Clients, Moves(p), UNCHANGED shards, Writes(p), TypeInv',
         pc'[p] = "done", resp'[p] # Answer(200) \/ req[p].op # "complete"
  PROVE  Inv'
<1>1. req[p] \in Requests /\ req' = req
  BY DEF Inv, Basis, ClientInv, AtPlace, Moves, Busy
<1>2. ClientInv(p)'
  BY <1>1 DEF ClientInv, AtPlace, PutTarget, DelTarget, Position, Busy, PutPlaces, DelPlaces
<1>3. Phase(p)' /\ pc'[p] \notin EarlyPlaces
  BY DEF Phase, EarlyPlaces, LatePlaces, PutPlaces, DelPlaces
<1>4. ASSUME Owning(p), Undisturbed(p) PROVE Undisturbed(p)'
  <2>1. \A q \in Clients \ {p} : ~Busy(q)'
    BY <1>4 DEF Undisturbed, Moves, Busy
  <2>2. resp'[p] # Answer(200)
    BY <1>4 DEF Owning
  <2> QED BY <2>1, <2>2 DEF Undisturbed, LatePlaces, DelPlaces, Answer
<1> QED BY <1>2, <1>3, <1>4, QuietStep

\* Facts about a complete under way.
LEMMA CompleteFacts ==
  ASSUME Inv, NEW p \in Clients, Busy(p), req[p].op = "complete"
  PROVE  /\ req[p] \in Requests /\ req[p].list # None /\ Count(p) \in Nat
         /\ DOMAIN PartsOf(req[p]) = 1 .. Count(p)
         /\ Owning(p) => /\ debt.ids = PartsOf(req[p]) /\ Len(debt.parts) = Count(p)
                         /\ DOMAIN debt.parts = 1 .. Count(p)
<1>1. req[p] \in Requests /\ req[p].list # None
  BY DEF Inv, Basis, ClientInv, AtPlace, Busy
<1>2. Count(p) \in Nat /\ DOMAIN PartsOf(req[p]) = 1 .. Count(p)
  BY <1>1, PartFacts DEF Count
<1>3. ASSUME Owning(p)
      PROVE  debt.ids = PartsOf(req[p]) /\ Len(debt.parts) = Count(p) /\ DOMAIN debt.parts = 1 .. Count(p)
  <2>1. /\ debt.ids = PartsOf(req[p]) /\ DOMAIN debt.ids = DOMAIN debt.parts
        /\ Len(debt.parts) \in Nat /\ DOMAIN debt.parts = 1 .. Len(debt.parts)
    BY <1>3 DEF Inv, Basis, DebtAlone, DebtShape, Owning
  <2>2. 1 .. Len(debt.parts) = 1 .. Count(p)
    BY <1>2, <2>1
  <2>3. Len(debt.parts) = Count(p)
    <3> DEFINE m == Len(debt.parts)
               n == Count(p)
    <3>1. m \in Nat /\ n \in Nat /\ 1 .. m = 1 .. n
      BY <1>2, <2>1, <2>2
    <3> HIDE DEF m, n
    <3>2. m = n
      <4>1. m \in 1 .. m => m \in 1 .. n
        BY <3>1
      <4>2. n \in 1 .. n => n \in 1 .. m
        BY <3>1
      <4> QED BY <3>1, <4>1, <4>2
    <3> QED BY <3>2 DEF m, n
  <2> QED BY <2>1, <2>2, <2>3
<1> QED BY <1>1, <1>2, <1>3

\* The walk of a part: its number of stripes is known.
LEMMA OpenPartStep ==
  ASSUME Inv, NEW p \in Clients, OpenPart(p)
  PROVE  Inv'
<1> DEFINE id == PartsOf(req[p])[at[p]]
<1>1. /\ TypeInv /\ pc[p] = "part" /\ Busy(p) /\ req[p].op = "complete" /\ at[p] <= Count(p)
      /\ at[p] \in 1 .. Count(p) + 1 /\ ClientInv(p)
  BY DEF OpenPart, Inv, Basis, ClientInv, AtPlace, Position, Busy
<1>2. /\ req[p] \in Requests /\ req[p].list # None /\ Count(p) \in Nat
      /\ Owning(p) => debt.ids = PartsOf(req[p]) /\ Len(debt.parts) = Count(p)
      /\ DOMAIN PartsOf(req[p]) = 1 .. Count(p) /\ at[p] \in 1 .. Count(p)
  BY <1>1, CompleteFacts
<1>3. id \in Ids /\ shards[id] \in Seq(Stripe) /\ Len(shards[id]) \in Nat
  BY <1>1, <1>2, PartFacts, LenProperties DEF TypeInv
<1>4. UNCHANGED <<shards, markers, data, linked, req, at, acc, debt>>
  BY DEF OpenPart, ListObjectShards, Refused, local
<1>5. CASE /\ tgt' = [tgt EXCEPT ![p] = id] /\ idx' = [idx EXCEPT ![p] = Len(shards[id])]
           /\ pc' = [pc EXCEPT ![p] = "partSize"] /\ UNCHANGED resp
  <2> HIDE DEF id
  <2>1. TypeInv'
    BY <1>1, <1>3, <1>4, <1>5 DEF TypeInv, EarlyPlaces
  <2>2. pc'[p] = "partSize" /\ tgt'[p] = id /\ idx'[p] = Len(shards[id])
    BY <1>1, <1>5 DEF TypeInv
  <2>3. Moves(p)
    BY <1>1, <1>4, <1>5, <2>2 DEF Moves, TypeInv
  <2>4. ClientInv(p)'
    <3>1. AtPlace(p)' /\ PutTarget(p)' /\ DelTarget(p)'
      BY <1>1, <1>2, <1>4, <2>2 DEF AtPlace, PutTarget, DelTarget, PutPlaces, DelPlaces
    <3>2. Position(p)'
      <4>1. Count(p)' = Count(p) /\ at' = at /\ req' = req
        BY <1>4 DEF Count
      <4> QED BY <1>2, <2>2, <4>1 DEF Position, id
    <3> QED BY <3>1, <3>2 DEF ClientInv
  <2>5. ASSUME Owning(p), "read" \notin Failures PROVE Phase(p)'
    <3>1. Phase(p) /\ Kept(debt)
      BY <1>1, <2>5 DEF Inv, Safe, EarlyKept, EarlyPlaces, Owning
    <3>2. shards[id] = debt.parts[at[p]]
      BY <1>2, <2>5, <3>1 DEF Kept, id
    <3>3. Joined(acc[p], debt.parts, at[p] - 1)'
      BY <1>1, <1>4, <3>1 DEF Phase
    <3>4. idx'[p] = Len(debt'.parts[at'[p]])
      BY <1>4, <2>2, <3>2
    <3> QED BY <2>2, <3>3, <3>4 DEF Phase, PutPlaces, LatePlaces, DelPlaces
  <2>6. ASSUME Owning(p), Undisturbed(p) PROVE Undisturbed(p)'
    BY <2>2, <2>3, <2>6 DEF Undisturbed, Moves, Busy, LatePlaces, DelPlaces
  <2> QED BY <1>1, <1>4, <2>1, <2>2, <2>3, <2>4, <2>5, <2>6, QuietStep DEF Writes, EarlyPlaces
<1>6. CASE pc' = [pc EXCEPT ![p] = "done"] /\ resp' = [resp EXCEPT ![p] = Answer(500)] /\ UNCHANGED <<tgt, idx>>
  <2>1. TypeInv'
    BY <1>1, <1>4, <1>6 DEF TypeInv
  <2>2. pc'[p] = "done" /\ resp'[p] = Answer(500)
    BY <1>1, <1>6 DEF TypeInv
  <2>3. Moves(p)
    BY <1>1, <1>4, <1>6, <2>2 DEF Moves, TypeInv
  <2>4. Answer(500) # Answer(200)
    BY DEF Answer
  <2> QED BY <1>4, <2>1, <2>2, <2>3, <2>4, ErrorStep DEF Writes
<1> QED BY <1>5, <1>6 DEF OpenPart, ListObjectShards, totalStripes, Refused, Goto, Reply

\* The rest of GetObject: the part is opened, or the complete refused.
LEMMA OpenedPartStep ==
  ASSUME Inv, NEW p \in Clients, OpenedPart(p)
  PROVE  Inv'
<1>1. /\ TypeInv /\ pc[p] = "partSize" /\ Busy(p) /\ req[p].op = "complete" /\ at[p] \in 1 .. Count(p)
      /\ tgt[p] = PartsOf(req[p])[at[p]] /\ req[p] \in Requests /\ req[p].list # None
  BY DEF OpenedPart, Inv, Basis, ClientInv, AtPlace, Position, Busy
<1>2. UNCHANGED <<shards, markers, tgt, data, idx, linked, req, at, acc, debt>>
  BY DEF OpenedPart, local
<1>3. CASE pc' = [pc EXCEPT ![p] = "readPart"] /\ UNCHANGED resp
  <2>1. TypeInv'
    BY <1>1, <1>2, <1>3 DEF TypeInv, EarlyPlaces
  <2>2. pc'[p] = "readPart"
    BY <1>1, <1>3 DEF TypeInv
  <2>3. Moves(p)
    BY <1>1, <1>2, <1>3, <2>2 DEF Moves, TypeInv
  <2>4. ClientInv(p)'
    <3>1. AtPlace(p)' /\ PutTarget(p)' /\ DelTarget(p)'
      BY <1>1, <1>2, <2>2 DEF AtPlace, PutTarget, DelTarget, PutPlaces, DelPlaces
    <3>2. Position(p)'
      BY <1>1, <1>2, <2>2 DEF Position, Count, PartsOf
    <3> QED BY <3>1, <3>2 DEF ClientInv
  <2>5. ASSUME Owning(p), "read" \notin Failures PROVE Phase(p)'
    <3>1. Joined(acc[p], debt.parts, at[p] - 1) /\ idx[p] = Len(debt.parts[at[p]])
      BY <1>1, <2>5 DEF Inv, Safe, Owning, Phase
    <3>2. Joined(acc[p], debt.parts, at[p] - 1)'
      BY <1>2, <3>1
    <3> QED BY <1>2, <2>2, <3>1, <3>2 DEF Phase, PutPlaces, LatePlaces, DelPlaces
  <2>6. ASSUME Owning(p), Undisturbed(p) PROVE Undisturbed(p)'
    BY <2>2, <2>3, <2>6 DEF Undisturbed, Moves, Busy, LatePlaces, DelPlaces
  <2> QED BY <1>1, <1>2, <2>1, <2>2, <2>3, <2>4, <2>5, <2>6, QuietStep DEF Writes, EarlyPlaces
<1>4. CASE pc' = [pc EXCEPT ![p] = "done"] /\ resp' = [resp EXCEPT ![p] = Answer(500)]
  <2>1. TypeInv'
    BY <1>1, <1>2, <1>4 DEF TypeInv
  <2>2. pc'[p] = "done" /\ resp'[p] = Answer(500)
    BY <1>1, <1>4 DEF TypeInv
  <2>3. Moves(p)
    BY <1>1, <1>2, <1>4, <2>2 DEF Moves, TypeInv
  <2>4. Answer(500) # Answer(200)
    BY DEF Answer
  <2> QED BY <1>2, <2>1, <2>2, <2>3, <2>4, ErrorStep DEF Writes
<1> QED BY <1>3, <1>4 DEF OpenedPart, Goto, Reply

\* Reading to the end an object of n sound stripes, of which none changes.
LEMMA WholeRead ==
  ASSUME NEW id, NEW s \in Seq(Stripe), s = shards[id], "read" \notin Failures,
         \A i \in DOMAIN s : s[i] \notin Bad, NEW r \in ReadAll(id, Len(s))
  PROVE  r.bytes = s
<1>1. Len(s) \in Nat /\ DOMAIN s = 1 .. Len(s)
  BY LenProperties
<1>2. PICK m \in 0 .. Len(s) :
        /\ r = [bytes |-> SubSeq(s, 1, m), ok |-> m = Len(s)]
        /\ m = Len(s) \/ s[m + 1] \in Bad
  BY <1>1 DEF ReadAll
<1>3. m # Len(s) => m + 1 \in DOMAIN s
  BY <1>1
<1>4. m = Len(s) /\ SubSeq(s, 1, Len(s)) = s
  BY <1>2, <1>3
<1> QED BY <1>2, <1>4

\* One more part appended.
LEMMA JoinedMore ==
  ASSUME NEW s \in Seq(Stripe), NEW parts, NEW n \in Nat \ {0},
         \A i \in 1 .. n : parts[i] \in Seq(Stripe), Joined(s, parts, n - 1)
  PROVE  Joined(s \o parts[n], parts, n)
<1> DEFINE x == s \o parts[n]
           m == Len(parts[n])
<1>1. Len(s) \in Nat /\ m \in Nat /\ parts[n] \in Seq(Stripe)
  BY LenProperties
<1>2. /\ Len(x) = Len(s) + m
      /\ \A j \in 1 .. Len(s) : x[j] = s[j]
      /\ \A j \in 1 .. m : x[Len(s) + j] = parts[n][j]
  BY <1>1, ConcatProperties
<1>3. PICK ends \in [0 .. n - 1 -> 0 .. Len(s)] :
        /\ ends[0] = 0 /\ ends[n - 1] = Len(s)
        /\ \A i \in 1 .. n - 1 :
             /\ ends[i] = ends[i - 1] + Len(parts[i])
             /\ \A j \in 1 .. Len(parts[i]) : s[ends[i - 1] + j] = parts[i][j]
  BY DEF Joined
<1> DEFINE more == [i \in 0 .. n |-> IF i = n THEN Len(s) + m ELSE ends[i]]
<1> HIDE DEF x, m
<1>4. more \in [0 .. n -> 0 .. Len(x)] /\ more[0] = 0 /\ more[n] = Len(x)
  BY <1>1, <1>2, <1>3
<1>5. ASSUME NEW i \in 1 .. n
      PROVE  /\ more[i] = more[i - 1] + Len(parts[i])
             /\ \A j \in 1 .. Len(parts[i]) : x[more[i - 1] + j] = parts[i][j]
  <2>1. CASE i = n
    <3>1. more[i] = Len(s) + m /\ more[i - 1] = Len(s)
      BY <1>3, <2>1
    <3> QED BY <1>2, <2>1, <3>1 DEF m
  <2>2. CASE i # n
    <3>1. i \in 1 .. n - 1 /\ i \in 0 .. n - 1 /\ i - 1 \in 0 .. n - 1
      BY <2>2
    <3>2. more[i] = ends[i] /\ more[i - 1] = ends[i - 1]
      BY <2>2, <3>1
    <3>3. /\ ends[i] \in Nat /\ ends[i - 1] \in Nat /\ ends[i] <= Len(s)
          /\ ends[i] = ends[i - 1] + Len(parts[i])
      BY <1>1, <1>3, <3>1
    <3> HIDE DEF more
    <3>4. ASSUME NEW j \in 1 .. Len(parts[i]) PROVE x[more[i - 1] + j] = parts[i][j]
      <4>1. s[ends[i - 1] + j] = parts[i][j]
        BY <1>3, <3>1
      <4>2. j \in Int /\ 1 <= j /\ j <= ends[i] - ends[i - 1]
        <5>1. Len(parts[i]) \in Nat
          BY LenProperties
        <5> QED BY <3>3, <5>1
      <4>3. ends[i - 1] + j \in 1 .. Len(s)
        BY <1>1, <3>3, <4>2
      <4> QED BY <1>2, <3>2, <4>1, <4>3
    <3> QED BY <3>2, <3>3, <3>4
  <2> QED BY <2>1, <2>2
<1> HIDE DEF more
<1>6. Joined(x, parts, n)
  BY <1>4, <1>5 DEF Joined
<1> QED BY <1>6 DEF x

\* A part is read whole and appended.
LEMMA ReadPartStep ==
  ASSUME Inv, NEW p \in Clients, ReadPart(p)
  PROVE  Inv'
<1>1. /\ TypeInv /\ pc[p] = "readPart" /\ Busy(p) /\ req[p].op = "complete" /\ at[p] \in 1 .. Count(p)
      /\ tgt[p] = PartsOf(req[p])[at[p]]
  BY DEF ReadPart, Inv, Basis, ClientInv, AtPlace, Position, Busy
<1>2. /\ req[p] \in Requests /\ req[p].list # None /\ Count(p) \in Nat
      /\ Owning(p) => debt.ids = PartsOf(req[p]) /\ Len(debt.parts) = Count(p)
      /\ DOMAIN PartsOf(req[p]) = 1 .. Count(p)
  BY <1>1, CompleteFacts
<1>3. PICK r \in ReadAll(tgt[p], idx[p]) : acc' = [acc EXCEPT ![p] = @ \o r.bytes]
  BY DEF ReadPart
<1>4. /\ pc' = [pc EXCEPT ![p] = "part"] /\ at' = [at EXCEPT ![p] = @ + 1]
      /\ UNCHANGED <<shards, markers, tgt, data, idx, linked, req, debt, resp>>
  BY DEF ReadPart, Step, Goto
<1>5. tgt[p] \in Ids /\ shards[tgt[p]] \in Seq(Stripe) /\ Len(shards[tgt[p]]) \in Nat
  BY <1>1, <1>2, PartFacts, LenProperties DEF TypeInv
<1>6. r.bytes \in Seq(Stripe) /\ acc[p] \in Seq(Stripe) /\ acc[p] \o r.bytes \in Seq(Stripe)
  <2>1. PICK m \in 0 .. Len(shards[tgt[p]]) : r.bytes = SubSeq(shards[tgt[p]], 1, m)
    BY DEF ReadAll
  <2>2. r.bytes \in Seq(Stripe)
    BY <1>5, <2>1, SubSeqProperties, ElementOfSeq
  <2>3. acc[p] \in Seq(Stripe)
    BY <1>1 DEF TypeInv
  <2> QED BY <2>2, <2>3, ConcatProperties
<1>7. pc'[p] = "part" /\ at'[p] = at[p] + 1 /\ acc'[p] = acc[p] \o r.bytes
  BY <1>1, <1>3, <1>4 DEF TypeInv
<1>8. TypeInv'
  <2>1. acc' \in [Clients -> Seq(Stripe)]
    BY <1>1, <1>3, <1>6 DEF TypeInv
  <2>2. at' \in [Clients -> Nat] /\ pc' \in [Clients -> {"idle", "done"} \cup EarlyPlaces \cup LatePlaces]
    BY <1>1, <1>4 DEF TypeInv, EarlyPlaces
  <2> QED BY <1>1, <1>4, <2>1, <2>2 DEF TypeInv
<1>9. Moves(p)
  BY <1>1, <1>3, <1>4, <1>7 DEF Moves, TypeInv
<1>10. ClientInv(p)'
  <2>1. AtPlace(p)' /\ PutTarget(p)' /\ DelTarget(p)'
    BY <1>1, <1>2, <1>4, <1>7 DEF AtPlace, PutTarget, DelTarget, PutPlaces, DelPlaces
  <2>2. Count(p)' = Count(p) /\ at'[p] \in 1 .. Count(p) + 1
    BY <1>1, <1>2, <1>4, <1>7 DEF Count
  <2>3. Position(p)'
    BY <1>7, <2>2 DEF Position
  <2> QED BY <2>1, <2>3 DEF ClientInv
<1>11. ASSUME Owning(p), "read" \notin Failures PROVE Phase(p)'
  <2>1. /\ Kept(debt) /\ Joined(acc[p], debt.parts, at[p] - 1) /\ idx[p] = Len(debt.parts[at[p]])
    BY <1>1, <1>11 DEF Inv, Safe, EarlyKept, EarlyPlaces, Owning, Phase
  <2>2. shards[tgt[p]] = debt.parts[at[p]]
    BY <1>1, <1>2, <1>11, <2>1 DEF Kept
  <2>3. /\ \A i \in DOMAIN debt.parts[at[p]] : debt.parts[at[p]][i] \notin Bad
        /\ \A i \in 1 .. at[p] : debt.parts[i] \in Seq(Stripe)
    <3>1. \A i \in DOMAIN debt.ids : /\ debt.parts[i] \in Seq(Stripe)
                                     /\ \A j \in DOMAIN debt.parts[i] : debt.parts[i][j] \notin Bad
      BY <1>11 DEF Inv, Basis, DebtShape, Owning
    <3>2. \A i \in 1 .. at[p] : i \in DOMAIN debt.ids
      BY <1>1, <1>2, <1>11
    <3>3. at[p] \in DOMAIN debt.ids
      BY <1>1, <1>2, <1>11
    <3> QED BY <3>1, <3>2, <3>3
  <2>4. r.bytes = debt.parts[at[p]]
    BY <1>5, <1>11, <2>1, <2>2, <2>3, WholeRead
  <2>5. Joined(acc[p] \o debt.parts[at[p]], debt.parts, at[p])
    <3>1. at[p] \in Nat \ {0}
      BY <1>1, <1>2
    <3> QED BY <1>6, <2>1, <2>3, <3>1, JoinedMore
  <2>6. at'[p] - 1 = at[p] /\ acc'[p] = acc[p] \o debt.parts[at[p]] /\ debt' = debt
    BY <1>1, <1>4, <1>7, <2>4 DEF TypeInv
  <2>7. Joined(acc[p], debt.parts, at[p] - 1)'
    BY <2>5, <2>6
  <2> QED BY <1>7, <2>7 DEF Phase, PutPlaces, LatePlaces, DelPlaces
<1>12. ASSUME Owning(p), Undisturbed(p) PROVE Undisturbed(p)'
  BY <1>7, <1>9, <1>12 DEF Undisturbed, Moves, Busy, LatePlaces, DelPlaces
<1> QED BY <1>1, <1>4, <1>7, <1>8, <1>9, <1>10, <1>11, <1>12, QuietStep DEF Writes, EarlyPlaces

\* PutObject of the object begins with what was read.
LEMMA StoreObjectStep ==
  ASSUME Inv, NEW p \in Clients, StoreObject(p)
  PROVE  Inv'
<1>1. /\ TypeInv /\ pc[p] = "part" /\ Busy(p) /\ req[p].op = "complete"
      /\ at[p] \in 1 .. Count(p) + 1 /\ at[p] > Count(p)
  BY DEF StoreObject, Inv, Basis, ClientInv, AtPlace, Position, Busy
<1>2. /\ req[p] \in Requests /\ req[p].list # None /\ Count(p) \in Nat
      /\ Owning(p) => Len(debt.parts) = Count(p)
  BY <1>1, CompleteFacts
<1>3. /\ pc' = [pc EXCEPT ![p] = "put"] /\ at' = [at EXCEPT ![p] = 1]
      /\ tgt' = [tgt EXCEPT ![p] = ObjectID] /\ data' = [data EXCEPT ![p] = acc[p]]
      /\ idx' = [idx EXCEPT ![p] = 0]
      /\ UNCHANGED <<shards, markers, linked, req, acc, debt, resp>>
  BY DEF StoreObject, StartPut, Goto
<1>4. /\ pc'[p] = "put" /\ at'[p] = 1 /\ tgt'[p] = ObjectID /\ data'[p] = acc[p] /\ idx'[p] = 0
  BY <1>1, <1>3 DEF TypeInv
<1>5. TypeInv'
  BY <1>1, <1>3 DEF TypeInv, EarlyPlaces, PutPlaces
<1>6. Moves(p)
  BY <1>1, <1>3, <1>4 DEF Moves, TypeInv
<1>7. ClientInv(p)'
  BY <1>1, <1>2, <1>3, <1>4 DEF ClientInv, AtPlace, PutTarget, DelTarget, Position, PutPlaces, DelPlaces
<1>8. ASSUME Owning(p), "read" \notin Failures PROVE Phase(p)'
  <2>1. Joined(acc[p], debt.parts, at[p] - 1)
    BY <1>1, <1>8 DEF Inv, Safe, Owning, Phase
  <2>2. at[p] - 1 = Len(debt.parts) /\ debt' = debt
    BY <1>1, <1>2, <1>3, <1>8
  <2>3. Joined(data[p], debt.parts, Len(debt.parts))'
    BY <1>4, <2>1, <2>2
  <2>4. Written(p)'
    <3>1. acc[p] \in Seq(Stripe) /\ shards[ObjectID] \in Seq(Stripe)
      BY <1>1, UploadsAssumption DEF TypeInv
    <3>2. Len(acc[p]) \in Nat /\ Len(shards[ObjectID]) \in Nat
      BY <3>1, LenProperties
    <3> QED BY <1>3, <1>4, <3>2 DEF Written
  <2> QED BY <1>4, <2>3, <2>4 DEF Phase, PutPlaces, LatePlaces, DelPlaces
<1>9. ASSUME Owning(p), Undisturbed(p) PROVE Undisturbed(p)'
  BY <1>4, <1>6, <1>9 DEF Undisturbed, Moves, Busy, LatePlaces, DelPlaces
<1> QED BY <1>1, <1>3, <1>4, <1>5, <1>6, <1>7, <1>8, <1>9, QuietStep DEF Writes, EarlyPlaces

\* What a step of the deletion must show when nothing disturbs it: n items are
\* gone, the parts are whole or gone but for the one being deleted.
LEMMA StillUndisturbed ==
  ASSUME NEW p \in Clients, Moves(p), Undisturbed(p), pc'[p] \in LatePlaces \cup {"done"},
         NEW n, n = (IF pc'[p] = "done" THEN Count(p) + 1
                     ELSE IF pc'[p] = "cleanup" THEN at'[p] - 1 ELSE at'[p] - 2),
         \A i \in 1 .. n : shards'[Item(req[p], i)] = << >> /\ markers'[Item(req[p], i)] = None,
         \A i \in DOMAIN debt'.ids : \/ shards'[debt'.ids[i]] \in {debt'.parts[i], << >>}
                                     \/ pc'[p] = "delRest" /\ tgt'[p] = debt'.ids[i],
         pc'[p] = "delRest" => /\ Len(shards'[tgt'[p]]) = Len(data'[p])
                               /\ \A i \in DOMAIN data'[p] : data'[p][i] # Mixed,
         pc'[p] = "delMarker" => shards'[tgt'[p]] = << >>
  PROVE  Undisturbed(p)'
<1>1. req' = req /\ \A q \in Clients \ {p} : ~Busy(q)'
  BY DEF Undisturbed, Moves, Busy
<1>2. \A i \in 1 .. n : Gone(Item(req[p], i))'
  BY <1>1 DEF Gone, Item, PartsOf
<1>3. pc'[p] = "done" => GoneTo(p, Count(p) + 1)'
  BY <1>1, <1>2 DEF GoneTo, Count
<1>4. pc'[p] \in LatePlaces => GoneTo(p, IF pc[p] = "cleanup" THEN at[p] - 1 ELSE at[p] - 2)'
  BY <1>2 DEF GoneTo, LatePlaces, DelPlaces
<1> QED BY <1>1, <1>3, <1>4 DEF Undisturbed

\* The next item is deleted, or the complete is answered.
LEMMA CleanupStep ==
  ASSUME Inv, NEW p \in Clients, Cleanup(p)
  PROVE  Inv'
<1>1. /\ TypeInv /\ pc[p] = "cleanup" /\ Busy(p) /\ req[p].op = "complete"
      /\ at[p] \in 1 .. Count(p) + 2
  BY DEF Cleanup, Inv, Basis, ClientInv, AtPlace, Position, Busy
<1>2. req[p] \in Requests /\ req[p].list # None /\ Count(p) \in Nat
  BY <1>1, CompleteFacts
<1>3. at' = [at EXCEPT ![p] = @ + 1] /\ UNCHANGED <<shards, markers, data, idx, linked, req, acc, debt>>
  BY DEF Cleanup, Step
<1>4. at'[p] = at[p] + 1 /\ Count(p)' = Count(p)
  BY <1>1, <1>3 DEF TypeInv, Count
<1>5. ASSUME Owning(p), Undisturbed(p)
      PROVE  /\ \A i \in 1 .. at[p] - 1 : shards'[Item(req[p], i)] = << >> /\ markers'[Item(req[p], i)] = None
             /\ \A i \in DOMAIN debt'.ids : shards'[debt'.ids[i]] \in {debt'.parts[i], << >>}
  <2>1. /\ GoneTo(p, at[p] - 1)
        /\ \A i \in DOMAIN debt.ids : shards[debt.ids[i]] \in {debt.parts[i], << >>}
    BY <1>1, <1>5 DEF Undisturbed, LatePlaces
  <2> QED BY <1>3, <2>1 DEF GoneTo, Gone
<1>6. CASE at[p] > Count(p) + 1
  <2>1. pc' = [pc EXCEPT ![p] = "done"] /\ resp' = [resp EXCEPT ![p] = Answer(200)] /\ UNCHANGED tgt
    BY <1>6 DEF Cleanup, Reply
  <2>2. pc'[p] = "done"
    BY <1>1, <2>1 DEF TypeInv
  <2>3. TypeInv'
    BY <1>1, <1>3, <2>1 DEF TypeInv
  <2>4. Moves(p)
    BY <1>1, <1>3, <2>1, <2>2 DEF Moves, TypeInv
  <2>5. ClientInv(p)'
    BY <1>2, <1>3, <2>2 DEF ClientInv, AtPlace, PutTarget, DelTarget, Position, Busy, PutPlaces, DelPlaces
  <2>6. Phase(p)'
    BY <2>2 DEF Phase, LatePlaces, PutPlaces, DelPlaces
  <2>7. ASSUME Owning(p), Undisturbed(p) PROVE Undisturbed(p)'
    <3>1. at[p] - 1 = Count(p) + 1
      BY <1>1, <1>2, <1>6
    <3> QED BY <1>5, <2>2, <2>4, <2>7, <3>1, StillUndisturbed
  <2> QED BY <1>3, <2>2, <2>3, <2>4, <2>5, <2>6, <2>7, QuietStep DEF Writes, EarlyPlaces, PutPlaces
<1>7. CASE ~(at[p] > Count(p) + 1)
  <2>1. /\ tgt' = [tgt EXCEPT ![p] = IF at[p] <= Count(p) THEN PartsOf(req[p])[at[p]]
                                     ELSE UploadMarker(req[p].upload)]
        /\ pc' = [pc EXCEPT ![p] = "delShards"] /\ UNCHANGED resp
    BY <1>7 DEF Cleanup, Goto
  <2>2. pc'[p] = "delShards" /\ tgt'[p] = Item(req[p], at[p])
    BY <1>1, <2>1 DEF TypeInv, Item, Count
  <2>3. TypeInv'
    BY <1>1, <1>3, <2>1 DEF TypeInv, LatePlaces, DelPlaces
  <2>4. Moves(p)
    BY <1>1, <1>3, <2>1, <2>2 DEF Moves, TypeInv
  <2>5. ClientInv(p)'
    <3>1. AtPlace(p)' /\ PutTarget(p)' /\ Position(p)'
      BY <1>1, <1>2, <1>3, <2>2 DEF AtPlace, PutTarget, Position, PutPlaces, DelPlaces
    <3>2. at'[p] - 1 = at[p] /\ at[p] \in 1 .. Count(p) + 1
      BY <1>1, <1>2, <1>4, <1>7
    <3>3. DelTarget(p)'
      BY <1>1, <1>3, <1>4, <2>2, <3>2 DEF DelTarget, Item, PartsOf
    <3> QED BY <3>1, <3>3 DEF ClientInv
  <2>6. ASSUME Owning(p), "read" \notin Failures PROVE Phase(p)'
    <3>1. Assembled(debt.parts)
      BY <1>1, <2>6 DEF Inv, Safe, Phase, Owning, LatePlaces
    <3>2. Assembled(debt.parts)'
      BY <1>3, <3>1 DEF Assembled
    <3> QED BY <2>2, <3>2 DEF Phase, PutPlaces
  <2>7. ASSUME Owning(p), Undisturbed(p) PROVE Undisturbed(p)'
    <3>1. at'[p] - 2 = at[p] - 1
      BY <1>1, <1>4
    <3> QED BY <1>5, <2>2, <2>4, <2>7, <3>1, StillUndisturbed DEF LatePlaces, DelPlaces
  <2> QED BY <1>3, <2>2, <2>3, <2>4, <2>5, <2>6, <2>7, QuietStep DEF Writes, EarlyPlaces, PutPlaces
<1> QED BY <1>6, <1>7

-----------------------------------------------------------------------------
(* The steps of PutObject.                                                 *)

\* A sequence of stripes with one replaced.
LEMMA PatchedFacts ==
  ASSUME NEW s \in Seq(Stripe), NEW i \in Nat \ {0}, NEW x \in Stripe
  PROVE  /\ Patched(s, i, x) \in Seq(Stripe) /\ Len(Patched(s, i, x)) \in Nat
         /\ i <= Len(Patched(s, i, x)) /\ Len(s) <= Len(Patched(s, i, x))
         /\ Patched(s, i, x)[i] = x
         /\ \A j \in 1 .. Len(s) : j # i => Patched(s, i, x)[j] = s[j]
<1> DEFINE n == IF i > Len(s) THEN i ELSE Len(s)
           f == [j \in 1 .. n |-> IF j = i THEN x ELSE IF j <= Len(s) THEN s[j] ELSE Lost]
<1>1. Len(s) \in Nat /\ \A j \in 1 .. Len(s) : s[j] \in Stripe
  BY LenProperties, ElementOfSeq
<1>2. n \in Nat /\ i <= n /\ Len(s) <= n
  BY <1>1
<1>3. \A j \in 1 .. n : (IF j = i THEN x ELSE IF j <= Len(s) THEN s[j] ELSE Lost) \in Stripe
  BY <1>1 DEF Stripe, Bad
<1>4. f = Patched(s, i, x)
  BY DEF Patched
<1> HIDE DEF n
<1>5. f \in Seq(Stripe) /\ Len(f) = n
  <2>1. f \in Seq(Stripe)
    BY <1>2, <1>3, IsASeq
  <2> QED BY <1>2, <2>1, LenProperties
<1>6. f[i] = x /\ \A j \in 1 .. Len(s) : j # i => f[j] = s[j]
  BY <1>1, <1>2
<1> HIDE DEF f
<1> QED BY <1>2, <1>4, <1>5, <1>6

\* Writing a stripe changes one object, and never an upload's marker.
LEMMA WriteStripe ==
  ASSUME Inv, NEW p \in Clients, pc[p] \in {"put", "putStripe"}, idx[p] < Len(data[p]),
         NEW x \in Stripe, SetStripe(p, x), UNCHANGED markers
  PROVE  /\ shards' \in [Ids -> Seq(Stripe)] /\ Writes(p) /\ MarkersBare'
         /\ tgt[p] \in Ids /\ shards[tgt[p]] \in Seq(Stripe) /\ idx[p] + 1 \in Nat \ {0}
         /\ shards'[tgt[p]] = Patched(shards[tgt[p]], idx[p] + 1, x)
<1>1. Basis /\ pc[p] \in PutPlaces /\ PutTarget(p) /\ AtPlace(p) /\ TypeInv
  BY DEF Inv, Basis, ClientInv, PutPlaces
<1>2. tgt[p] \in Ids /\ shards[tgt[p]] \in Seq(Stripe) /\ idx[p] + 1 \in Nat \ {0}
  BY <1>1, TargetFacts DEF TypeInv
<1>3. Patched(shards[tgt[p]], idx[p] + 1, x) \in Seq(Stripe)
  BY <1>2, PatchedFacts
<1>4. /\ shards' \in [Ids -> Seq(Stripe)] /\ Writes(p)
      /\ shards'[tgt[p]] = Patched(shards[tgt[p]], idx[p] + 1, x)
  BY <1>1, <1>2, <1>3 DEF SetStripe, TypeInv, Writes
<1>5. data[p] # << >>
  BY <1>1 DEF TypeInv
<1>6. \A u : tgt[p] # UploadMarker(u)
  BY <1>1, <1>5, KindsOfIds DEF PutTarget, AtPlace
<1>7. MarkersBare'
  BY <1>4, <1>6 DEF Inv, Basis, MarkersBare, Writes
<1> QED BY <1>2, <1>4, <1>7

\* Writing the object leaves the parts of the complete alone.
LEMMA StoringStep ==
  ASSUME Inv, NEW p \in Clients, Moves(p), Basis', Writes(p), debt' = debt,
         pc[p] \in PutPlaces, pc'[p] \in PutPlaces,
         Owning(p) /\ "read" \notin Failures => Phase(p)'
  PROVE  Inv'
<1>1. CASE ~Owning(p)
  BY <1>1, OtherStep
<1>2. CASE Owning(p)
  <2>1. debt # None /\ debt' # None
    BY <1>2 DEF Owning
  <2>2. tgt[p] = ObjectID
    BY <1>2 DEF Inv, Basis, ClientInv, PutTarget, Owning
  <2>3. \A i \in DOMAIN debt.ids : shards'[debt.ids[i]] = shards[debt.ids[i]]
    BY <2>1, <2>2 DEF Inv, Basis, DebtShape, Writes
  <2>4. Kept(debt)'
    BY <1>2, <2>1, <2>3, KeptFrame DEF Inv, EarlyKept, EarlyPlaces
  <2>5. ASSUME debt'.clean PROVE Undisturbed(p)'
    <3>1. Undisturbed(p)
      BY <1>2, <2>5 DEF Inv, Clean
    <3> QED BY <3>1 DEF Undisturbed, Moves, Busy, PutPlaces, LatePlaces, DelPlaces
  <2> QED BY <1>2, <2>1, <2>4, <2>5, OwnerStep
<1> QED BY <1>1, <1>2

\* A stripe of the object is torn: the ones before it are as written.
LEMMA PutTearStep ==
  ASSUME Inv, NEW p \in Clients, PutTear(p), UNCHANGED <<local, debt>>
  PROVE  Inv'
<1>1. /\ pc[p] = "put" /\ idx[p] < Len(data[p]) /\ TypeInv /\ ClientInv(p) /\ Busy(p)
      /\ UNCHANGED <<markers, tgt, data, idx, req, at, acc, debt, resp>>
      /\ pc' = [pc EXCEPT ![p] = "putStripe"]
      /\ linked' = [Alone(p, "putStripe", {idx[p]}) EXCEPT ![p] = TRUE]
  BY DEF PutTear, Goto, Inv, Basis, Busy, local
<1>2. PICK x \in {Mixed, Broken} : SetStripe(p, x)
  BY DEF PutTear
<1>3. x \in Stripe
  BY DEF Stripe, Bad
<1>4. /\ shards' \in [Ids -> Seq(Stripe)] /\ Writes(p) /\ MarkersBare'
      /\ tgt[p] \in Ids /\ shards[tgt[p]] \in Seq(Stripe) /\ idx[p] + 1 \in Nat \ {0}
      /\ shards'[tgt[p]] = Patched(shards[tgt[p]], idx[p] + 1, x)
  BY <1>1, <1>2, <1>3, WriteStripe
<1>5. pc'[p] = "putStripe"
  BY <1>1 DEF TypeInv
<1>6. DOMAIN linked' = Clients /\ linked'[p] = TRUE
  BY <1>1 DEF Alone
<1>7. Moves(p)
  BY <1>1, <1>5 DEF Moves, TypeInv, Alone
<1>8. TypeInv'
  BY <1>1, <1>4, <1>6 DEF TypeInv, EarlyPlaces, PutPlaces
<1>9. ClientInv(p)'
  BY <1>1, <1>5 DEF ClientInv, AtPlace, PutTarget, DelTarget, Position, Busy, PutPlaces, DelPlaces
<1>10. Basis'
  BY <1>4, <1>7, <1>8, <1>9, BasisStep DEF Inv
<1>11. ASSUME Owning(p), "read" \notin Failures PROVE Phase(p)'
  <2>1. Joined(data[p], debt.parts, Len(debt.parts)) /\ Written(p)
    BY <1>1, <1>11 DEF Inv, Safe, Phase, Owning, PutPlaces
  <2>2. tgt[p] = ObjectID
    BY <1>1, <1>11 DEF ClientInv, PutTarget, PutPlaces, Owning
  <2>3. Joined(data[p], debt.parts, Len(debt.parts))'
    BY <1>1, <2>1
  <2>4. Written(p)'
    <3> DEFINE o == shards[ObjectID]
    <3>1. /\ o \in Seq(Stripe) /\ Len(o) \in Nat /\ idx[p] \in Nat
      BY <1>1, <1>4, <2>2, LenProperties DEF TypeInv
    <3>2. /\ Len(shards'[ObjectID]) \in Nat /\ Len(o) <= Len(shards'[ObjectID])
          /\ \A j \in 1 .. Len(o) : j # idx[p] + 1 => shards'[ObjectID][j] = o[j]
      <4> DEFINE i == idx[p] + 1
      <4>1. shards'[ObjectID] = Patched(o, i, x) /\ i \in Nat \ {0} /\ o \in Seq(Stripe)
        BY <1>4, <2>2
      <4> HIDE DEF i, o
      <4>2. /\ Patched(o, i, x) \in Seq(Stripe) /\ Len(Patched(o, i, x)) \in Nat
            /\ i <= Len(Patched(o, i, x)) /\ Len(o) <= Len(Patched(o, i, x))
            /\ Patched(o, i, x)[i] = x
            /\ \A j \in 1 .. Len(o) : j # i => Patched(o, i, x)[j] = o[j]
        BY <1>3, <4>1, PatchedFacts
      <4> QED BY <4>1, <4>2 DEF i
    <3>3. \A j \in 1 .. idx[p] : j # idx[p] + 1 /\ j \in 1 .. Len(o)
      BY <2>1, <3>1 DEF Written
    <3> QED BY <1>1, <2>1, <3>1, <3>2, <3>3 DEF Written
  <2> QED BY <1>5, <1>6, <2>3, <2>4 DEF Phase, LatePlaces, DelPlaces
<1> QED BY <1>1, <1>4, <1>5, <1>7, <1>10, <1>11, StoringStep DEF PutPlaces

\* The stripe is written: nobody has come between.
LEMMA PutStripeStep ==
  ASSUME Inv, NEW p \in Clients, PutStripe(p), UNCHANGED <<local, debt>>
  PROVE  Inv'
<1>1. /\ pc[p] = "putStripe" /\ idx[p] < Len(data[p]) /\ TypeInv /\ ClientInv(p) /\ Busy(p)
      /\ UNCHANGED <<markers, tgt, data, req, at, acc, debt, resp>>
      /\ pc' = [pc EXCEPT ![p] = "put"] /\ idx' = [idx EXCEPT ![p] = @ + 1]
      /\ linked' = Alone(p, "putStripe", {idx[p]})
  BY DEF PutStripe, Goto, Inv, Basis, ClientInv, AtPlace, Busy, local
<1>2. PICK x \in {data[p][idx[p] + 1], Mixed, Broken} :
        SetStripe(p, x) /\ (x = data[p][idx[p] + 1] \/ Writers(p) # {} \/ ~linked[p])
  BY DEF PutStripe
<1>3. data[p] \in Seq(Stripe) /\ Len(data[p]) \in Nat /\ idx[p] \in Nat
  BY <1>1, LenProperties DEF TypeInv
<1>4. x \in Stripe
  <2>1. data[p][idx[p] + 1] \in Stripe
    BY <1>1, <1>3, ElementOfSeq
  <2> QED BY <1>2, <2>1 DEF Stripe, Bad
<1>5. /\ shards' \in [Ids -> Seq(Stripe)] /\ Writes(p) /\ MarkersBare'
      /\ tgt[p] \in Ids /\ shards[tgt[p]] \in Seq(Stripe) /\ idx[p] + 1 \in Nat \ {0}
      /\ shards'[tgt[p]] = Patched(shards[tgt[p]], idx[p] + 1, x)
  BY <1>1, <1>2, <1>4, WriteStripe
<1>6. pc'[p] = "put" /\ idx'[p] = idx[p] + 1
  BY <1>1 DEF TypeInv
<1>7. Moves(p)
  BY <1>1, <1>6 DEF Moves, TypeInv, Alone
<1>8. TypeInv'
  BY <1>1, <1>3, <1>5 DEF TypeInv, EarlyPlaces, PutPlaces, Alone
<1>9. ClientInv(p)'
  BY <1>1, <1>6 DEF ClientInv, AtPlace, PutTarget, DelTarget, Position, Busy, PutPlaces, DelPlaces
<1>10. Basis'
  BY <1>5, <1>7, <1>8, <1>9, BasisStep DEF Inv
<1>11. ASSUME Owning(p), "read" \notin Failures PROVE Phase(p)'
  <2>1. Joined(data[p], debt.parts, Len(debt.parts)) /\ Written(p) /\ linked[p]
    BY <1>1, <1>11 DEF Inv, Safe, Phase, Owning, PutPlaces
  <2>2. tgt[p] = ObjectID /\ x = data[p][idx[p] + 1]
    <3>1. tgt[p] = ObjectID
      BY <1>1, <1>11 DEF ClientInv, PutTarget, PutPlaces, Owning
    <3>2. ASSUME NEW q \in Clients, q # p, pc[q] = "putStripe" PROVE tgt[q] # ObjectID
      BY <1>11, <3>2, Untouched DEF Inv, Owning, Busy
    <3>3. Writers(p) = {}
      BY <3>1, <3>2 DEF Writers
    <3> QED BY <1>2, <2>1, <3>1, <3>3
  <2>3. Joined(data[p], debt.parts, Len(debt.parts))'
    BY <1>1, <2>1
  <2>4. Written(p)'
    <3> DEFINE o == shards[ObjectID]
    <3>1. o \in Seq(Stripe) /\ Len(o) \in Nat
      BY <1>5, <2>2, LenProperties
    <3>2. /\ Len(shards'[ObjectID]) \in Nat /\ idx[p] + 1 <= Len(shards'[ObjectID])
          /\ shards'[ObjectID][idx[p] + 1] = data[p][idx[p] + 1]
          /\ \A j \in 1 .. Len(o) : j # idx[p] + 1 => shards'[ObjectID][j] = o[j]
      <4> DEFINE i == idx[p] + 1
      <4>1. shards'[ObjectID] = Patched(o, i, x) /\ i \in Nat \ {0} /\ o \in Seq(Stripe)
        BY <1>5, <2>2
      <4> HIDE DEF i, o
      <4>2. /\ Patched(o, i, x) \in Seq(Stripe) /\ Len(Patched(o, i, x)) \in Nat
            /\ i <= Len(Patched(o, i, x)) /\ Len(o) <= Len(Patched(o, i, x))
            /\ Patched(o, i, x)[i] = x
            /\ \A j \in 1 .. Len(o) : j # i => Patched(o, i, x)[j] = o[j]
        BY <1>4, <4>1, PatchedFacts
      <4> QED BY <2>2, <4>1, <4>2 DEF i
    <3>3. \A j \in 1 .. idx[p] + 1 : j = idx[p] + 1 \/ (j \in 1 .. idx[p] /\ j # idx[p] + 1 /\ j \in 1 .. Len(o))
      BY <1>3, <2>1, <3>1 DEF Written
    <3>4. \A j \in 1 .. idx[p] + 1 : shards'[ObjectID][j] = data[p][j]
      BY <2>1, <3>2, <3>3 DEF Written
    <3>5. idx[p] + 1 <= Len(data[p])
      BY <1>1, <1>3
    <3> QED BY <1>1, <1>6, <3>2, <3>4, <3>5 DEF Written
  <2> QED BY <1>6, <2>3, <2>4 DEF Phase, LatePlaces, DelPlaces
<1> QED BY <1>1, <1>5, <1>6, <1>7, <1>10, <1>11, StoringStep DEF PutPlaces

\* The marker is created when every stripe is written.
LEMMA MarkerCreateStep ==
  ASSUME Inv, NEW p \in Clients, MarkerCreate(p), UNCHANGED <<local, debt>>
  PROVE  Inv'
<1>1. /\ pc[p] = "put" /\ idx[p] = Len(data[p]) /\ TypeInv /\ ClientInv(p) /\ Busy(p)
      /\ UNCHANGED <<shards, tgt, data, idx, req, at, acc, debt, resp>>
      /\ pc' = [pc EXCEPT ![p] = "putMarker"] /\ markers' = [markers EXCEPT ![tgt[p]] = Torn]
      /\ linked' = [linked EXCEPT ![p] = TRUE]
  BY DEF MarkerCreate, Goto, Inv, Basis, Busy, local
<1>2. pc'[p] = "putMarker"
  BY <1>1 DEF TypeInv
<1>3. Moves(p) /\ Writes(p)
  BY <1>1, <1>2 DEF Moves, Writes, TypeInv
<1>4. TypeInv'
  BY <1>1 DEF TypeInv, EarlyPlaces, PutPlaces
<1>5. ClientInv(p)'
  BY <1>1, <1>2 DEF ClientInv, AtPlace, PutTarget, DelTarget, Position, Busy, PutPlaces, DelPlaces
<1>6. Basis'
  <2>1. MarkersBare'
    BY <1>1 DEF Inv, Basis, MarkersBare
  <2> QED BY <1>3, <1>4, <1>5, <2>1, BasisStep DEF Inv
<1>7. ASSUME Owning(p), "read" \notin Failures PROVE Phase(p)'
  <2>1. Joined(data[p], debt.parts, Len(debt.parts)) /\ Written(p)
    BY <1>1, <1>7 DEF Inv, Safe, Phase, Owning, PutPlaces
  <2>2. Joined(data[p], debt.parts, Len(debt.parts))' /\ Written(p)'
    BY <1>1, <2>1 DEF Written
  <2> QED BY <1>1, <1>2, <2>2 DEF Phase, LatePlaces, DelPlaces
<1> QED BY <1>1, <1>2, <1>3, <1>6, <1>7, StoringStep DEF PutPlaces

\* An object that begins with the parts joined is assembled.
LEMMA AssembledNow ==
  ASSUME NEW s, NEW parts, NEW n \in Nat, n = Len(parts), Joined(s, parts, n),
         \A i \in 1 .. n : parts[i] \in Seq(Stripe),
         Len(s) \in Nat, Len(shards[ObjectID]) \in Nat, Len(s) <= Len(shards[ObjectID]),
         \A j \in 1 .. Len(s) : shards[ObjectID][j] = s[j]
  PROVE  Assembled(parts)
<1> DEFINE o == shards[ObjectID]
<1>1. PICK ends \in [0 .. n -> 0 .. Len(s)] :
        /\ ends[0] = 0
        /\ \A i \in 1 .. n :
             /\ ends[i] = ends[i - 1] + Len(parts[i])
             /\ \A j \in 1 .. Len(parts[i]) : s[ends[i - 1] + j] = parts[i][j]
  BY DEF Joined
<1>2. ends \in [0 .. n -> 0 .. Len(o)]
  BY <1>1
<1>3. ASSUME NEW i \in 1 .. n, NEW j \in 1 .. Len(parts[i]) PROVE o[ends[i - 1] + j] = parts[i][j]
  <2>1. /\ ends[i] \in 0 .. Len(s) /\ ends[i - 1] \in 0 .. Len(s) /\ Len(parts[i]) \in Nat
        /\ ends[i] = ends[i - 1] + Len(parts[i])
    <3>1. i \in 0 .. n /\ i - 1 \in 0 .. n
      OBVIOUS
    <3>2. Len(parts[i]) \in Nat
      BY LenProperties
    <3> QED BY <1>1, <3>1, <3>2
  <2>2. ends[i - 1] + j \in 1 .. Len(s)
    BY <2>1
  <2> QED BY <1>1, <2>2
<1> HIDE DEF o
<1> QED BY <1>1, <1>2, <1>3 DEF Assembled, o

\* The marker is written: PutObject succeeds, or fails when a DELETE has removed
\* the marker.
LEMMA MarkerWriteStep ==
  ASSUME Inv, NEW p \in Clients, MarkerWrite(p, Stored(p), Refused(p)), UNCHANGED <<local, debt>>
  PROVE  Inv'
<1>1. /\ pc[p] = "putMarker" /\ TypeInv /\ ClientInv(p) /\ Busy(p)
      /\ UNCHANGED <<shards, tgt, data, idx, linked, req, at, acc, debt>>
      /\ markers' = IF linked[p] THEN [markers EXCEPT ![tgt[p]] = Len(data[p])] ELSE markers
      /\ \/ /\ pc' = [pc EXCEPT ![p] = "done"]
            /\ \/ resp' = [resp EXCEPT ![p] = Answer(500)]
               \/ req[p].op # "complete" /\ resp' = [resp EXCEPT ![p] = Answer(200)]
         \/ pc' = [pc EXCEPT ![p] = "cleanup"] /\ resp' = resp /\ req[p].op = "complete"
  BY DEF MarkerWrite, Stored, Refused, Goto, Reply, Inv, Basis, Busy, local
<1>2. Writes(p)
  BY <1>1 DEF Writes, TypeInv
<1>3. TypeInv'
  BY <1>1 DEF TypeInv, LatePlaces
<1>4. CASE /\ pc' = [pc EXCEPT ![p] = "done"]
           /\ \/ resp' = [resp EXCEPT ![p] = Answer(500)]
              \/ req[p].op # "complete" /\ resp' = [resp EXCEPT ![p] = Answer(200)]
  <2>1. pc'[p] = "done" /\ (resp'[p] = Answer(500) \/ req[p].op # "complete")
    BY <1>1, <1>4 DEF TypeInv
  <2>2. Moves(p)
    BY <1>1, <1>4, <2>1 DEF Moves, TypeInv
  <2>3. Answer(500) # Answer(200)
    BY DEF Answer
  <2> QED BY <1>1, <1>2, <1>3, <2>1, <2>2, <2>3, ErrorStep
<1>5. CASE pc' = [pc EXCEPT ![p] = "cleanup"] /\ resp' = resp /\ req[p].op = "complete"
  <2>1. pc'[p] = "cleanup"
    BY <1>1, <1>5 DEF TypeInv
  <2>2. Moves(p)
    BY <1>1, <1>5, <2>1 DEF Moves, TypeInv
  <2>3. /\ req[p] \in Requests /\ req[p].list # None /\ Count(p) \in Nat /\ at[p] = 1
        /\ Owning(p) => debt.ids = PartsOf(req[p]) /\ Len(debt.parts) = Count(p)
        /\ DOMAIN PartsOf(req[p]) = 1 .. Count(p)
    BY <1>1, <1>5, CompleteFacts DEF ClientInv, PutTarget, PutPlaces
  <2>4. ClientInv(p)'
    <3>1. Count(p)' = Count(p) /\ at'[p] \in 1 .. Count(p) + 2
      BY <1>1, <2>3 DEF Count
    <3> QED BY <1>1, <1>5, <2>1, <2>3, <3>1
            DEF ClientInv, AtPlace, PutTarget, DelTarget, Position, PutPlaces, DelPlaces
  <2>5. ASSUME Owning(p), "read" \notin Failures PROVE Phase(p)'
    <3>1. Joined(data[p], debt.parts, Len(debt.parts)) /\ Written(p) /\ idx[p] = Len(data[p])
      BY <1>1, <2>5 DEF Inv, Safe, Phase, Owning, PutPlaces
    <3>2. data[p] \in Seq(Stripe) /\ shards[ObjectID] \in Seq(Stripe)
      BY <1>1, UploadsAssumption DEF TypeInv
    <3>3. Len(data[p]) \in Nat /\ Len(shards[ObjectID]) \in Nat
      BY <3>2, LenProperties
    <3>4. Len(debt.parts) \in Nat /\ \A i \in 1 .. Len(debt.parts) : debt.parts[i] \in Seq(Stripe)
      BY <2>3, <2>5 DEF Inv, Basis, DebtShape, Owning
    <3>5. Assembled(debt.parts)
      BY <3>1, <3>3, <3>4, AssembledNow DEF Written
    <3>6. Assembled(debt.parts)'
      BY <1>1, <3>5 DEF Assembled
    <3> QED BY <2>1, <3>6 DEF Phase, PutPlaces
  <2>6. ASSUME Owning(p), Undisturbed(p) PROVE Undisturbed(p)'
    <3>1. \A i \in DOMAIN debt'.ids : shards'[debt'.ids[i]] = debt'.parts[i]
      BY <1>1, <2>6 DEF Inv, EarlyKept, EarlyPlaces, PutPlaces, Kept
    <3>2. at'[p] - 1 = 0 /\ 1 .. 0 = {}
      BY <1>1, <2>3
    <3> QED BY <2>1, <2>2, <2>6, <3>1, <3>2, StillUndisturbed DEF LatePlaces
  <2> QED BY <1>1, <1>2, <1>3, <2>1, <2>2, <2>4, <2>5, <2>6, QuietStep DEF EarlyPlaces, PutPlaces
<1> QED BY <1>1, <1>4, <1>5

\* PutObject fails and says so.
LEMMA PutFailsStep ==
  ASSUME Inv, NEW p \in Clients, PutFails(p, Refused(p)), UNCHANGED <<local, debt>>
  PROVE  Inv'
<1>1. /\ pc[p] \in PutPlaces /\ TypeInv /\ Busy(p)
      /\ UNCHANGED <<shards, markers, tgt, data, idx, linked, req, at, acc, debt>>
      /\ pc' = [pc EXCEPT ![p] = "done"] /\ resp' = [resp EXCEPT ![p] = Answer(500)]
  BY DEF PutFails, Refused, Reply, Inv, Basis, Busy, PutPlaces, local
<1>2. TypeInv'
  BY <1>1 DEF TypeInv
<1>3. pc'[p] = "done" /\ resp'[p] = Answer(500)
  BY <1>1 DEF TypeInv
<1>4. Moves(p) /\ Writes(p)
  BY <1>1, <1>3 DEF Moves, Writes, TypeInv
<1>5. Answer(500) # Answer(200)
  BY DEF Answer
<1> QED BY <1>1, <1>2, <1>3, <1>4, <1>5, ErrorStep

-----------------------------------------------------------------------------
(* The steps of DeleteObject.                                              *)

\* Some stripes of a sequence lost.
LEMMA LosingIsSeq ==
  ASSUME NEW s \in Seq(Stripe), NEW I
  PROVE  /\ [i \in DOMAIN s |-> IF i \in I THEN Lost ELSE s[i]] \in Seq(Stripe)
         /\ Len([i \in DOMAIN s |-> IF i \in I THEN Lost ELSE s[i]]) = Len(s)
         /\ s = << >> => [i \in DOMAIN s |-> IF i \in I THEN Lost ELSE s[i]] = << >>
<1> DEFINE f == [i \in 1 .. Len(s) |-> IF i \in I THEN Lost ELSE s[i]]
<1>1. Len(s) \in Nat /\ DOMAIN s = 1 .. Len(s) /\ \A j \in 1 .. Len(s) : s[j] \in Stripe
  BY LenProperties, ElementOfSeq
<1>2. \A i \in 1 .. Len(s) : (IF i \in I THEN Lost ELSE s[i]) \in Stripe
  BY <1>1 DEF Stripe, Bad
<1>3. f \in Seq(Stripe) /\ DOMAIN f = 1 .. Len(s)
  BY <1>1, <1>2, IsASeq
<1> HIDE DEF f
<1>4. Len(f) = Len(s)
  BY <1>1, <1>3, LenProperties
<1>5. s = << >> => f = << >>
  BY <1>3, <1>4, EmptySeq
<1> QED BY <1>1, <1>3, <1>4, <1>5 DEF f

\* Deleting leaves the assembled object alone.
LEMMA DeletingStep ==
  ASSUME Inv, NEW p \in Clients, Moves(p), Basis', Writes(p), debt' = debt,
         pc[p] \in DelPlaces, pc'[p] \in DelPlaces,
         Owning(p) /\ Undisturbed(p) => Undisturbed(p)'
  PROVE  Inv'
<1>1. CASE ~Owning(p)
  BY <1>1, OtherStep
<1>2. CASE Owning(p)
  <2>1. debt # None /\ debt' # None /\ req[p].op = "complete" /\ Busy(p)
    BY <1>2 DEF Owning, Moves
  <2>2. tgt[p] # ObjectID
    <3>1. /\ req[p] \in Requests /\ req[p].list # None
          /\ at[p] - 1 \in 1 .. Count(p) + 1 /\ tgt[p] = Item(req[p], at[p] - 1)
      BY <2>1, CompleteFacts DEF Inv, Basis, ClientInv, DelTarget
    <3> QED BY <2>1, <3>1, ItemFacts DEF Count
  <2>3. shards'[ObjectID] = shards[ObjectID]
    BY <2>2, UploadsAssumption DEF Writes
  <2>4. ASSUME "read" \notin Failures PROVE Assembled(debt.parts)' /\ Phase(p)'
    <3>1. Assembled(debt.parts)
      BY <1>2, <2>1, <2>4 DEF Inv, Safe, Phase, LatePlaces
    <3>2. Assembled(debt.parts)'
      BY <2>1, <2>3, <3>1, AssembledFrame DEF Inv
    <3> QED BY <3>2 DEF Phase, DelPlaces, PutPlaces
  <2>5. debt'.clean => Undisturbed(p)'
    BY <1>2 DEF Inv, Clean
  <2>6. pc'[p] \notin EarlyPlaces
    BY DEF DelPlaces, EarlyPlaces, PutPlaces
  <2> QED BY <1>2, <2>1, <2>4, <2>5, <2>6, OwnerStep
<1> QED BY <1>1, <1>2

\* What DeleteObject works on, and what is known of it.
LEMMA DeletingFacts ==
  ASSUME Inv, NEW p \in Clients, pc[p] \in DelPlaces
  PROVE  /\ TypeInv /\ ClientInv(p) /\ Busy(p) /\ tgt[p] \in Ids /\ req[p] \in Requests
         /\ shards[tgt[p]] \in Seq(Stripe) /\ Len(shards[tgt[p]]) \in Nat
         /\ data[p] \in Seq(Stripe) /\ Len(data[p]) \in Nat
         /\ Owning(p) => /\ req[p].op = "complete" /\ req[p].list # None /\ Count(p) \in Nat
                         /\ at[p] - 1 \in 1 .. Count(p) + 1 /\ at[p] \in Nat
                         /\ tgt[p] = Item(req[p], at[p] - 1) /\ debt.ids = PartsOf(req[p])
                         /\ \/ at[p] - 1 \in DOMAIN debt.ids /\ tgt[p] = debt.ids[at[p] - 1]
                            \/ shards[tgt[p]] = << >> /\ tgt[p] = UploadMarker(req[p].upload)
<1>1. TypeInv /\ ClientInv(p) /\ tgt[p] \in Ids /\ req[p] \in Requests /\ Busy(p)
  BY TargetFacts DEF Inv, Basis
<1>2. /\ shards[tgt[p]] \in Seq(Stripe) /\ Len(shards[tgt[p]]) \in Nat
      /\ data[p] \in Seq(Stripe) /\ Len(data[p]) \in Nat
  BY <1>1, LenProperties DEF TypeInv
<1>3. ASSUME Owning(p)
      PROVE  /\ req[p].op = "complete" /\ req[p].list # None /\ Count(p) \in Nat
             /\ at[p] - 1 \in 1 .. Count(p) + 1 /\ at[p] \in Nat
             /\ tgt[p] = Item(req[p], at[p] - 1) /\ debt.ids = PartsOf(req[p])
             /\ \/ at[p] - 1 \in DOMAIN debt.ids /\ tgt[p] = debt.ids[at[p] - 1]
                \/ shards[tgt[p]] = << >> /\ tgt[p] = UploadMarker(req[p].upload)
  <2>1. req[p].op = "complete"
    BY <1>3 DEF Owning
  <2>2. /\ req[p].list # None /\ Count(p) \in Nat /\ debt.ids = PartsOf(req[p])
        /\ DOMAIN debt.ids = 1 .. Count(p)
    BY <1>1, <1>3, <2>1, CompleteFacts
  <2>3. at[p] - 1 \in 1 .. Count(p) + 1 /\ tgt[p] = Item(req[p], at[p] - 1) /\ at[p] \in Nat
    BY <1>1, <2>1 DEF ClientInv, DelTarget, TypeInv
  <2>4. CASE at[p] - 1 <= Count(p)
    <3>1. at[p] - 1 \in DOMAIN debt.ids
      BY <2>2, <2>3, <2>4
    <3> QED BY <2>1, <2>2, <2>3, <2>4, <3>1 DEF Item, Count
  <2>5. CASE ~(at[p] - 1 <= Count(p))
    <3>1. tgt[p] = UploadMarker(req[p].upload)
      BY <2>3, <2>5 DEF Item, Count
    <3>2. shards[tgt[p]] = << >>
      BY <1>1, <3>1 DEF Inv, Basis, MarkersBare
    <3> QED BY <2>1, <2>2, <2>3, <3>1, <3>2
  <2> QED BY <2>4, <2>5
<1> QED BY <1>1, <1>2, <1>3

\* The walk, and some shards removed.
LEMMA DelTearStep ==
  ASSUME Inv, NEW p \in Clients, DelTear(p), UNCHANGED <<local, debt>>
  PROVE  Inv'
<1> DEFINE s == shards[tgt[p]]
<1>1. /\ pc[p] = "delShards" /\ UNCHANGED <<markers, tgt, idx, req, at, acc, debt, resp>>
      /\ data' = [data EXCEPT ![p] = s] /\ pc' = [pc EXCEPT ![p] = "delRest"]
      /\ linked' = Alone(p, "putStripe", 0 .. Len(s))
  BY DEF DelTear, Goto, local
<1>2. PICK m \in 0 .. Len(s) :
        shards' = [shards EXCEPT ![tgt[p]] = [i \in DOMAIN s |-> IF i <= m THEN Lost ELSE s[i]]]
  BY DEF DelTear
<1>3. /\ TypeInv /\ ClientInv(p) /\ Busy(p) /\ tgt[p] \in Ids /\ req[p] \in Requests
      /\ s \in Seq(Stripe) /\ Len(s) \in Nat
  BY <1>1, DeletingFacts DEF DelPlaces
<1> DEFINE f == [i \in DOMAIN s |-> IF i \in {j \in Nat : j <= m} THEN Lost ELSE s[i]]
<1>4. f \in Seq(Stripe) /\ Len(f) = Len(s) /\ (s = << >> => f = << >>)
  <2> DEFINE I == {j \in Nat : j <= m}
  <2> HIDE DEF I, s
  <2> QED BY <1>3, LosingIsSeq DEF I
<1>5. shards' = [shards EXCEPT ![tgt[p]] = f]
  <2>1. DOMAIN s = 1 .. Len(s)
    BY <1>3, LenProperties
  <2>2. [i \in DOMAIN s |-> IF i <= m THEN Lost ELSE s[i]] = f
    BY <1>3, <2>1
  <2> QED BY <1>2, <2>2
<1> HIDE DEF f
<1>6. /\ shards' \in [Ids -> Seq(Stripe)] /\ Writes(p) /\ shards'[tgt[p]] = f
  BY <1>1, <1>3, <1>4, <1>5 DEF TypeInv, Writes
<1>7. \A id \in Ids : shards[id] = << >> => shards'[id] = << >>
  BY <1>4, <1>6 DEF Writes
<1>8. pc'[p] = "delRest" /\ data'[p] = s
  BY <1>1, <1>3 DEF TypeInv
<1>9. TypeInv'
  BY <1>1, <1>3, <1>6 DEF TypeInv, LatePlaces, DelPlaces, Alone
<1>10. Moves(p)
  <2>1. \A q \in Clients \ {p} : linked[q] /\ tgt[q] # tgt[p] => linked'[q]
    BY <1>1 DEF Alone
  <2> QED BY <1>1, <1>3, <1>8, <2>1 DEF Moves, TypeInv
<1>11. ClientInv(p)'
  <2>1. AtPlace(p)' /\ PutTarget(p)' /\ Position(p)'
    BY <1>1, <1>3, <1>8 DEF ClientInv, AtPlace, PutTarget, Position, Busy, PutPlaces, DelPlaces
  <2>2. DelTarget(p)'
    BY <1>1, <1>3, <1>8 DEF ClientInv, DelTarget, DelPlaces, Count, Item, PartsOf
  <2> QED BY <2>1, <2>2 DEF ClientInv
<1>12. Basis'
  <2>1. MarkersBare'
    BY <1>7 DEF Inv, Basis, MarkersBare
  <2> QED BY <1>9, <1>10, <1>11, <2>1, BasisStep DEF Inv
<1>13. ASSUME Owning(p), Undisturbed(p) PROVE Undisturbed(p)'
  <2>1. /\ req[p].op = "complete" /\ req[p].list # None /\ Count(p) \in Nat
        /\ at[p] - 1 \in 1 .. Count(p) + 1 /\ at[p] \in Nat
        /\ \/ at[p] - 1 \in DOMAIN debt.ids /\ tgt[p] = debt.ids[at[p] - 1]
           \/ s = << >> /\ tgt[p] = UploadMarker(req[p].upload)
    BY <1>1, <1>13, DeletingFacts DEF DelPlaces
  <2>2. /\ \A i \in DOMAIN debt.ids : shards[debt.ids[i]] \in {debt.parts[i], << >>}
        /\ \A i \in 1 .. at[p] - 2 : Gone(Item(req[p], i))
    BY <1>1, <1>13 DEF Undisturbed, LatePlaces, DelPlaces, GoneTo
  <2>3. ASSUME NEW i \in 1 .. at[p] - 2
        PROVE  shards'[Item(req[p], i)] = << >> /\ markers'[Item(req[p], i)] = None
    <3>1. i \in 1 .. Len(req[p].list) + 1
      BY <2>1, <2>3 DEF Count
    <3>2. Item(req[p], i) \in Ids
      BY <1>3, <2>1, <3>1, ItemFacts
    <3> QED BY <1>1, <1>7, <2>2, <3>2 DEF Gone
  <2>4. ASSUME NEW i \in DOMAIN debt.ids
        PROVE  shards'[debt.ids[i]] \in {debt.parts[i], << >>} \/ tgt[p] = debt.ids[i]
    <3>1. debt.ids[i] \in Ids
      BY <1>13 DEF Inv, Basis, DebtShape, Owning
    <3> QED BY <1>6, <2>2, <3>1 DEF Writes
  <2>5. \A i \in DOMAIN s : s[i] # Mixed
    <3>1. CASE s = << >>
      BY <3>1
    <3>2. CASE s # << >>
      <4>1. s = debt.parts[at[p] - 1] /\ at[p] - 1 \in DOMAIN debt.ids
        BY <2>1, <2>2, <3>2
      <4>2. \A j \in DOMAIN s : s[j] \notin Bad
        BY <1>13, <4>1 DEF Inv, Basis, DebtShape, Owning
      <4> QED BY <4>2 DEF Bad
    <3> QED BY <3>1, <3>2
  <2>6. /\ Len(shards'[tgt'[p]]) = Len(data'[p])
        /\ \A i \in DOMAIN data'[p] : data'[p][i] # Mixed
    BY <1>1, <1>4, <1>6, <1>8, <2>5
  <2>7. at'[p] - 2 = at[p] - 2 /\ debt' = debt /\ tgt' = tgt
    BY <1>1
  <2> HIDE DEF s
  <2> QED BY <1>8, <1>10, <1>13, <2>3, <2>4, <2>6, <2>7, StillUndisturbed DEF LatePlaces, DelPlaces
<1> QED BY <1>1, <1>6, <1>8, <1>10, <1>12, <1>13, DeletingStep DEF DelPlaces

\* The shards that were listed are removed.
LEMMA DelShardsStep ==
  ASSUME Inv, NEW p \in Clients, DelShards(p), UNCHANGED <<local, debt>>
  PROVE  Inv'
<1> DEFINE s == shards[tgt[p]]
           listed == {i \in DOMAIN s : i <= Len(data[p])}
           f == [i \in DOMAIN s |-> IF i \in listed THEN Lost ELSE s[i]]
<1>1. /\ pc[p] = "delRest" /\ UNCHANGED <<markers, tgt, data, idx, req, at, acc, debt, resp>>
      /\ pc' = [pc EXCEPT ![p] = "delMarker"] /\ linked' = Alone(p, "putStripe", 0 .. Len(data[p]))
  BY DEF DelShards, Goto, local
<1>2. PICK kept \in BOOLEAN :
        /\ kept => \E i \in listed : data[p][i] = Mixed
        /\ shards' = [shards EXCEPT ![tgt[p]] = IF ~kept /\ listed = DOMAIN s THEN << >> ELSE f]
  BY DEF DelShards
<1>3. /\ TypeInv /\ ClientInv(p) /\ Busy(p) /\ tgt[p] \in Ids /\ req[p] \in Requests
      /\ s \in Seq(Stripe) /\ Len(s) \in Nat /\ data[p] \in Seq(Stripe) /\ Len(data[p]) \in Nat
  BY <1>1, DeletingFacts DEF DelPlaces
<1>4. f \in Seq(Stripe) /\ (s = << >> => f = << >>) /\ << >> \in Seq(Stripe)
  <2> HIDE DEF listed, s
  <2> QED BY <1>3, LosingIsSeq
<1> HIDE DEF f
<1>5. /\ shards' \in [Ids -> Seq(Stripe)] /\ Writes(p)
      /\ shards'[tgt[p]] = IF ~kept /\ listed = DOMAIN s THEN << >> ELSE f
  <2> HIDE DEF listed
  <2> QED BY <1>1, <1>2, <1>3, <1>4 DEF TypeInv, Writes
<1>6. \A id \in Ids : shards[id] = << >> => shards'[id] = << >>
  BY <1>4, <1>5 DEF Writes
<1>7. pc'[p] = "delMarker"
  BY <1>1, <1>3 DEF TypeInv
<1>8. TypeInv'
  BY <1>1, <1>3, <1>5 DEF TypeInv, LatePlaces, DelPlaces, Alone
<1>9. Moves(p)
  <2>1. \A q \in Clients \ {p} : linked[q] /\ tgt[q] # tgt[p] => linked'[q]
    BY <1>1 DEF Alone
  <2> QED BY <1>1, <1>3, <1>7, <2>1 DEF Moves, TypeInv
<1>10. ClientInv(p)'
  <2>1. AtPlace(p)' /\ PutTarget(p)' /\ Position(p)'
    BY <1>1, <1>3, <1>7 DEF ClientInv, AtPlace, PutTarget, Position, Busy, PutPlaces, DelPlaces
  <2>2. DelTarget(p)'
    BY <1>1, <1>3, <1>7 DEF ClientInv, DelTarget, DelPlaces, Count, Item, PartsOf
  <2> QED BY <2>1, <2>2 DEF ClientInv
<1>11. Basis'
  <2>1. MarkersBare'
    BY <1>6 DEF Inv, Basis, MarkersBare
  <2> QED BY <1>8, <1>9, <1>10, <2>1, BasisStep DEF Inv
<1>12. ASSUME Owning(p), Undisturbed(p) PROVE Undisturbed(p)'
  <2>1. /\ req[p].op = "complete" /\ req[p].list # None /\ Count(p) \in Nat
        /\ at[p] - 1 \in 1 .. Count(p) + 1 /\ at[p] \in Nat
    BY <1>1, <1>12, DeletingFacts DEF DelPlaces
  <2>2. /\ \A i \in DOMAIN debt.ids : shards[debt.ids[i]] \in {debt.parts[i], << >>} \/ tgt[p] = debt.ids[i]
        /\ \A i \in 1 .. at[p] - 2 : Gone(Item(req[p], i))
        /\ Len(s) = Len(data[p]) /\ \A i \in DOMAIN data[p] : data[p][i] # Mixed
    BY <1>1, <1>12 DEF Undisturbed, LatePlaces, DelPlaces, GoneTo
  <2>3. shards'[tgt[p]] = << >>
    <3>1. DOMAIN s = 1 .. Len(s) /\ DOMAIN data[p] = 1 .. Len(data[p])
      BY <1>3, LenProperties
    <3>2. listed = DOMAIN s /\ listed = DOMAIN data[p]
      BY <1>3, <2>2, <3>1
    <3> HIDE DEF listed
    <3>3. ~kept
      BY <1>2, <2>2, <3>2
    <3> QED BY <1>5, <3>2, <3>3
  <2>4. ASSUME NEW i \in 1 .. at[p] - 2
        PROVE  shards'[Item(req[p], i)] = << >> /\ markers'[Item(req[p], i)] = None
    <3>1. i \in 1 .. Len(req[p].list) + 1
      BY <2>1, <2>4 DEF Count
    <3>2. Item(req[p], i) \in Ids
      BY <1>3, <2>1, <3>1, ItemFacts
    <3> QED BY <1>1, <1>6, <2>2, <3>2 DEF Gone
  <2>5. ASSUME NEW i \in DOMAIN debt.ids PROVE shards'[debt.ids[i]] \in {debt.parts[i], << >>}
    <3>1. debt.ids[i] \in Ids
      BY <1>12 DEF Inv, Basis, DebtShape, Owning
    <3> QED BY <1>5, <2>2, <2>3, <3>1 DEF Writes
  <2>6. at'[p] - 2 = at[p] - 2 /\ debt' = debt /\ tgt' = tgt
    BY <1>1
  <2> HIDE DEF s, listed
  <2> QED BY <1>7, <1>9, <1>12, <2>3, <2>4, <2>5, <2>6, StillUndisturbed DEF LatePlaces, DelPlaces
<1> QED BY <1>1, <1>5, <1>7, <1>9, <1>11, <1>12, DeletingStep DEF DelPlaces

\* The marker is removed, and the handler goes on whatever the result was.
LEMMA DelMarkerStep ==
  ASSUME Inv, NEW p \in Clients, DelMarker(p, Removed(p)), UNCHANGED <<local, debt>>
  PROVE  Inv'
<1>1. /\ pc[p] = "delMarker" /\ UNCHANGED <<shards, tgt, data, idx, req, at, acc, debt>>
      /\ markers' = [markers EXCEPT ![tgt[p]] = None]
      /\ linked' = Alone(p, "putMarker", {Len(data[q]) : q \in Clients})
      /\ \/ /\ pc' = [pc EXCEPT ![p] = "done"] /\ req[p].op # "complete"
            /\ resp' = [resp EXCEPT ![p] = Answer(204)]
         \/ pc' = [pc EXCEPT ![p] = "cleanup"] /\ resp' = resp /\ req[p].op = "complete"
  BY DEF DelMarker, Removed, Goto, Reply, local
<1>2. TypeInv /\ ClientInv(p) /\ Busy(p) /\ tgt[p] \in Ids /\ req[p] \in Requests
  BY <1>1, DeletingFacts DEF DelPlaces
<1>3. Writes(p) /\ markers'[tgt[p]] = None /\ \A id \in Ids : markers[id] = None => markers'[id] = None
  BY <1>1, <1>2 DEF Writes, TypeInv
<1>4. TypeInv'
  <2>1. DOMAIN linked' = Clients /\ DOMAIN markers' = Ids
    BY <1>1, <1>2 DEF Alone, TypeInv
  <2>2. pc' \in [Clients -> {"idle", "done"} \cup EarlyPlaces \cup LatePlaces] /\ DOMAIN resp' = Clients
    BY <1>1, <1>2 DEF LatePlaces, TypeInv
  <2> QED BY <1>1, <1>2, <2>1, <2>2 DEF TypeInv
<1>5. \A q \in Clients \ {p} : linked[q] /\ tgt[q] # tgt[p] => linked'[q]
  BY <1>1 DEF Alone
<1>6. CASE /\ pc' = [pc EXCEPT ![p] = "done"] /\ req[p].op # "complete"
           /\ resp' = [resp EXCEPT ![p] = Answer(204)]
  <2>1. pc'[p] = "done"
    BY <1>2, <1>6 DEF TypeInv
  <2>2. Moves(p)
    BY <1>1, <1>2, <1>5, <1>6, <2>1 DEF Moves, TypeInv
  <2> QED BY <1>1, <1>3, <1>4, <1>6, <2>1, <2>2, ErrorStep
<1>7. CASE pc' = [pc EXCEPT ![p] = "cleanup"] /\ resp' = resp /\ req[p].op = "complete"
  <2>1. pc'[p] = "cleanup"
    BY <1>2, <1>7 DEF TypeInv
  <2>2. Moves(p)
    BY <1>1, <1>2, <1>5, <1>7, <2>1 DEF Moves, TypeInv
  <2>3. /\ req[p].list # None /\ Count(p) \in Nat /\ at[p] \in Nat
        /\ at[p] - 1 \in 1 .. Count(p) + 1 /\ tgt[p] = Item(req[p], at[p] - 1)
    BY <1>1, <1>2, <1>7, CompleteFacts DEF ClientInv, DelTarget, DelPlaces, TypeInv
  <2>4. ClientInv(p)'
    <3>1. Count(p)' = Count(p) /\ at'[p] \in 1 .. Count(p) + 2
      BY <1>1, <2>3 DEF Count
    <3> QED BY <1>1, <1>2, <1>7, <2>1, <2>3, <3>1
            DEF ClientInv, AtPlace, PutTarget, DelTarget, Position, PutPlaces, DelPlaces
  <2>5. ASSUME Owning(p), "read" \notin Failures PROVE Phase(p)'
    <3>1. Assembled(debt.parts)
      BY <1>1, <2>5 DEF Inv, Safe, Phase, Owning, LatePlaces, DelPlaces
    <3>2. Assembled(debt.parts)'
      BY <1>1, <3>1 DEF Assembled
    <3> QED BY <2>1, <3>2 DEF Phase, PutPlaces
  <2>6. ASSUME Owning(p), Undisturbed(p) PROVE Undisturbed(p)'
    <3>1. /\ \A i \in DOMAIN debt.ids : shards[debt.ids[i]] \in {debt.parts[i], << >>}
          /\ \A i \in 1 .. at[p] - 2 : Gone(Item(req[p], i))
          /\ shards[tgt[p]] = << >>
      BY <1>1, <2>6 DEF Undisturbed, LatePlaces, DelPlaces, GoneTo
    <3>2. ASSUME NEW i \in 1 .. at[p] - 1
          PROVE  shards'[Item(req[p], i)] = << >> /\ markers'[Item(req[p], i)] = None
      <4>1. i \in 1 .. Len(req[p].list) + 1
        BY <2>3, <3>2 DEF Count
      <4>2. Item(req[p], i) \in Ids
        BY <1>2, <1>7, <2>3, <4>1, ItemFacts
      <4>3. CASE i = at[p] - 1
        BY <1>1, <1>3, <2>3, <3>1, <4>3
      <4>4. CASE i # at[p] - 1
        <5>1. i \in 1 .. at[p] - 2
          BY <2>3, <3>2, <4>4
        <5> QED BY <1>1, <1>3, <3>1, <4>2, <5>1 DEF Gone
      <4> QED BY <4>3, <4>4
    <3>3. at'[p] - 1 = at[p] - 1 /\ debt' = debt /\ shards' = shards
      BY <1>1
    <3> QED BY <2>1, <2>2, <2>6, <3>1, <3>2, <3>3, StillUndisturbed DEF LatePlaces
  <2> QED BY <1>1, <1>3, <1>4, <2>1, <2>2, <2>4, <2>5, <2>6, QuietStep DEF EarlyPlaces, PutPlaces
<1> QED BY <1>1, <1>6, <1>7

\* A deletion that fails is not noticed: the handler goes on.
LEMMA RemoveFailsStep ==
  ASSUME Inv, NEW p \in Clients, RemoveFails(p)
  PROVE  Inv'
<1>1. /\ pc[p] \in DelPlaces
      /\ UNCHANGED <<shards, markers, tgt, data, idx, linked, req, at, acc>>
      /\ debt' = IF debt = None THEN None ELSE [debt EXCEPT !.clean = FALSE]
      /\ \/ /\ pc' = [pc EXCEPT ![p] = "done"] /\ req[p].op # "complete"
            /\ resp' = [resp EXCEPT ![p] = Answer(204)]
         \/ pc' = [pc EXCEPT ![p] = "cleanup"] /\ resp' = resp /\ req[p].op = "complete"
  BY DEF RemoveFails, DelFails, Removed, Goto, Reply, local, DelPlaces
<1>2. TypeInv /\ ClientInv(p) /\ Busy(p) /\ tgt[p] \in Ids /\ req[p] \in Requests
  BY <1>1, DeletingFacts
<1>3. Writes(p) /\ (debt' = debt \/ (debt # None /\ debt' = [debt EXCEPT !.clean = FALSE]))
  BY <1>1 DEF Writes
<1>4. TypeInv'
  BY <1>1, <1>2 DEF TypeInv, LatePlaces
<1>5. CASE /\ pc' = [pc EXCEPT ![p] = "done"] /\ req[p].op # "complete"
           /\ resp' = [resp EXCEPT ![p] = Answer(204)]
  <2>1. pc'[p] = "done"
    BY <1>2, <1>5 DEF TypeInv
  <2>2. Moves(p)
    BY <1>1, <1>2, <1>3, <1>5, <2>1 DEF Moves, TypeInv
  <2> QED BY <1>1, <1>3, <1>4, <1>5, <2>1, <2>2, ErrorStep
<1>6. CASE pc' = [pc EXCEPT ![p] = "cleanup"] /\ resp' = resp /\ req[p].op = "complete"
  <2>1. pc'[p] = "cleanup"
    BY <1>2, <1>6 DEF TypeInv
  <2>2. Moves(p)
    BY <1>1, <1>2, <1>3, <1>6, <2>1 DEF Moves, TypeInv
  <2>3. /\ req[p].list # None /\ Count(p) \in Nat /\ at[p] \in Nat /\ at[p] - 1 \in 1 .. Count(p) + 1
    BY <1>1, <1>2, <1>6, CompleteFacts DEF ClientInv, DelTarget, TypeInv
  <2>4. ClientInv(p)'
    <3>1. Count(p)' = Count(p) /\ at'[p] \in 1 .. Count(p) + 2
      BY <1>1, <2>3 DEF Count
    <3> QED BY <1>1, <1>2, <1>6, <2>1, <2>3, <3>1
            DEF ClientInv, AtPlace, PutTarget, DelTarget, Position, PutPlaces, DelPlaces
  <2>5. ASSUME Owning(p), "read" \notin Failures PROVE Phase(p)'
    <3>1. Assembled(debt.parts) /\ debt # None
      BY <1>1, <2>5 DEF Inv, Safe, Phase, Owning, LatePlaces
    <3>2. Assembled(debt.parts)'
      BY <1>1, <2>2, <3>1, AssembledFrame DEF Inv
    <3> QED BY <2>1, <3>2 DEF Phase, PutPlaces
  <2>6. ASSUME Owning(p), debt' = debt, debt.clean PROVE FALSE
    <3>1. /\ debt = [by |-> debt.by, ids |-> debt.ids, parts |-> debt.parts, clean |-> debt.clean]
          /\ debt # None
      BY <2>6 DEF Inv, Basis, DebtShape, Owning
    <3>2. debt'.clean = FALSE
      BY <1>1, <3>1
    <3> QED BY <2>6, <3>2
  <2> QED BY <1>1, <1>3, <1>4, <2>1, <2>2, <2>4, <2>5, <2>6, QuietStep DEF EarlyPlaces, PutPlaces
<1> QED BY <1>1, <1>5, <1>6

-----------------------------------------------------------------------------
\* Every step keeps the invariant.
LEMMA NextInv == Inv /\ [Next]_vars => Inv'
<1> SUFFICES ASSUME Inv, [Next]_vars PROVE Inv'
  OBVIOUS
<1>1. CASE UNCHANGED vars
  <2>1. UNCHANGED <<shards, markers, pc, tgt, data, idx, linked, resp, req, at, acc, debt>>
    BY <1>1 DEF vars, storeVars, local
  <2>2. TypeInv' /\ MarkersBare' /\ DebtShape'
    BY <2>1 DEF Inv, Basis, TypeInv, MarkersBare, DebtShape
  <2>3. \A p \in Clients : (Owning(p)' <=> Owning(p)) /\ (Busy(p)' <=> Busy(p)) /\ Count(p)' = Count(p)
    BY <2>1 DEF Owning, Busy, Count
  <2>4. DebtAlone'
    BY <2>1, <2>3 DEF Inv, Basis, DebtAlone
  <2>5. ASSUME NEW p \in Clients PROVE ClientInv(p)'
    <3>1. ClientInv(p)
      BY DEF Inv, Basis
    <3> QED BY <2>1, <2>3, <3>1 DEF ClientInv, AtPlace, PutTarget, DelTarget, Position
  <2>6. (debt # None => (Kept(debt)' <=> Kept(debt))) /\ (Assembled(debt.parts)' <=> Assembled(debt.parts))
    BY <2>1 DEF Kept, Assembled
  <2>7. EarlyKept'
    BY <2>1, <2>3, <2>6 DEF Inv, EarlyKept, Owning
  <2>8. Safe'
    <3>1. ASSUME NEW p \in Clients, Phase(p) PROVE Phase(p)'
      <4>1. Written(p) => Written(p)'
        BY <2>1 DEF Written
      <4> QED BY <2>1, <2>6, <3>1, <4>1 DEF Phase
    <3> QED BY <2>1, <2>3, <2>6, <3>1 DEF Inv, Safe
  <2>9. Clean'
    <3>1. ASSUME NEW p \in Clients, Undisturbed(p) PROVE Undisturbed(p)'
      <4>1. \A n : GoneTo(p, n)' <=> GoneTo(p, n)
        BY <2>1 DEF GoneTo, Gone
      <4> QED BY <2>1, <2>3, <3>1, <4>1 DEF Undisturbed
    <3> QED BY <2>1, <2>3, <3>1 DEF Inv, Clean
  <2> QED BY <2>2, <2>4, <2>5, <2>7, <2>8, <2>9 DEF Inv, Basis
<1>2. ASSUME NEW p \in Clients, Mutate(p) PROVE Inv'
  BY <1>2, PutTearStep, PutStripeStep, MarkerCreateStep, MarkerWriteStep, PutFailsStep,
     DelTearStep, DelShardsStep, DelMarkerStep DEF Mutate
<1>3. ASSUME NEW p \in Clients, NEW r \in Requests, Send(p, r) PROVE Inv'
  BY <1>3, SendStep
<1>4. ASSUME NEW p \in Clients, OpenPart(p) \/ OpenedPart(p) \/ ReadPart(p) \/ StoreObject(p)
                                \/ Cleanup(p) \/ RemoveFails(p)
      PROVE  Inv'
  BY <1>4, OpenPartStep, OpenedPartStep, ReadPartStep, StoreObjectStep, CleanupStep, RemoveFailsStep
<1> QED BY <1>1, <1>2, <1>3, <1>4, CrashStep DEF Next

\* The inductive invariant of the uploads.
LEMMA SpecInv == Spec => []Inv
BY InitInv, NextInv, PTL DEF Spec

\* handleMultipartOperations: as long as no read of a shard fails, the bytes of
\* the parts are on disk from the moment a complete begins, as the parts or as
\* the object, wherever it stops and whatever other requests do meanwhile.
THEOREM NoPartIsLost ==
  ASSUME "read" \notin Failures
  PROVE  Spec => []NothingLost
<1>1. Inv => NothingLost
  BY DEF Inv, Safe, NothingLost
<1> QED BY <1>1, SpecInv, PTL

\* handleMultipartOperations: an undisturbed complete that is answered with 200
\* has deleted every part of its list and the upload's marker.
THEOREM CompletedPartsAreGone == Spec => []ListedPartsAreGone
<1>1. Inv => ListedPartsAreGone
  <2> SUFFICES ASSUME Inv, NEW p \in Clients, pc[p] = "done", req[p].op = "complete",
                      resp[p] = Answer(200), debt # None, debt.by = p, debt.clean, NEW id \in Ids,
                      id \in {debt.ids[i] : i \in DOMAIN debt.ids} \cup {UploadMarker(req[p].upload)}
               PROVE  shards[id] = << >> /\ markers[id] = None
    BY DEF ListedPartsAreGone
  <2>1. Owning(p)
    BY DEF Owning
  <2>2. debt.ids = PartsOf(req[p]) /\ GoneTo(p, Count(p) + 1)
    BY <2>1 DEF Inv, Basis, DebtAlone, Clean, Undisturbed
  <2>3. \E i \in 1 .. Count(p) + 1 : id = Item(req[p], i)
    <3>1. DOMAIN debt.ids = DOMAIN debt.parts /\ DOMAIN debt.parts = 1 .. Len(debt.parts) /\ Len(debt.parts) \in Nat
      BY DEF Inv, Basis, DebtShape
    <3>2. DOMAIN debt.ids = 1 .. Count(p)
      BY <2>2 DEF PartsOf, Count
    <3> QED BY <2>2, <3>1, <3>2 DEF Item, Count
  <2> QED BY <2>2, <2>3 DEF GoneTo, Gone
<1> QED BY <1>1, SpecInv, PTL
=============================================================================
