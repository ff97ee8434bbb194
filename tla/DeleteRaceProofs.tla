-------------------------- MODULE DeleteRaceProofs --------------------------
(***************************************************************************)
(* Overlapping DELETEs finish what one of them has begun, for any number   *)
(* of clients, objects, stripes and shards.                                *)
(***************************************************************************)
EXTENDS DeleteRace, ObjectStoreProofs

\* p is writing o, or working through its list of o's shards.
Active(p, o) == obj[p] = o /\ pc[p] \in PutStates \cup {"delShard", "delMarker"}

\* The list of a DELETE holds every shard there is, and from a shard that is
\* there onwards all it lists are there: shards go in one order only.
InOrder(p, o) ==
  /\ todo[p] # {} /\ Listed(o) \subseteq todo[p]
  /\ \A k \in Listed(o), l \in todo[p] : Precedes(k, l) => l \in Listed(o)

\* Only DELETEs are changing o.
Orderly(o) ==
  \A p \in Clients : Active(p, o) =>
    /\ pc[p] \in {"delShard", "delMarker"}
    /\ pc[p] = "delShard" => InOrder(p, o)
    /\ pc[p] = "delMarker" => Listed(o) = {}

\* The DELETE that is ahead: nothing it has listed is gone.
Leads(p, o) == Active(p, o) /\ (pc[p] = "delShard" => todo[p] = Listed(o))

Underway(o) == Gone(o) \/ \E p \in Clients : Leads(p, o)

RaceOK ==
  \A o \in Objects :
    /\ deleting[o] # "no" => Orderly(o)
    /\ deleting[o] = "begun" => Underway(o)

RaceInv == AbsenceInv /\ RaceOK

-----------------------------------------------------------------------------
\* What a step leaves in order when it changes no file of o and nothing of
\* the clients that are active on o.
LEMMA RaceFrame ==
  ASSUME NEW o, Orderly(o),
         \A k \in Keys : k[1] = o => files'[k] = files[k],
         markers'[o] = markers[o],
         \A q \in Clients : Active(q, o)' = Active(q, o),
         \A q \in Clients : Active(q, o) => pc'[q] = pc[q] /\ todo'[q] = todo[q]
  PROVE  Orderly(o)' /\ (Underway(o) => Underway(o)') /\ ~Removes(o)
<1>1. Listed(o)' = Listed(o)
  BY DEF Listed
<1>2. ~Removes(o)
  BY DEF Removes
<1>3. Orderly(o)'
  <2>1. SUFFICES ASSUME NEW p \in Clients, Active(p, o)'
                 PROVE  /\ pc'[p] \in {"delShard", "delMarker"}
                        /\ pc'[p] = "delShard" => InOrder(p, o)'
                        /\ pc'[p] = "delMarker" => Listed(o)' = {}
    BY DEF Orderly
  <2>2. Active(p, o) /\ pc'[p] = pc[p] /\ todo'[p] = todo[p]
    BY <2>1
  <2>3. InOrder(p, o) => InOrder(p, o)'
    BY <1>1, <2>2 DEF InOrder
  <2> QED BY <1>1, <2>2, <2>3 DEF Orderly
<1>4. ASSUME Underway(o) PROVE Underway(o)'
  <2>1. CASE Gone(o)
    BY <2>1 DEF Gone, Underway
  <2>2. ASSUME NEW p \in Clients, Leads(p, o) PROVE Underway(o)'
    <3>1. Leads(p, o)'
      BY <1>1, <2>2 DEF Leads
    <3> QED BY <3>1 DEF Underway
  <2> QED BY <1>4, <2>1, <2>2 DEF Underway
<1> QED BY <1>2, <1>3, <1>4

\* So does a step of a client that is not active on o.
LEMMA RaceAside ==
  ASSUME NEW o, Orderly(o), NEW p \in Clients,
         \A k \in Keys : k[1] = o => files'[k] = files[k],
         markers'[o] = markers[o],
         \A q \in Clients \ {p} : obj'[q] = obj[q] /\ pc'[q] = pc[q] /\ todo'[q] = todo[q],
         ~Active(p, o), ~Active(p, o)'
  PROVE  Orderly(o)' /\ (Underway(o) \/ Removes(o) => Underway(o)')
<1>1. ASSUME NEW q \in Clients
      PROVE  /\ Active(q, o)' = Active(q, o)
             /\ Active(q, o) => pc'[q] = pc[q] /\ todo'[q] = todo[q]
  <2>1. CASE q = p
    BY <2>1 DEF Active
  <2>2. CASE q # p
    BY <2>2 DEF Active
  <2> QED BY <2>1, <2>2
<1> QED BY <1>1, RaceFrame

\* The order in which DELETEs work is a partial order on the shards of an
\* object.
LEMMA PrecedesFacts ==
  ASSUME NEW o, NEW k \in Keys, NEW l \in Keys, k[1] = o, l[1] = o
  PROVE  /\ Precedes(k, k)
         /\ Precedes(k, l) /\ Precedes(l, k) => k = l
<1>1. /\ k[2] \in Int /\ k[3] \in Int /\ l[2] \in Int /\ l[3] \in Int
      /\ k = <<k[1], k[2], k[3]>> /\ l = <<l[1], l[2], l[3]>>
  BY ParamsAssumption, StoreAssumption DEF Keys, Stripes, Shards, ShardCount, NewOK
<1>2. Precedes(k, l) /\ Precedes(l, k) => k[2] = l[2] /\ k[3] = l[3]
  BY <1>1 DEF Precedes
<1> QED BY <1>1, <1>2 DEF Precedes

\* PUTs work on other objects.
LEMMA RacePut ==
  ASSUME TypeInv, NEW o \in Objects, Orderly(o), NEW p \in Clients,
         \/ PutCreate(p) \/ PutHeader(p) \/ PutPayload(p) \/ MarkerCreate(p) \/ MarkerWrite(p)
  PROVE  Orderly(o)' /\ (Underway(o) \/ Removes(o) => Underway(o)')
<1>1. pc[p] \in PutStates
  BY DEF PutCreate, PutHeader, PutPayload, MarkerCreate, MarkerWrite, PutStates
<1>2. obj[p] # o
  BY <1>1 DEF Orderly, Active, PutStates
<1>3. obj' = obj /\ todo' = todo
  BY DEF PutCreate, PutHeader, PutPayload, MarkerCreate, MarkerWrite, req
<1>4. \A q \in Clients \ {p} : pc'[q] = pc[q]
  BY DEF PutCreate, PutHeader, PutPayload, MarkerCreate, MarkerWrite, Goto, Finish,
         TypeInv, TypeOK, ControlOK
<1>5. \A k \in Keys : k[1] = o => files'[k] = files[k]
  <2>1. \A k : k[1] = o => k # Key(p)
    BY <1>2 DEF Key
  <2> QED BY <2>1 DEF PutCreate, PutHeader, PutPayload, MarkerCreate, MarkerWrite,
                      TypeInv, TypeOK, DiskOK
<1>6. markers'[o] = markers[o]
  BY <1>2 DEF PutCreate, PutHeader, PutPayload, MarkerCreate, MarkerWrite,
              TypeInv, TypeOK, DiskOK
<1>7. ~Active(p, o) /\ ~Active(p, o)'
  BY <1>2, <1>3 DEF Active
<1> QED BY <1>3, <1>4, <1>5, <1>6, <1>7, RaceAside

\* GETs, a walk that fails and the return from a request change nothing.
LEMMA RaceGet ==
  ASSUME TypeInv, NEW o \in Objects, Orderly(o), NEW p \in Clients,
         \/ ListError(p) \/ GetList(p) \/ GetMarker(p) \/ GetSize(p) \/ GetLoad(p)
         \/ GetJoin(p) \/ Return(p)
  PROVE  Orderly(o)' /\ (Underway(o) \/ Removes(o) => Underway(o)')
<1>1. files' = files /\ markers' = markers
  BY DEF ListError, GetList, GetMarker, GetSize, GetLoad, GetJoin, Return, Reset, disk
<1>2. \A q \in Clients \ {p} : obj'[q] = obj[q] /\ pc'[q] = pc[q] /\ todo'[q] = todo[q]
  <2>1. CASE Return(p)
    BY <2>1 DEF Return, Reset
  <2>2. CASE ~Return(p)
    BY <2>2 DEF ListError, GetList, GetMarker, GetSize, GetLoad, GetJoin, req, Goto, Finish,
                TypeInv, TypeOK, ControlOK
  <2> QED BY <2>1, <2>2
<1>3. /\ pc[p] \notin PutStates \cup {"delShard", "delMarker"}
      /\ pc'[p] \notin PutStates \cup {"delShard", "delMarker"}
  <2>1. CASE Return(p)
    BY <2>1 DEF Return, Reset, PutStates
  <2>2. CASE ~Return(p)
    BY <2>2 DEF ListError, GetList, GetMarker, GetSize, GetLoad, GetJoin, Goto, Finish,
                TypeInv, TypeOK, ControlOK, PutStates
  <2> QED BY <2>1, <2>2
<1> QED BY <1>1, <1>2, <1>3, RaceAside DEF Active

\* So does the start of a request other than a PUT of o.
LEMMA RaceStart ==
  ASSUME TypeInv, NEW o \in Objects, Orderly(o), NEW p \in Clients, Start(p), ~PutBegins(o)
  PROVE  Orderly(o)' /\ (Underway(o) \/ Removes(o) => Underway(o)')
<1>1. PICK o2 \in Objects : \/ \E c \in Contents : PutStart(p, o2, c)
                            \/ DelStart(p, o2) \/ GetStart(p, o2)
  BY DEF Start
<1>2. /\ files' = files /\ markers' = markers /\ todo' = todo
      /\ pc[p] = "idle" /\ obj' = [obj EXCEPT ![p] = o2]
      /\ \E l \in PutStates \cup {"delList", "getList"} : pc' = [pc EXCEPT ![p] = l]
  BY <1>1 DEF PutStart, DelStart, GetStart, Goto, disk, PutStates
<1>3. \A q \in Clients \ {p} : obj'[q] = obj[q] /\ pc'[q] = pc[q] /\ todo'[q] = todo[q]
  BY <1>2 DEF TypeInv, TypeOK, ControlOK
<1>4. obj'[p] = o2 /\ pc'[p] \in PutStates \cup {"delList", "getList"}
  BY <1>2 DEF TypeInv, TypeOK, ControlOK
<1>5. pc'[p] \in PutStates => o2 # o
  BY <1>2, <1>4 DEF PutBegins
<1>6. ~Active(p, o) /\ ~Active(p, o)'
  BY <1>2, <1>4, <1>5 DEF Active, PutStates
<1> QED BY <1>2, <1>3, <1>6, RaceAside

\* DELETEs: the first to remove a shard after a listing takes the lead, and
\* whoever leads finds all it has listed.
LEMMA RaceDelete ==
  ASSUME TypeInv, NEW o \in Objects, Orderly(o), NEW p \in Clients,
         DelList(p) \/ DelShard(p) \/ DelMarker(p)
  PROVE  Orderly(o)' /\ (Underway(o) \/ Removes(o) => Underway(o)')
<1>1. obj' = obj /\ \A q \in Clients \ {p} : pc'[q] = pc[q] /\ todo'[q] = todo[q]
  BY DEF DelList, DelShard, DelMarker, req, Goto, Finish, TypeInv, TypeOK, ControlOK
<1>2. CASE obj[p] # o
  <2>1. \A k \in Keys : k[1] = o => files'[k] = files[k]
    BY <1>2 DEF DelList, DelShard, DelMarker, disk, TypeInv, TypeOK, DiskOK, LocalsOK
  <2>2. markers'[o] = markers[o]
    BY <1>2 DEF DelList, DelShard, DelMarker, disk, TypeInv, TypeOK, DiskOK
  <2>3. ~Active(p, o) /\ ~Active(p, o)'
    BY <1>1, <1>2 DEF Active
  <2> QED BY <1>1, <2>1, <2>2, <2>3, RaceAside
<1>3. CASE obj[p] = o /\ DelList(p)
  <2>1. /\ files' = files /\ markers' = markers
        /\ todo'[p] = Listed(o)
        /\ pc[p] = "delList"
        /\ Listed(o) = {} => pc'[p] = "delMarker"
        /\ Listed(o) # {} => pc'[p] = "delShard"
    BY <1>3 DEF DelList, Goto, disk, TypeInv, TypeOK, ControlOK
  <2>2. Listed(o)' = Listed(o) /\ ~Removes(o)
    BY <2>1 DEF Listed, Removes
  <2>3. ~Active(p, o)
    BY <2>1 DEF Active, PutStates
  <2>4. Leads(p, o)'
    BY <1>1, <1>3, <2>1, <2>2 DEF Leads, Active
  <2>5. Orderly(o)'
    <3>1. SUFFICES ASSUME NEW q \in Clients, Active(q, o)'
                   PROVE  /\ pc'[q] \in {"delShard", "delMarker"}
                          /\ pc'[q] = "delShard" => InOrder(q, o)'
                          /\ pc'[q] = "delMarker" => Listed(o)' = {}
      BY DEF Orderly
    <3>2. CASE q = p
      BY <2>1, <2>2, <3>2 DEF InOrder
    <3>3. CASE q # p
      <4>1. Active(q, o) /\ pc'[q] = pc[q] /\ todo'[q] = todo[q]
        BY <1>1, <3>1, <3>3 DEF Active
      <4> QED BY <2>2, <4>1 DEF Orderly, InOrder
    <3> QED BY <3>2, <3>3
  <2> QED BY <2>4, <2>5 DEF Underway
<1>4. CASE obj[p] = o /\ DelMarker(p)
  <2>1. Active(p, o) /\ Listed(o) = {}
    BY <1>4 DEF DelMarker, Active, Orderly
  <2>2. files' = files /\ markers'[o] = None /\ pc'[p] = "done"
    BY <1>4 DEF DelMarker, Finish, TypeInv, TypeOK, DiskOK, ControlOK
  <2>3. Listed(o)' = {}
    BY <2>1, <2>2 DEF Listed
  <2>4. Gone(o)'
    BY <2>2, <2>3 DEF Gone, Listed
  <2>5. Orderly(o)'
    <3>1. SUFFICES ASSUME NEW q \in Clients, Active(q, o)'
                   PROVE  /\ pc'[q] \in {"delShard", "delMarker"}
                          /\ pc'[q] = "delShard" => InOrder(q, o)'
      BY <2>3 DEF Orderly
    <3>2. q # p
      BY <2>2, <3>1 DEF Active, PutStates
    <3>3. Active(q, o) /\ pc'[q] = pc[q] /\ todo'[q] = todo[q]
      BY <1>1, <3>1, <3>2 DEF Active
    <3> QED BY <2>3, <3>3 DEF Orderly, InOrder
  <2> QED BY <2>4, <2>5 DEF Underway
<1>5. CASE obj[p] = o /\ DelShard(p)
  <2>1. Active(p, o) /\ InOrder(p, o) /\ pc[p] = "delShard" /\ markers' = markers
    BY <1>5 DEF DelShard, Active, Orderly
  <2>2. PICK k \in todo[p] :
          /\ \A l \in todo[p] : Precedes(k, l)
          /\ IF files[k] = None
             THEN /\ Finish(p, "ErrShardNotFound") /\ UNCHANGED <<files, todo>>
             ELSE /\ files' = [files EXCEPT ![k] = None]
                  /\ todo' = [todo EXCEPT ![p] = @ \ {k}]
                  /\ Goto(p, IF todo[p] = {k} THEN "delMarker" ELSE "delShard")
    BY <1>5 DEF DelShard
  <2>3. \A l \in todo[p] : l \in Keys /\ l[1] = o
    BY <1>5 DEF TypeInv, TypeOK, ControlOK, LocalsOK
  <2>4. CASE files[k] = None
    <3>1. files' = files /\ todo' = todo /\ pc'[p] = "done"
      BY <2>2, <2>4 DEF Finish, TypeInv, TypeOK, ControlOK
    <3>2. Listed(o)' = Listed(o) /\ ~Removes(o)
      BY <3>1 DEF Listed, Removes
    <3>3. ASSUME NEW q \in Clients, q # p
          PROVE  /\ Active(q, o)' = Active(q, o) /\ pc'[q] = pc[q] /\ todo'[q] = todo[q]
      BY <1>1, <3>3 DEF Active
    <3>4. ~Active(p, o)'
      BY <3>1 DEF Active, PutStates
    <3>5. Orderly(o)'
      BY <3>1, <3>2, <3>3, <3>4 DEF Orderly, InOrder
    <3>6. ~Leads(p, o)
      BY <2>1, <2>2, <2>4 DEF Leads, Listed
    <3>7. ASSUME Underway(o) PROVE Underway(o)'
      <4>1. CASE Gone(o)
        BY <2>1, <3>1, <4>1 DEF Underway, Gone
      <4>2. ASSUME NEW q \in Clients, Leads(q, o) PROVE Underway(o)'
        <5>1. q # p
          BY <3>6, <4>2
        <5>2. Leads(q, o)'
          BY <3>1, <3>2, <3>3, <4>2, <5>1 DEF Leads
        <5> QED BY <5>2 DEF Underway
      <4> QED BY <3>7, <4>1, <4>2 DEF Underway
    <3> QED BY <3>2, <3>5, <3>7
  <2>5. CASE files[k] # None
    <3>1. k \in Listed(o)
      BY <2>3, <2>5 DEF Listed
    <3>2. todo[p] = Listed(o)
      BY <2>1, <2>2, <3>1 DEF InOrder
    <3>3. Listed(o)' = Listed(o) \ {k}
      <4>1. files' = [files EXCEPT ![k] = None] /\ files \in [Keys -> FileData \cup {None}]
        BY <2>2, <2>5 DEF TypeInv, TypeOK, DiskOK
      <4> QED BY <4>1 DEF Listed
    <3>4. todo'[p] = Listed(o)'
      BY <2>2, <2>5, <3>2, <3>3 DEF TypeInv, TypeOK, ControlOK
    <3>5. /\ todo[p] = {k} => pc'[p] = "delMarker"
          /\ todo[p] # {k} => pc'[p] = "delShard"
      BY <2>2, <2>5 DEF Goto, TypeInv, TypeOK, ControlOK
    <3>6. Leads(p, o)'
      BY <1>1, <1>5, <3>4, <3>5 DEF Leads, Active
    <3>7. ASSUME NEW q \in Clients, Active(q, o)'
          PROVE  /\ pc'[q] \in {"delShard", "delMarker"}
                 /\ pc'[q] = "delShard" => InOrder(q, o)'
                 /\ pc'[q] = "delMarker" => Listed(o)' = {}
      <4>1. CASE q = p
        <5>1. todo[p] = {k} => Listed(o)' = {}
          BY <3>2, <3>3
        <5>2. todo[p] # {k} => todo'[p] # {}
          BY <3>1, <3>2, <3>3, <3>4
        <5>3. todo[p] # {k} => InOrder(p, o)'
          BY <3>4, <5>2 DEF InOrder
        <5> QED BY <3>5, <4>1, <5>1, <5>3
      <4>2. CASE q # p
        <5>1. Active(q, o) /\ pc'[q] = pc[q] /\ todo'[q] = todo[q]
          BY <1>1, <3>7, <4>2 DEF Active
        <5>2. pc[q] = "delShard" /\ InOrder(q, o)
          BY <3>1, <5>1 DEF Orderly
        <5>3. ASSUME NEW x \in Listed(o)', NEW l \in todo[q], Precedes(x, l)
              PROVE  l \in Listed(o)'
          <6>1. x \in Listed(o) /\ x # k /\ x \in todo[p]
            BY <3>2, <3>3
          <6>2. l \in Listed(o)
            BY <5>2, <5>3, <6>1 DEF InOrder
          <6>3. Precedes(k, x)
            BY <2>2, <6>1
          <6>4. l # k
            BY <2>3, <3>1, <5>3, <6>1, <6>3, PrecedesFacts
          <6> QED BY <3>3, <6>2, <6>4
        <5>4. InOrder(q, o)'
          BY <3>3, <5>1, <5>2, <5>3 DEF InOrder
        <5> QED BY <5>1, <5>2, <5>4
      <4> QED BY <4>1, <4>2
    <3>8. Orderly(o)'
      BY <3>7 DEF Orderly
    <3> QED BY <3>6, <3>8 DEF Underway
  <2> QED BY <2>4, <2>5
<1> QED BY <1>2, <1>3, <1>4, <1>5

-----------------------------------------------------------------------------
\* A step of the system keeps what Orderly and Underway say of an object, as
\* long as no PUT of it begins.
LEMMA RaceStep ==
  ASSUME TypeInv, Next, NEW o \in Objects, Orderly(o), ~PutBegins(o)
  PROVE  Orderly(o)' /\ (Underway(o) \/ Removes(o) => Underway(o)')
<1>1. ASSUME NEW p \in Clients, Start(p)
      PROVE  Orderly(o)' /\ (Underway(o) \/ Removes(o) => Underway(o)')
  BY <1>1, RaceStart
<1>2. ASSUME NEW p \in Clients, Step(p) \/ Return(p)
      PROVE  Orderly(o)' /\ (Underway(o) \/ Removes(o) => Underway(o)')
  BY <1>2, RacePut, RaceGet, RaceDelete DEF Step
<1>3. ~Crash /\ \A p \in Clients : ~RequestFail(p)
  BY NoFailures DEF Crash, RequestFail
<1>4. ~ \E k \in Keys, kind \in FaultKinds : Fault(k, kind)
  BY NoFailures
<1> QED BY <1>1, <1>2, <1>3, <1>4 DEF Next

\* RaceInv holds at the start.
LEMMA RaceInitInv == RaceInit => RaceInv
  BY AbsenceInit DEF RaceInit, RaceInv, RaceOK

\* Every step preserves RaceInv.
LEMMA RaceNextInv == RaceInv /\ [RaceNext]_<<vars, deleting>> => RaceInv'
<1> SUFFICES ASSUME RaceInv, [RaceNext]_<<vars, deleting>> PROVE RaceInv'
  OBVIOUS
<1>1. AbsenceInv'
  BY AbsenceNext DEF RaceInv, RaceNext
<1>2. CASE RaceNext
  <2>1. ASSUME NEW o \in Objects
        PROVE  /\ deleting'[o] # "no" => Orderly(o)'
               /\ deleting'[o] = "begun" => Underway(o)'
    <3>1. deleting'[o] = Record(o) /\ Next /\ TypeInv
      BY <1>2 DEF RaceNext, RaceInv, AbsenceInv
    <3>2. SUFFICES ASSUME Record(o) # "no"
                   PROVE  Orderly(o)' /\ (Record(o) = "begun" => Underway(o)')
      BY <3>1
    <3>3. ~PutBegins(o)
      BY <3>2 DEF Record
    <3>4. CASE DelBegins(o) /\ value[o] # Unknown
      <4>1. Record(o) = "asked"
        BY <3>3, <3>4 DEF Record
      <4>2. \A p \in Clients : ~Active(p, o)
        BY <3>4 DEF RaceInv, AbsenceInv, Exclusion, Mutating, Active, DelStates
      <4>3. Orderly(o)
        BY <4>2 DEF Orderly
      <4> QED BY <3>1, <3>3, <4>1, <4>3, RaceStep
    <3>5. CASE ~(DelBegins(o) /\ value[o] # Unknown)
      <4>1. deleting[o] # "no" /\ (Record(o) = "begun" => deleting[o] = "begun" \/ Removes(o))
        BY <3>2, <3>3, <3>5 DEF Record
      <4>2. Orderly(o) /\ (deleting[o] = "begun" => Underway(o))
        BY <4>1 DEF RaceInv, RaceOK
      <4> QED BY <3>1, <3>3, <4>1, <4>2, RaceStep
    <3> QED BY <3>4, <3>5
  <2> QED BY <1>1, <2>1 DEF RaceInv, RaceOK
<1>3. CASE UNCHANGED <<vars, deleting>>
  <2>1. UNCHANGED <<files, markers, pc, obj, todo, deleting>>
    BY <1>3 DEF vars, disk, req
  <2>2. ASSUME NEW o \in Objects
        PROVE  (Orderly(o) => Orderly(o)') /\ (Underway(o) => Underway(o)')
    BY <2>1 DEF Orderly, Underway, Active, InOrder, Leads, Gone, Listed
  <2> QED BY <1>1, <2>1, <2>2 DEF RaceInv, RaceOK
<1> QED BY <1>2, <1>3

\* DeleteObject: when all DELETEs of an object have returned, with or without
\* an error, and one of them had removed a shard, nothing of the object is
\* left, for any number of overlapping DELETEs, stripes and shards.
THEOREM DeletesConverge == RaceSpec => []DeleteConverges
<1>1. RaceInv => DeleteConverges
  <2>1. SUFFICES ASSUME RaceInv, NEW o \in Objects, deleting[o] = "begun", Mutators(o) = {}
                 PROVE  Gone(o)
    BY DEF DeleteConverges
  <2>2. \A p \in Clients : ~Active(p, o)
    BY <2>1 DEF Mutators, Active, DelStates
  <2> QED BY <2>1, <2>2 DEF RaceInv, RaceOK, Underway, Leads
<1> QED BY RaceInitInv, RaceNextInv, <1>1, PTL DEF RaceSpec
=============================================================================
