-------------------------- MODULE ObjectMapProofs --------------------------
(***************************************************************************)
(* ObjectStore implements ObjectMap, for any number of clients, objects,   *)
(* contents and shards, as long as no stripe has more lost or rotten       *)
(* shards than there is parity.                                            *)
(***************************************************************************)
EXTENDS ObjectMapImpl, ObjectStoreReads

\* Readers send GETs only, and an idle client asks for nothing.
RolesInv ==
  \A p \in Clients : /\ pc[p] = "idle" => obj[p] = None
                     /\ p \in Readers => pc[p] \notin PutStates \cup DelStates

-----------------------------------------------------------------------------
\* What a step of a request leaves alone.
LEMMA StepFrame ==
  ASSUME TypeInv, NEW p \in Clients, Step(p) \/ RequestFail(p)
  PROVE  /\ UNCHANGED <<obj, expect>>
         /\ \A q \in Clients \ {p} : /\ pc'[q] = pc[q] /\ reply'[q] = reply[q]
                                     /\ size'[q] = size[q] /\ out'[q] = out[q]
         /\ ~(MarkerWrite(p) \/ DelMarker(p)) => UNCHANGED <<value, leftover>>
         /\ pc[p] \in PutStates \cup DelStates \cup GetStates
         /\ pc[p] \in GetStates => pc'[p] \in GetStates \cup {"done"}
         /\ pc'[p] # "idle"
<1> USE DEF Finish, Goto, disk, req, pos, reader, ghosts, Acknowledge
<1>1. /\ pc \in [Clients -> PutStates \cup GetStates \cup DelStates \cup {"idle", "done"}]
      /\ reply \in [Clients -> Replies] /\ size \in [Clients -> Nat]
      /\ out \in [Clients -> Seq(Delivered)]
  BY DEF TypeInv, TypeOK, ControlOK, ReaderOK
<1>2. CASE PutCreate(p) \/ PutHeader(p) \/ PutPayload(p) \/ MarkerCreate(p)
  BY <1>1, <1>2 DEF PutCreate, PutHeader, PutPayload, MarkerCreate, PutStates, GetStates
<1>3. CASE MarkerWrite(p) \/ DelMarker(p)
  BY <1>1, <1>3 DEF MarkerWrite, DelMarker, PutStates, DelStates, GetStates
<1>4. CASE ListError(p)
  BY <1>1, <1>4 DEF ListError, DelStates, GetStates
<1>5. CASE GetList(p)
  BY <1>1, <1>5 DEF GetList, GetStates
<1>6. CASE GetMarker(p)
  BY <1>1, <1>6 DEF GetMarker, GetStates
<1>7. CASE GetSize(p)
  BY <1>1, <1>7 DEF GetSize, GetStates
<1>8. CASE GetLoad(p)
  BY <1>1, <1>8 DEF GetLoad, GetStates
<1>9. CASE GetJoin(p)
  BY <1>1, <1>9 DEF GetJoin, GetStates
<1>10. CASE DelList(p) \/ DelShard(p)
  BY <1>1, <1>10 DEF DelList, DelShard, DelStates, GetStates
<1>11. CASE RequestFail(p)
  BY <1>1, <1>11 DEF RequestFail, GetStates, DelStates, PutStates
<1> QED BY <1>2, <1>3, <1>4, <1>5, <1>6, <1>7, <1>8, <1>9, <1>10, <1>11 DEF Step

\* The roles of clients never change.
LEMMA RolesNext ==
  ASSUME TypeInv, RolesInv, [Next]_vars
  PROVE  RolesInv'
<1>1. /\ pc \in [Clients -> PutStates \cup GetStates \cup DelStates \cup {"idle", "done"}]
      /\ obj \in [Clients -> Objects \cup {None}]
  BY DEF TypeInv, TypeOK, ControlOK
<1>2. ASSUME NEW p \in Clients, Start(p) PROVE RolesInv'
  <2>1. PICK o \in Objects : \/ p \in Writers /\ \E c \in Contents : PutStart(p, o, c)
                             \/ p \in Writers /\ DelStart(p, o)
                             \/ p \in Readers /\ GetStart(p, o)
    BY <1>2 DEF Start
  <2>2. \A q \in Clients \ {p} : pc'[q] = pc[q] /\ obj'[q] = obj[q]
    BY <1>1, <2>1 DEF PutStart, DelStart, GetStart, Goto
  <2>3. pc'[p] # "idle" /\ (p \in Readers => pc'[p] = "getList")
    BY <1>1, <2>1, MapAssumption DEF PutStart, DelStart, GetStart, Goto
  <2> QED BY <2>2, <2>3 DEF RolesInv, PutStates, DelStates
<1>3. ASSUME NEW p \in Clients, Step(p) \/ RequestFail(p) PROVE RolesInv'
  <2>1. /\ obj' = obj /\ pc'[p] # "idle" /\ (pc[p] \in GetStates => pc'[p] \in GetStates \cup {"done"})
        /\ \A q \in Clients \ {p} : pc'[q] = pc[q]
        /\ pc[p] \in PutStates \cup DelStates \cup GetStates
    BY <1>3, StepFrame
  <2> QED BY <2>1 DEF RolesInv, PutStates, DelStates, GetStates
<1>4. ASSUME NEW S, Reset(S) PROVE RolesInv'
  BY <1>4 DEF RolesInv, Reset, PutStates, DelStates
<1>5. ASSUME NEW k \in Keys, NEW kind \in FaultKinds, Fault(k, kind) PROVE RolesInv'
  BY <1>5 DEF Fault, RolesInv, req
<1>6. CASE UNCHANGED vars
  BY <1>6 DEF vars, req, RolesInv
<1> QED BY <1>2, <1>3, <1>4, <1>5, <1>6 DEF Next, Return, Crash

-----------------------------------------------------------------------------
(* The mapping, step by step.                                              *)

\* The answer of a reader depends on its own variables only.
LEMMA OutcomeFrame ==
  ASSUME NEW q, pc'[q] = pc[q], reply'[q] = reply[q], size'[q] = size[q], out'[q] = out[q]
  PROVE  Outcome(q)' = Outcome(q)
<1>1. Received(q)' = Received(q)
  BY DEF Received, PrefixOf
<1> QED BY <1>1 DEF Outcome

\* A step that changes no promise, no request and no answer is none of the map.
LEMMA Silent ==
  ASSUME UNCHANGED <<value, leftover, obj, expect>>,
         \A q \in Readers : Outcome(q)' = Outcome(q)
  PROVE  UNCHANGED Abstract!mapVars
<1>1. promiseBar' = promiseBar
  BY DEF promiseBar, Promised
<1>2. targetBar' = targetBar
  BY DEF targetBar
<1>3. sawBar' = sawBar
  BY DEF sawBar, Promised
<1>4. answerBar' = answerBar
  BY DEF answerBar
<1> QED BY <1>1, <1>2, <1>3, <1>4 DEF Abstract!mapVars

\* The answer of a GET that ends is one that the promise allows.
LEMMA OutcomeKept ==
  ASSUME ReadInv, Tolerated, NEW p \in Readers, pc[p] = "done", obj[p] # None
  PROVE  Outcome(p) \in Abstract!Kept(sawBar[p])
<1> DEFINE v == Promised(expect[p], obj[p])
<1>0. p \in Clients /\ sawBar[p] = v
  BY DEF sawBar, Clients
<1>1. TypeInv /\ AbsentReads /\ ReadProgress
  BY DEF ReadInv, AbsenceInv
<1>2. Outcome(p) \in Abstract!Answers
  <2>1. Received(p) # {} => OneOf(Received(p)) \in Contents
    BY DEF OneOf, Received
  <2> QED BY <2>1 DEF Outcome, Abstract!Answers
<1>3. CASE v = Unknown
  BY <1>0, <1>2, <1>3 DEF Abstract!Kept
<1>4. CASE v # Unknown /\ expect[p] = None
  <2>1. v = None
    BY <1>4, ValuesAssumption DEF Promised
  <2>2. reply[p] \in {"ErrObjectNotFound", "ErrWalk", "ErrIO"}
    BY <1>0, <1>1, <1>4 DEF AbsentReads
  <2>3. Outcome(p) \in {"absent", "again"}
    BY <2>2 DEF Outcome
  <2> QED BY <1>0, <2>1, <2>3, ValuesAssumption DEF Abstract!Kept
<1>5. CASE v # Unknown /\ expect[p] \in Contents
  <2> DEFINE c == expect[p]
  <2>1. v = c /\ ~leftover[obj[p]]
    BY <1>5 DEF Promised
  <2>2. Reading(p, c)
    BY <1>0, <1>1, <1>5, <2>1 DEF ReadProgress
  <2>3. reply[p] \in {"ok", "ErrWalk", "ErrIO"} /\ PrefixOf(p, c)
    BY <2>2 DEF Reading
  <2>4. reply[p] = "ok" => size[p] = Size[c] /\ ~HasStripe(c, Len(out[p]))
    BY <2>2 DEF Reading
  <2>5. ASSUME reply[p] = "ok", NEW d \in Received(p) PROVE d = c
    <3>1. /\ d \in Contents /\ Size[d] = Size[c] /\ PrefixOf(p, d)
          /\ ~HasStripe(c, Len(out[p]))
      BY <2>4, <2>5 DEF Received
    <3>2. Len(out[p]) \in Nat
      BY <1>0, <1>1 DEF TypeInv, TypeOK, ReaderOK
    <3>3. CASE Len(out[p]) = 0
      <4>1. Size[c] \in Nat /\ StripeSize \in Nat
        BY <1>5, StoreAssumption
      <4>2. Size[c] = 0
        BY <3>1, <3>3, <4>1 DEF HasStripe
      <4> QED BY <1>5, <3>1, <4>2, MapAssumption
    <3>4. CASE Len(out[p]) # 0
      <4>1. 1 \in 1 .. Len(out[p])
        BY <3>2, <3>4
      <4>2. out[p][1] = [cw |-> <<c, 0>>, len |-> StripeLen(c, 0)]
        BY <2>3, <4>1 DEF PrefixOf
      <4>3. out[p][1] = [cw |-> <<d, 0>>, len |-> StripeLen(d, 0)]
        BY <3>1, <4>1 DEF PrefixOf
      <4>4. out[p][1].cw = <<c, 0>> /\ out[p][1].cw = <<d, 0>>
        BY <4>2, <4>3
      <4> QED BY <4>4
    <3> QED BY <3>3, <3>4
  <2>6. reply[p] = "ok" => c \in Received(p)
    BY <1>5, <2>3, <2>4 DEF Received
  <2>7. Outcome(p) \in {c, "again"}
    <3>1. CASE reply[p] = "ok"
      <4>1. OneOf(Received(p)) \in Received(p)
        BY <2>6, <3>1 DEF OneOf
      <4> QED BY <2>5, <2>6, <3>1, <4>1 DEF Outcome
    <3>2. CASE reply[p] # "ok"
      BY <2>3, <3>2 DEF Outcome
    <3> QED BY <3>1, <3>2
  <2>8. v # None
    BY <1>5, <2>1, ValuesAssumption
  <2> QED BY <1>0, <1>5, <2>1, <2>7, <2>8 DEF Abstract!Kept
<1>6. expect[p] \in Contents \cup {None, Unknown}
  BY <1>0, <1>1 DEF TypeInv, TypeOK, GhostsOK
<1>7. expect[p] = Unknown => v = Unknown
  BY DEF Promised
<1> QED BY <1>3, <1>4, <1>5, <1>6, <1>7

\* Every answer given keeps its promise.
AnswersKept ==
  \A p \in Readers : pc[p] = "done" /\ obj[p] # None => Outcome(p) \in Abstract!Kept(sawBar[p])

\* It follows from the invariant.
LEMMA KeptNow == ASSUME Tolerated PROVE ReadInv => AnswersKept
BY OutcomeKept DEF AnswersKept

\* A GET that ends answers.
LEMMA AnswerStep ==
  ASSUME ReadInv, AnswersKept', NEW p \in Readers, pc[p] \in GetStates, pc'[p] = "done",
         UNCHANGED <<value, leftover, obj, expect>>,
         \A q \in Readers \ {p} : Outcome(q)' = Outcome(q)
  PROVE  Abstract!Answer(p)
<1>1. p \in Clients /\ pc[p] # "done" /\ obj[p] # None
  BY ValuesAssumption
  DEF Clients, GetStates, ReadInv, AbsenceInv, TypeInv, LocalsOK
<1>2. UNCHANGED <<promiseBar, targetBar, sawBar>>
  BY DEF promiseBar, targetBar, sawBar, Promised
<1>3. targetBar[p] # None /\ answerBar[p] = None
  <2>1. Outcome(p) = None
    BY <1>1 DEF Outcome
  <2> QED BY <1>1, <2>1 DEF targetBar, answerBar
<1>4. Outcome(p)' \in Abstract!Kept(sawBar[p])
  BY <1>1, <1>2 DEF AnswersKept
<1>5. answerBar' = [answerBar EXCEPT ![p] = Outcome(p)']
  BY DEF answerBar
<1>6. \E r \in Abstract!Kept(sawBar[p]) : answerBar' = [answerBar EXCEPT ![p] = r]
  BY <1>4, <1>5
<1> QED BY <1>2, <1>3, <1>6 DEF Abstract!Answer

\* A step of a request is an answer, or no step of the map, unless it
\* acknowledges a PUT or a DELETE.
LEMMA RequestStep ==
  ASSUME ReadInv, AnswersKept', RolesInv, NEW p \in Clients, Step(p) \/ RequestFail(p),
         ~(MarkerWrite(p) \/ DelMarker(p))
  PROVE  [Abstract!MapNext]_(Abstract!mapVars)
<1>1. /\ UNCHANGED <<value, leftover, obj, expect>>
      /\ \A q \in Clients \ {p} : /\ pc'[q] = pc[q] /\ reply'[q] = reply[q]
                                  /\ size'[q] = size[q] /\ out'[q] = out[q]
      /\ pc[p] \in PutStates \cup DelStates \cup GetStates
      /\ pc[p] \in GetStates => pc'[p] \in GetStates \cup {"done"}
  BY StepFrame DEF ReadInv, AbsenceInv
<1>2. \A q \in Readers \ {p} : Outcome(q)' = Outcome(q)
  BY <1>1, OutcomeFrame DEF Clients
<1>3. CASE p \notin Readers
  BY <1>1, <1>2, <1>3, Silent
<1>4. CASE p \in Readers
  <2>1. pc[p] \in GetStates
    BY <1>1, <1>4 DEF RolesInv
  <2>2. CASE pc'[p] = "done"
    <3>1. Abstract!Answer(p)
      BY <1>1, <1>2, <1>4, <2>1, <2>2, AnswerStep
    <3> QED BY <1>4, <3>1 DEF Abstract!MapNext
  <2>3. CASE pc'[p] # "done"
    <3>1. Outcome(p) = None /\ Outcome(p)' = None
      BY <2>1, <2>3 DEF Outcome, GetStates
    <3> QED BY <1>1, <1>2, <3>1, Silent
  <2> QED BY <2>2, <2>3
<1> QED BY <1>3, <1>4

\* An acknowledged PUT or DELETE that ran alone renews the promise, unless it
\* left shards behind.
LEMMA AcknowledgeStep ==
  ASSUME ReadInv, RolesInv, NEW p \in Clients, MarkerWrite(p) \/ DelMarker(p)
  PROVE  [Abstract!MapNext]_(Abstract!mapVars)
<1> DEFINE o == obj[p]
<1>0. TypeInv /\ Exclusion /\ Step(p)
  BY DEF ReadInv, AbsenceInv, Step
<1>1. /\ UNCHANGED <<obj, expect>>
      /\ \A q \in Clients \ {p} : /\ pc'[q] = pc[q] /\ reply'[q] = reply[q]
                                  /\ size'[q] = size[q] /\ out'[q] = out[q]
  BY <1>0, StepFrame
<1>2. Mutating(p) /\ o \in Objects /\ p \notin Readers /\ value[o] = Unknown
  BY <1>0 DEF MarkerWrite, DelMarker, Mutating, PutStates, DelStates, RolesInv, Exclusion, TypeInv, LocalsOK
<1>3. \A q \in Readers : Outcome(q)' = Outcome(q)
  BY <1>1, <1>2, OutcomeFrame DEF Clients
<1>4. UNCHANGED <<targetBar, answerBar>>
  BY <1>1, <1>3 DEF targetBar, answerBar
<1>5. \/ UNCHANGED <<value, leftover>>
      \/ \E c \in Contents \cup {None}, l \in BOOLEAN :
           value' = [value EXCEPT ![o] = c] /\ leftover' = [leftover EXCEPT ![o] = l]
  <2>1. ASSUME MarkerWrite(p)
        PROVE  UNCHANGED <<value, leftover>> \/ Acknowledge(p, cont[p], HasLeftover(o, cont[p]))
    BY <2>1 DEF MarkerWrite, ghosts
  <2>2. ASSUME DelMarker(p) PROVE Acknowledge(p, None, FALSE)
    BY <2>2 DEF DelMarker
  <2>3. MarkerWrite(p) => cont[p] \in Contents
    BY <1>0 DEF MarkerWrite, TypeInv, LocalsOK, PutStates
  <2>4. HasLeftover(o, cont[p]) \in BOOLEAN
    BY DEF HasLeftover
  <2> QED BY <2>1, <2>2, <2>3, <2>4 DEF Acknowledge
<1>6. CASE UNCHANGED <<value, leftover>>
  BY <1>1, <1>3, <1>6, Silent
<1>7. ASSUME NEW c \in Contents \cup {None}, NEW l \in BOOLEAN,
             value' = [value EXCEPT ![o] = c], leftover' = [leftover EXCEPT ![o] = l]
      PROVE  [Abstract!MapNext]_(Abstract!mapVars)
  <2> DEFINE v == IF c \in Contents /\ l THEN Unknown ELSE c
  <2>1. value \in [Objects -> Contents \cup {None, Unknown}] /\ leftover \in [Objects -> BOOLEAN]
    BY <1>0 DEF TypeInv, TypeOK, GhostsOK
  <2>2. promiseBar[o] = Unknown
    BY <1>2 DEF promiseBar, Promised
  <2>3. value'[o] = c /\ leftover'[o] = l
        /\ \A x \in Objects : x # o => value'[x] = value[x] /\ leftover'[x] = leftover[x]
    BY <1>2, <1>7, <2>1
  <2>4. promiseBar' = [promiseBar EXCEPT ![o] = v]
    <3>1. \A x \in Objects : promiseBar'[x] = IF x = o THEN v ELSE promiseBar[x]
      BY <2>3 DEF promiseBar, Promised
    <3> QED BY <3>1 DEF promiseBar
  <2>5. sawBar' = sawBar
    <3>1. ASSUME NEW q \in Readers, obj[q] # None
          PROVE  Promised(expect[q], obj[q])' = Promised(expect[q], obj[q])
      <4>1. CASE obj[q] = o
        <5>1. expect[q] = Unknown
          BY <1>0, <1>2, <4>1 DEF Exclusion, Clients
        <5> QED BY <1>1, <5>1, ValuesAssumption DEF Promised
      <4>2. CASE obj[q] # o
        <5>1. obj[q] \in Objects
          BY <1>0, <3>1 DEF TypeInv, TypeOK, ControlOK, Clients
        <5> QED BY <1>1, <2>3, <4>2, <5>1 DEF Promised
      <4> QED BY <4>1, <4>2
    <3> QED BY <1>1, <3>1 DEF sawBar
  <2>6. CASE v = Unknown
    <3>1. promiseBar' = promiseBar
      BY <2>2, <2>4, <2>6 DEF promiseBar
    <3> QED BY <1>4, <2>5, <3>1 DEF Abstract!mapVars
  <2>7. CASE v # Unknown
    <3>1. v = c
      BY <2>7
    <3>2. Abstract!Renew(o, c)
      BY <1>4, <2>2, <2>4, <2>5, <3>1 DEF Abstract!Renew
    <3> QED BY <1>2, <3>2 DEF Abstract!MapNext
  <2> QED BY <2>6, <2>7
<1> QED BY <1>5, <1>6, <1>7

\* A PUT or a DELETE that begins suspends the promise.
LEMMA SuspendStep ==
  ASSUME ReadInv, RolesInv, NEW p \in Writers, NEW o \in Objects,
         (\E c \in Contents : PutStart(p, o, c)) \/ DelStart(p, o)
  PROVE  Abstract!Suspend(o)
<1>1. TypeInv /\ p \in Clients /\ p \notin Readers
  BY MapAssumption DEF ReadInv, AbsenceInv, Clients
<1>2. /\ UNCHANGED <<leftover, reply, size, out>>
      /\ value' = [value EXCEPT ![o] = Unknown] /\ obj' = [obj EXCEPT ![p] = o]
      /\ expect' = [q \in Clients |-> IF obj[q] = o THEN Unknown ELSE expect[q]]
      /\ \A q \in Clients \ {p} : pc'[q] = pc[q]
  BY <1>1 DEF PutStart, DelStart, BeginMutation, Goto, reader, TypeInv, TypeOK, ControlOK
<1>3. \A q \in Readers : q \in Clients /\ q # p /\ obj'[q] = obj[q]
  BY <1>1, <1>2 DEF TypeInv, TypeOK, ControlOK, Clients
<1>4. answerBar' = answerBar
  <2>1. \A q \in Readers : Outcome(q)' = Outcome(q)
    BY <1>2, <1>3, OutcomeFrame
  <2> QED BY <2>1 DEF answerBar
<1>5. targetBar' = targetBar
  BY <1>3 DEF targetBar
<1>6. promiseBar' = [promiseBar EXCEPT ![o] = Unknown]
  <2>1. value \in [Objects -> Contents \cup {None, Unknown}]
    BY <1>1 DEF TypeInv, TypeOK, GhostsOK
  <2>2. \A x \in Objects : promiseBar'[x] = IF x = o THEN Unknown ELSE promiseBar[x]
    BY <1>2, <2>1 DEF promiseBar, Promised
  <2> QED BY <2>2 DEF promiseBar
<1>7. sawBar' = [q \in Readers |-> IF targetBar[q] = o THEN Unknown ELSE sawBar[q]]
  <2>1. ASSUME NEW q \in Readers
        PROVE  sawBar'[q] = IF targetBar[q] = o THEN Unknown ELSE sawBar[q]
    <3>1. obj'[q] = obj[q] /\ targetBar[q] = obj[q]
          /\ expect'[q] = IF obj[q] = o THEN Unknown ELSE expect[q]
      BY <1>2, <1>3 DEF targetBar
    <3> QED BY <1>2, <3>1, ValuesAssumption DEF sawBar, Promised
  <2> QED BY <2>1 DEF sawBar
<1> QED BY <1>4, <1>5, <1>6, <1>7 DEF Abstract!Suspend

\* A GET that begins asks.
LEMMA AskStep ==
  ASSUME ReadInv, RolesInv, NEW p \in Readers, NEW o \in Objects, GetStart(p, o)
  PROVE  Abstract!Ask(p, o)
<1>1. TypeInv /\ p \in Clients /\ obj[p] = None
  BY DEF ReadInv, AbsenceInv, Clients, RolesInv, GetStart
<1>2. /\ UNCHANGED <<value, leftover, reply, size, out>>
      /\ obj' = [obj EXCEPT ![p] = o] /\ expect' = [expect EXCEPT ![p] = value[o]]
      /\ \A q \in Clients \ {p} : pc'[q] = pc[q]
      /\ pc[p] = "idle" /\ pc'[p] = "getList"
  BY <1>1 DEF GetStart, Goto, reader, TypeInv, TypeOK, ControlOK
<1>3. /\ obj'[p] = o /\ expect'[p] = value[o]
      /\ \A q \in Readers : q # p => obj'[q] = obj[q] /\ expect'[q] = expect[q]
  BY <1>1, <1>2 DEF TypeInv, TypeOK, ControlOK, GhostsOK, Clients
<1>4. answerBar' = answerBar
  <2>1. \A q \in Readers : q # p => Outcome(q)' = Outcome(q)
    BY <1>2, OutcomeFrame DEF Clients
  <2>2. Outcome(p) = None /\ Outcome(p)' = None
    BY <1>2 DEF Outcome
  <2> QED BY <2>1, <2>2 DEF answerBar
<1>5. targetBar[p] = None /\ targetBar' = [targetBar EXCEPT ![p] = o]
  BY <1>1, <1>3 DEF targetBar
<1>6. promiseBar' = promiseBar
  BY <1>2 DEF promiseBar, Promised
<1>7. sawBar' = [sawBar EXCEPT ![p] = promiseBar[o]]
  <2>1. ASSUME NEW q \in Readers
        PROVE  sawBar'[q] = IF q = p THEN promiseBar[o] ELSE sawBar[q]
    BY <1>2, <1>3, ValuesAssumption DEF sawBar, promiseBar, Promised
  <2> QED BY <2>1 DEF sawBar
<1> QED BY <1>4, <1>5, <1>6, <1>7 DEF Abstract!Ask

\* Answers that are taken and requests that die with the process are forgotten.
LEMMA ForgetStep ==
  ASSUME TypeInv, NEW S \in SUBSET Clients, Reset(S)
  PROVE  Abstract!Forget(S \cap Readers)
<1>1. /\ UNCHANGED <<value, leftover>>
      /\ \A q \in Clients : IF q \in S THEN pc'[q] = "idle" /\ obj'[q] = None
                            ELSE /\ pc'[q] = pc[q] /\ obj'[q] = obj[q] /\ expect'[q] = expect[q]
                                 /\ reply'[q] = reply[q] /\ size'[q] = size[q] /\ out'[q] = out[q]
  BY DEF Reset
<1>2. promiseBar' = promiseBar
  BY <1>1 DEF promiseBar, Promised
<1>3. ASSUME NEW q \in Readers
      PROVE  IF q \in S \cap Readers
             THEN targetBar'[q] = None /\ sawBar'[q] = Unknown /\ answerBar'[q] = None
             ELSE targetBar'[q] = targetBar[q] /\ sawBar'[q] = sawBar[q] /\ answerBar'[q] = answerBar[q]
  <2>1. CASE q \in S
    <3>1. Outcome(q)' = None /\ obj'[q] = None
      BY <1>1, <2>1 DEF Outcome, Clients
    <3> QED BY <2>1, <3>1 DEF targetBar, sawBar, answerBar
  <2>2. CASE q \notin S
    <3>1. Outcome(q)' = Outcome(q) /\ obj'[q] = obj[q] /\ expect'[q] = expect[q]
      BY <1>1, <2>2, OutcomeFrame DEF Clients
    <3> QED BY <1>1, <2>2, <3>1 DEF targetBar, sawBar, answerBar, Promised
  <2> QED BY <2>1, <2>2
<1>4. /\ targetBar' = [q \in Readers |-> IF q \in S \cap Readers THEN None ELSE targetBar[q]]
      /\ sawBar' = [q \in Readers |-> IF q \in S \cap Readers THEN Unknown ELSE sawBar[q]]
      /\ answerBar' = [q \in Readers |-> IF q \in S \cap Readers THEN None ELSE answerBar[q]]
  BY <1>3 DEF targetBar, sawBar, answerBar
<1> QED BY <1>2, <1>4 DEF Abstract!Forget

-----------------------------------------------------------------------------
\* Every step of the store is one of the map or leaves the map as it is.
LEMMA MapStep ==
  ASSUME ReadInv, AnswersKept', RolesInv, [Next]_vars
  PROVE  [Abstract!MapNext]_(Abstract!mapVars)
<1>1. ASSUME NEW p \in Clients, Start(p) PROVE Abstract!MapNext
  <2>1. PICK o \in Objects : \/ p \in Writers /\ \E c \in Contents : PutStart(p, o, c)
                             \/ p \in Writers /\ DelStart(p, o)
                             \/ p \in Readers /\ GetStart(p, o)
    BY <1>1 DEF Start
  <2>2. CASE p \in Writers /\ ((\E c \in Contents : PutStart(p, o, c)) \/ DelStart(p, o))
    BY <2>2, SuspendStep DEF Abstract!MapNext
  <2>3. CASE p \in Readers /\ GetStart(p, o)
    BY <2>3, AskStep DEF Abstract!MapNext
  <2> QED BY <2>1, <2>2, <2>3
<1>2. ASSUME NEW p \in Clients, Step(p) \/ RequestFail(p)
      PROVE  [Abstract!MapNext]_(Abstract!mapVars)
  BY <1>2, RequestStep, AcknowledgeStep
<1>3. ASSUME NEW S \in SUBSET Clients, Reset(S) PROVE Abstract!MapNext
  BY <1>3, ForgetStep DEF Abstract!MapNext, ReadInv, AbsenceInv
<1>4. ASSUME NEW k \in Keys, NEW kind \in FaultKinds, Fault(k, kind)
      PROVE  UNCHANGED Abstract!mapVars
  BY <1>4, OutcomeFrame, Silent DEF Fault, req, reader, ghosts
<1>5. CASE UNCHANGED vars
  BY <1>5, OutcomeFrame, Silent DEF vars, req, reader, ghosts
<1> QED BY <1>1, <1>2, <1>3, <1>4, <1>5 DEF Next, Return, Crash

\* An empty store is an empty map.
LEMMA MapStart == Init => Abstract!MapInit
<1> SUFFICES ASSUME Init PROVE Abstract!MapInit
  OBVIOUS
<1>1. /\ \A o \in Objects : value[o] = None
      /\ \A p \in Readers : obj[p] = None /\ pc[p] = "idle"
  BY DEF Init, Clients
<1>2. promiseBar = [o \in Objects |-> None]
  BY <1>1, ValuesAssumption DEF promiseBar, Promised
<1>3. targetBar = [p \in Readers |-> None] /\ sawBar = [p \in Readers |-> Unknown]
  BY <1>1 DEF targetBar, sawBar
<1>4. answerBar = [p \in Readers |-> None]
  BY <1>1 DEF answerBar, Outcome
<1> QED BY <1>2, <1>3, <1>4 DEF Abstract!MapInit

\* PutObject, GetObject with its reader and DeleteObject implement the map of
\* objects, through crashes, failing requests, overlapping requests and any
\* damage that the parity covers.
THEOREM StoreIsObjectMap ==
  ASSUME FaultKinds \subseteq {"missing", "payload"}, FaultBudget <= ParityShards
  PROVE  Spec => ImplementsObjectMap
<1>1. Spared /\ Tolerated
  BY ParamsAssumption, StoreAssumption DEF Spared, Tolerated, Mild, NewOK, ShardCount
<1>2. Init => RolesInv
  BY DEF Init, RolesInv, PutStates, DelStates
<1>3. ReadInv /\ [Next]_vars => ReadInv'
  BY <1>1, ReadNext
<1>4. ReadInv /\ RolesInv /\ [Next]_vars => RolesInv'
  BY RolesNext DEF ReadInv, AbsenceInv
<1>5. ReadInv => AnswersKept
  BY <1>1, KeptNow
<1>6. ReadInv /\ RolesInv /\ AnswersKept' /\ [Next]_vars => [Abstract!MapNext]_(Abstract!mapVars)
  BY MapStep
<1> QED
  BY ReadInit, MapStart, <1>2, <1>3, <1>4, <1>5, <1>6, PTL
     DEF Spec, ImplementsObjectMap, Abstract!MapSpec
=============================================================================
