----------------------------- MODULE ObjectMap -----------------------------
(***************************************************************************)
(* What ObjectStore promises its callers, without stripes, shards or       *)
(* files: a map from object IDs to contents.  PUT and DELETE of an object  *)
(* suspend the promise about it; an acknowledged one that ran alone        *)
(* renews it.  A GET that no PUT or DELETE of its object overlaps answers  *)
(* with the promised content, reports that there is none, or asks to be    *)
(* sent again.                                                             *)
(***************************************************************************)
CONSTANTS Readers, Objects, Contents,
          None,      \* no object, no request, no answer
          Unknown    \* no promise

VARIABLES promise,  \* [Objects -> Contents, None or Unknown]
          target,   \* the object each reader asks for, or None
          saw,      \* the promise a read has to keep
          answer    \* None until the read has answered

mapVars == <<promise, target, saw, answer>>

\* "absent": ErrObjectNotFound.  "again": the walk over the store failed, or
\* the request itself did.  "broken": any other error.  "garbled": bytes that
\* are no content's.
Answers == Contents \cup {"absent", "again", "broken", "garbled"}

Kept(v) == IF v = Unknown THEN Answers
           ELSE IF v = None THEN {"absent", "again"} ELSE {v, "again"}

MapInit ==
  /\ promise = [o \in Objects |-> None]
  /\ target = [p \in Readers |-> None]
  /\ saw = [p \in Readers |-> Unknown]
  /\ answer = [p \in Readers |-> None]

Suspend(o) ==
  /\ promise' = [promise EXCEPT ![o] = Unknown]
  /\ saw' = [p \in Readers |-> IF target[p] = o THEN Unknown ELSE saw[p]]
  /\ UNCHANGED <<target, answer>>

Renew(o, v) ==
  /\ promise[o] = Unknown
  /\ promise' = [promise EXCEPT ![o] = v]
  /\ UNCHANGED <<target, saw, answer>>

Ask(p, o) ==
  /\ target[p] = None
  /\ target' = [target EXCEPT ![p] = o]
  /\ saw' = [saw EXCEPT ![p] = promise[o]]
  /\ UNCHANGED <<promise, answer>>

Answer(p) ==
  /\ target[p] # None /\ answer[p] = None
  /\ \E r \in Kept(saw[p]) : answer' = [answer EXCEPT ![p] = r]
  /\ UNCHANGED <<promise, target, saw>>

\* Answers are taken, or the process dies and takes its reads with it.
Forget(S) ==
  /\ target' = [p \in Readers |-> IF p \in S THEN None ELSE target[p]]
  /\ saw' = [p \in Readers |-> IF p \in S THEN Unknown ELSE saw[p]]
  /\ answer' = [p \in Readers |-> IF p \in S THEN None ELSE answer[p]]
  /\ UNCHANGED promise

MapNext ==
  \/ \E o \in Objects : Suspend(o) \/ \E v \in Contents \cup {None} : Renew(o, v)
  \/ \E p \in Readers : Answer(p) \/ \E o \in Objects : Ask(p, o)
  \/ \E S \in SUBSET Readers : Forget(S)

MapSpec == MapInit /\ [][MapNext]_mapVars
=============================================================================
