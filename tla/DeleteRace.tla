----------------------------- MODULE DeleteRace -----------------------------
(***************************************************************************)
(* Overlapping DELETEs of one object in ObjectStore, without faults or     *)
(* failures.  DeleteObject stops with an error at the first listed shard   *)
(* that is gone already, so a DELETE that loses the race gives up half-way *)
(* and relies on the others to finish.  The history variable records how   *)
(* far the DELETEs since the last settled state of an object have got.     *)
(***************************************************************************)
EXTENDS ObjectStore

ASSUME NoFailures == Failures = {} /\ FaultKinds = {}

VARIABLE deleting  \* [Objects -> {"no", "asked", "begun"}]

PutBegins(o) ==
  \E p \in Clients : pc[p] = "idle" /\ pc'[p] \in PutStates /\ obj'[p] = o
DelBegins(o) ==
  \E p \in Clients : pc[p] = "idle" /\ pc'[p] = "delList" /\ obj'[p] = o
Removes(o) ==
  \E k \in Keys : k[1] = o /\ files[k] # None /\ files'[k] = None

\* "asked": a DELETE has met an object with a settled value and only DELETEs
\* have followed; "begun": one of them has removed a shard.
Record(o) ==
  IF PutBegins(o) THEN "no"
  ELSE IF DelBegins(o) /\ value[o] # Unknown THEN "asked"
  ELSE IF Removes(o) /\ deleting[o] = "asked" THEN "begun"
  ELSE deleting[o]

RaceInit == Init /\ deleting = [o \in Objects |-> "no"]
RaceNext == Next /\ deleting' = [o \in Objects |-> Record(o)]

\* Every step of a DELETE is one on the file system and waits for nobody: a
\* goroutine that can take it is eventually scheduled.  Nothing is assumed of
\* PUTs, which may wait for their body, and of GETs.
DelStep(p) ==
  \/ pc[p] = "delList" /\ ListError(p)
  \/ DelList(p) \/ DelShard(p) \/ DelMarker(p)

RaceSpec == /\ RaceInit /\ [][RaceNext]_<<vars, deleting>>
            /\ \A p \in Clients : WF_vars(DelStep(p))

Gone(o) == markers[o] = None /\ \A k \in Keys : k[1] = o => files[k] = None

\* DeleteObject: however many DELETEs overlap and however many of them fail
\* with ErrShardNotFound or in the walk, once one of them has removed a shard
\* the object is not left half-deleted when all of them have returned.
DeleteConverges ==
  \A o \in Objects : deleting[o] = "begun" /\ Mutators(o) = {} => Gone(o)

\* DeleteObject: a deletion that has removed one shard goes through to the
\* marker, unless a PUT brings the object back.
DeleteCompletes ==
  \A o \in Objects : deleting[o] = "begun" ~> Gone(o) \/ deleting[o] = "no"
=============================================================================
