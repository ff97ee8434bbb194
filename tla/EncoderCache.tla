---------------------------- MODULE EncoderCache ----------------------------
(***************************************************************************)
(* internal/ec EncoderFor: the process-wide cache of encoders, a sync.Map  *)
(* from Params to *Encoder, called by every request without a lock.  Two   *)
(* callers can both miss and both build an encoder; LoadOrStore keeps the  *)
(* first.  An encoder is its allocation number and its Params.             *)
(***************************************************************************)
EXTENDS ECParams

CONSTANTS Callers,   \* goroutines
          Schemes,   \* the Params asked for, <<k, m>>
          MaxCalls,  \* bound: calls in a behaviour
          None

Encoders == [id : Nat, parm : Schemes]

ASSUME CacheAssumption ==
  Schemes \subseteq Int \X Int /\ MaxCalls \in Nat /\ None \notin Encoders

VARIABLES encCache,  \* [Schemes -> None or encoder]
          pc,
          want,      \* the argument p of the call
          enc,       \* the encoder this call has built
          allocs,    \* encoders built so far
          calls,     \* calls made so far
          handed     \* ghost: pairs of an argument and the encoder returned

vars == <<encCache, pc, want, enc, allocs, calls, handed>>

Init ==
  /\ encCache = [s \in Schemes |-> None]
  /\ pc = [g \in Callers |-> "idle"]
  /\ want \in [Callers -> Schemes]
  /\ enc = [g \in Callers |-> None]
  /\ allocs = 0 /\ calls = 0 /\ handed = {}

\* The call begins and validates its argument; an invalid one ends it.
Call(g, s) ==
  /\ pc[g] = "idle" /\ calls < MaxCalls
  /\ calls' = calls + 1
  /\ want' = [want EXCEPT ![g] = s]
  /\ pc' = [pc EXCEPT ![g] = IF Validate(s[1], s[2]) THEN "load" ELSE "idle"]
  /\ UNCHANGED <<encCache, enc, allocs, handed>>

Hand(g, e) ==
  /\ handed' = handed \cup {<<want[g], e>>}
  /\ pc' = [pc EXCEPT ![g] = "idle"]

Load(g) ==
  /\ pc[g] = "load"
  /\ IF encCache[want[g]] # None
     THEN Hand(g, encCache[want[g]])
     ELSE pc' = [pc EXCEPT ![g] = "new"] /\ UNCHANGED handed
  /\ UNCHANGED <<encCache, want, enc, allocs, calls>>

\* reedsolomon.New fails on a scheme it has no code for.
New(g) ==
  /\ pc[g] = "new"
  /\ \/ /\ NewOK(want[g][1], want[g][2])
        /\ allocs' = allocs + 1
        /\ enc' = [enc EXCEPT ![g] = [id |-> allocs + 1, parm |-> want[g]]]
        /\ pc' = [pc EXCEPT ![g] = "store"]
     \/ /\ ~NewOK(want[g][1], want[g][2])
        /\ pc' = [pc EXCEPT ![g] = "idle"]
        /\ UNCHANGED <<allocs, enc>>
  /\ UNCHANGED <<encCache, want, calls, handed>>

\* Mutant: Store, the last of two racing callers replaces the first.
StoreAlways(g) ==
  /\ pc[g] = "store"
  /\ encCache' = [encCache EXCEPT ![want[g]] = enc[g]]
  /\ Hand(g, enc[g])
  /\ UNCHANGED <<want, enc, allocs, calls>>

LoadOrStore(g) ==
  /\ pc[g] = "store"
  /\ IF encCache[want[g]] = None
     THEN /\ encCache' = [encCache EXCEPT ![want[g]] = enc[g]]
          /\ Hand(g, enc[g])
     ELSE /\ Hand(g, encCache[want[g]])
          /\ UNCHANGED encCache
  /\ UNCHANGED <<want, enc, allocs, calls>>

Next == \E g \in Callers :
  (\E s \in Schemes : Call(g, s)) \/ Load(g) \/ New(g) \/ LoadOrStore(g)

Spec == Init /\ [][Next]_vars

-----------------------------------------------------------------------------
\* Every variable stays in its range.
TypeOK ==
  /\ encCache \in [Schemes -> Encoders \cup {None}]
  /\ pc \in [Callers -> {"idle", "load", "new", "store"}]
  /\ want \in [Callers -> Schemes]
  /\ enc \in [Callers -> Encoders \cup {None}]
  /\ allocs \in Nat /\ calls \in Nat
  /\ handed \subseteq Schemes \X Encoders

\* EncoderFor: every call with the same Params returns the same encoder,
\* built for those Params, and ones there is a code for, also when the calls
\* race on a cache miss.
OneEncoder ==
  /\ \A x, y \in handed : x[1] = y[1] => x[2] = y[2]
  /\ \A x \in handed : x[2].parm = x[1] /\ NewOK(x[1][1], x[1][2])
=============================================================================
