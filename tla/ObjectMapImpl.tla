--------------------------- MODULE ObjectMapImpl ---------------------------
(***************************************************************************)
(* ObjectStore implements ObjectMap, for readers that send GETs only.  A   *)
(* PUT that left shard files of an older, longer version behind renews no  *)
(* promise.                                                                *)
(***************************************************************************)
EXTENDS ObjectStore

\* A client that sends PUTs and GETs in turn is two; and there is one content
\* without bytes.
ASSUME MapAssumption ==
  /\ Writers \cap Readers = {}
  /\ \A c, d \in Contents : Size[c] = 0 /\ Size[d] = 0 => c = d

Promised(v, o) == IF v \in Contents /\ leftover[o] THEN Unknown ELSE v

\* The content whose bytes, and whose size, client p was given.
Received(p) ==
  {c \in Contents : size[p] = Size[c] /\ PrefixOf(p, c) /\ ~HasStripe(c, Len(out[p]))}

OneOf(S) == CHOOSE c \in S : TRUE

Outcome(p) ==
  IF pc[p] # "done" THEN None
  ELSE CASE reply[p] = "ok" -> IF Received(p) = {} THEN "garbled" ELSE OneOf(Received(p))
         [] reply[p] = "ErrObjectNotFound" -> "absent"
         [] reply[p] \in {"ErrWalk", "ErrIO"} -> "again"
         [] OTHER -> "broken"

\* The refinement mapping.
promiseBar == [o \in Objects |-> Promised(value[o], o)]
targetBar  == [p \in Readers |-> obj[p]]
sawBar     == [p \in Readers |-> IF obj[p] = None THEN Unknown ELSE Promised(expect[p], obj[p])]
answerBar  == [p \in Readers |-> Outcome(p)]

Abstract == INSTANCE ObjectMap WITH
  promise <- promiseBar, target <- targetBar, saw <- sawBar, answer <- answerBar

\* PutObject, GetObject with its reader and DeleteObject implement a map from
\* object IDs to contents: every step of theirs is a step of ObjectMap or
\* changes nothing of it, through crashes, failures and racing readers.
ImplementsObjectMap == Abstract!MapSpec
=============================================================================
