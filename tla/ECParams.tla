------------------------------ MODULE ECParams ------------------------------
(***************************************************************************)
(* internal/ec Params: k data shards and m parity shards, two machine      *)
(* integers.                                                               *)
(***************************************************************************)
EXTENDS ReedSolomon

CONSTANT MaxInt    \* the largest int, 2^63 - 1 on the usual platforms

ASSUME WidthAssumption == MaxInt \in Nat /\ MaxInt >= 256

\* ShardCount: the sum of two positive ints, which wraps around.
Plus(k, m) == IF k + m > MaxInt THEN k + m - 2 * (MaxInt + 1) ELSE k + m

\* Params.Validate: at least one shard of each kind, at most 256 together.
Validate(k, m) == k >= 1 /\ m >= 1 /\ ~(Plus(k, m) > 256)
=============================================================================
