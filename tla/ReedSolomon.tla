---------------------------- MODULE ReedSolomon ----------------------------
(***************************************************************************)
(* github.com/klauspost/reedsolomon (external), as far as internal/ec      *)
(* depends on it: the schemes of k data and m parity shards it has a code  *)
(* for.                                                                    *)
(***************************************************************************)
EXTENDS Integers

\* reedsolomon.New succeeds.  The sum is the true one: a sum that has wrapped
\* around is negative, and there is no matrix of that size.
NewOK(k, m) == k >= 1 /\ m >= 1 /\ k + m <= 256
=============================================================================
