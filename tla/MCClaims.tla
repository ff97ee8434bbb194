------------------------------ MODULE MCClaims ------------------------------
(***************************************************************************)
(* A small instance on which the claim of ObjectStoreClaims fails.         *)
(***************************************************************************)
EXTENDS ObjectStoreClaims

CONSTANTS empty, short, full, long, w1, w2, r1, a, b

MCSize == [c \in Contents |-> CASE c = empty -> 0 [] c = short -> 1
                                  [] c = full -> 3 [] c = long -> 4]
=============================================================================
