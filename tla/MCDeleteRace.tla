---------------------------- MODULE MCDeleteRace ----------------------------
(***************************************************************************)
(* Two clients whose PUTs and DELETEs of one object overlap.               *)
(***************************************************************************)
EXTENDS DeleteRace

CONSTANTS empty, short, full, long, w1, w2, r1, a, b

MCSize == [c \in Contents |-> CASE c = empty -> 0 [] c = short -> 1
                                  [] c = full -> 3 [] c = long -> 4]
=============================================================================
