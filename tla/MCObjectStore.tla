--------------------------- MODULE MCObjectStore ---------------------------
(***************************************************************************)
(* Small instances of ObjectStore for TLC.                                 *)
(***************************************************************************)
EXTENDS ObjectMapImpl, TLC

CONSTANTS empty, short, full, long, w1, w2, r1, a, b

\* With stripes of 3 bytes: no stripe, a partial one, a full one, a full and a
\* partial one.  With k = 2 a full stripe is padded to two shards of 2 bytes.
MCSize == [c \in Contents |-> CASE c = empty -> 0 [] c = short -> 1
                                  [] c = full -> 3 [] c = long -> 4]

WriterSymmetry == Permutations(Writers)
=============================================================================
