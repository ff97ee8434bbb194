--------------------------- MODULE MCObjectReader ---------------------------
(***************************************************************************)
(* Small instance of ObjectReader for TLC.                                 *)
(***************************************************************************)
EXTENDS ObjectReader

\* Schemes below, at and above each other's k and m, with two stripe sizes.
MCConfigs == [k : 1 .. 3, m : 1 .. 2, stripe : 2 .. 3]
=============================================================================
