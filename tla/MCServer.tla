------------------------------ MODULE MCServer ------------------------------
(***************************************************************************)
(* Small instance of Server for TLC.                                       *)
(***************************************************************************)
EXTENDS Server

CONSTANTS g1, g2

\* Shard counts that are absent, no number, too small, fine, too large, and so
\* large that their sum wraps around.
With(k, m, s, l) == [Unchanged EXCEPT !.k = k, !.m = m, !.stripe = s, !.level = l]
MCEnvs == {With(k, m, Unset, l) : k \in {Unset, Bad, 0}, m \in {Unset, 0, 2}, l \in {Unset, "loud"}}
MCFlags ==
  {With(k, m, Unset, Unset) : k \in {Unset, Bad, 1, 255, MaxInt}, m \in {Unset, 0, 1}}
    \cup {With(1, 1, 0, Unset), With(1, 1, 1, "loud"), [Unchanged EXCEPT !.node = ""]}

\* The schemes these settings can add up to.
MCSchemes == {0, 1, 4, 255, MaxInt} \X {0, 1, 2}
=============================================================================
