---------------------------- MODULE MCInputSync ----------------------------
(* Instances of InputSync for TLC. *)
EXTENDS InputSync, TLC

CONSTANTS none, left, right

MCControls == {none, left, right}

\* Nothing but the names tells the directions apart.
Symmetry == Permutations({left, right})
=============================================================================
