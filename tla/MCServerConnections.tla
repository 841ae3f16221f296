------------------------ MODULE MCServerConnections ------------------------
(* Instances of ServerConnections for TLC. *)
EXTENDS ServerConnections, TLC

CONSTANTS c1, c2, c3

MCConnections == {c1, c2, c3}
MCWebSockets == {c3}

\* A value that is no player's id, and one that becomes some player's.
MCGarbage == {0, 99}

Symmetry == Permutations({c1, c2})
=============================================================================
