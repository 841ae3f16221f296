--------------------------- MODULE MCClientViews ---------------------------
(* Instances of ClientViews for TLC. *)
EXTENDS ClientViews

CONSTANTS c1, c2, c3

MCConnections2 == {c1, c2}
MCConnections3 == {c1, c2, c3}
MCNoWebSockets == {}
MCWebSockets == {c3}

\* A value that is no player's id, and one that becomes some player's.
MCHarmless == {99}
MCGarbage == {0, 99}
=============================================================================
