------------------------- MODULE MCFramedConnection -------------------------
(* Instances of FramedConnection for TLC. *)
EXTENDS FramedConnection

CONSTANTS short, long

MCMessages == {short, long}

MCSize == [m \in MCMessages |-> IF m = short THEN 1 ELSE 2]
=============================================================================
