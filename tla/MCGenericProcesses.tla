------------------------- MODULE MCGenericProcesses -------------------------
(* Instances of GenericProcesses for TLC. *)
EXTENDS GenericProcesses

MCTimes == {0, 1, 2}
=============================================================================
