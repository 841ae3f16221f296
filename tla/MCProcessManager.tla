-------------------------- MODULE MCProcessManager --------------------------
(* Instances of ProcessManager for TLC. *)
EXTENDS ProcessManager

CONSTANTS p1, p2, p3

MCProcesses == {p1, p2, p3}
=============================================================================
