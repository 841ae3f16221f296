----------------------------- MODULE MCSettling -----------------------------
(* Instances of Settling for TLC. *)
EXTENDS Settling
=============================================================================
