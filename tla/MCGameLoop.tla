----------------------------- MODULE MCGameLoop -----------------------------
(* Instances of GameLoop for TLC. *)
EXTENDS GameLoop
=============================================================================
