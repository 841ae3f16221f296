-------------------------- MODULE MCReconciliation --------------------------
(* Instances of Reconciliation for TLC. *)
EXTENDS Reconciliation

CONSTANTS none, left, right

MCControls == {none, left, right}
MCDirection == [c \in MCControls |->
                  CASE c = none -> 0 [] c = left -> -1 [] c = right -> 1]
=============================================================================
