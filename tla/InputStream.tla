---------------------------- MODULE InputStream ----------------------------
(***************************************************************************)
(* What the input protocol of Enflopio promises, with no network, queue or *)
(* clock in it: a client issues a stream of control states, the server     *)
(* applies them in the order they were issued, one at a time and none      *)
(* twice, and the client forgets an input only after the server applied    *)
(* it.  InputSync implements this specification.                           *)
(***************************************************************************)
EXTENDS Naturals, Sequences

CONSTANTS
  Controls,    \* the control states a player can be in
  NoControls   \* the state of a player that presses nothing

VARIABLES
  issued,      \* every control state issued by the client, in order
  applied,     \* how many of them the server has applied
  inForce,     \* the control state the server moves the player with
  forgotten    \* how many of them the client knows to be applied

vars == <<issued, applied, inForce, forgotten>>

\* The control state in force after the first k inputs of the stream s.
After(s, k) == IF k = 0 THEN NoControls ELSE s[k]

Init ==
  /\ issued = <<>>
  /\ applied = 0
  /\ inForce = NoControls
  /\ forgotten = 0

\* The client issues an input only when its controls change.
Issue(c) ==
  /\ c # After(issued, Len(issued))
  /\ issued' = Append(issued, c)
  /\ UNCHANGED <<applied, inForce, forgotten>>

Apply ==
  /\ applied < Len(issued)
  /\ applied' = applied + 1
  /\ inForce' = issued[applied + 1]
  /\ UNCHANGED <<issued, forgotten>>

Forget(k) ==
  /\ forgotten < k /\ k <= applied
  /\ forgotten' = k
  /\ UNCHANGED <<issued, applied, inForce>>

Next ==
  \/ \E c \in Controls : Issue(c)
  \/ Apply
  \/ \E k \in 1 .. applied : Forget(k)

Spec == Init /\ [][Next]_vars
=============================================================================
