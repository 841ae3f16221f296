------------------------------ MODULE Settling ------------------------------
(***************************************************************************)
(* The client's player after the last input: on the server the player      *)
(* stands still, the client has replayed its last movement, and every Sync *)
(* says the same position, so only the interpolation moves the client's    *)
(* player.  The offset may be a stale one: Receive leaves it alone when    *)
(* the difference is small at that moment, however large the offset is.    *)
(***************************************************************************)
EXTENDS PlayerMotion

CONSTANT MaxDistance   \* bound: the position and the offset at the beginning

ASSUME MaxDistanceAssumption == MaxDistance \in Nat

VARIABLES
  position,   \* of the client's player, relative to the server's
  offset      \* InterpolationProcess::offset

vars == <<position, offset>>

Init ==
  /\ position \in -MaxDistance .. MaxDistance
  /\ offset \in -MaxDistance .. MaxDistance

\* App::Simulate with a player that has no velocity.
Interpolate ==
  \E correction \in Corrections(offset) :
    /\ position' = position + correction
    /\ offset' = offset - correction

\* Handle(Sync): the difference from the server's position to the own one.
ReceiveSync ==
  /\ offset' = NewOffset(offset, 0 - position)
  /\ UNCHANGED position

Next == Interpolate \/ ReceiveSync

Spec == Init /\ [][Next]_vars

\* The client simulates, and Syncs keep coming.
FairSpec == Spec /\ WF_vars(Interpolate) /\ WF_vars(ReceiveSync)
-----------------------------------------------------------------------------
TypeOK ==
  /\ position \in Int
  /\ offset \in Int

\* The offset leads to the server's position.
Aimed == position + offset = 0

\* Once a Sync has set the offset, no interleaving of Syncs and interpolation
\* steps makes it lead anywhere else, and the player only comes closer: the last
\* step does not take it past the server's position.
ComesCloser ==
  [][Aimed => Aimed' /\ Abs(position') <= Abs(position)]_vars

\* The two players agree in the end, up to what is not worth a correction, and
\* the interpolation comes to rest.
Settles == <>[](offset = 0 /\ Abs(position) <= Tolerance)
=============================================================================
