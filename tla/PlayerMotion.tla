---------------------------- MODULE PlayerMotion ----------------------------
(***************************************************************************)
(* Player::Update and InterpolationProcess::Update along one axis, as      *)
(* operators.  One step of m_desired_delta is the unit of time.  With      *)
(* ACCELERATION and DAMP of 30 a velocity is a whole number of half units  *)
(* (VelocityCap = 16, Acceleration = Damp = 1), and a position a whole     *)
(* number of the 1/120 units that such a velocity moves in a step.         *)
(***************************************************************************)
EXTENDS Integers, Sequences

CONSTANTS
  VelocityCap,     \* Player::VELOCITY_CAP
  Acceleration,    \* Player::ACCELERATION, times a step
  Damp,            \* Player::DAMP, times a step
  StaticStep,      \* what InterpolationProcess moves a player at least: 2
  DynamicShare,    \* and in addition its offset divided by this: 60
  Tolerance        \* largest difference that is not corrected: 2

ASSUME MotionAssumption ==
  /\ VelocityCap \in Nat
  /\ Acceleration \in Nat
  /\ Damp \in Nat
  /\ StaticStep \in Nat \ {0}
  /\ DynamicShare \in Nat \ {0}
  /\ Tolerance \in Nat

Directions == {-1, 0, 1}

Player == [pos : Int, vel : Int]

Abs(x) == IF x < 0 THEN -x ELSE x
Sign(x) == IF x < 0 THEN -1 ELSE IF x = 0 THEN 0 ELSE 1

Capped(v) == IF Abs(v) >= VelocityCap THEN Sign(v) * VelocityCap ELSE v
Damped(v) == IF Damp > Abs(v) THEN 0 ELSE v - Sign(v) * Damp

\* The player p after one step with the controls' direction d.
Move(p, d) ==
  LET faster == Capped(p.vel + d * Acceleration)
      v      == IF d = 0 THEN Damped(faster) ELSE faster
  IN  [pos |-> p.pos + v, vel |-> v]

\* The player p after n steps with direction d.
Run(p, d, n) ==
  LET after[i \in 0 .. n] == IF i = 0 THEN p ELSE Move(after[i - 1], d)
  IN  after[n]

\* The player p after k periods, the i-th of steps[i] steps with direction[i].
RunThrough(p, direction, steps, k) ==
  LET after[i \in 0 .. k] ==
        IF i = 0 THEN p ELSE Run(after[i - 1], direction[i], steps[i])
  IN  after[k]

\* How far one Update of InterpolationProcess can move the player towards an
\* offset: the dynamic part is a fraction, rounded here to either side.  The
\* last Update moves it by what is left.
Corrections_Overshoot(offset) ==
  IF offset = 0 THEN {0}
  ELSE {Sign(offset) * (StaticStep + Abs(offset) \div DynamicShare)}

Corrections(offset) ==
  LET least == StaticStep + Abs(offset) \div DynamicShare
  IN  {IF s >= Abs(offset) THEN offset ELSE Sign(offset) * s :
         s \in {least, least + 1}}

NewOffset_Add(offset, difference) ==
  IF Abs(difference) > Tolerance THEN offset + difference ELSE offset

\* The end of NetworkInputManager::Receive: a new offset replaces the one
\* being worked off, and a difference too small leaves that one as it is.
NewOffset(offset, difference) ==
  IF Abs(difference) > Tolerance THEN difference ELSE offset
=============================================================================
