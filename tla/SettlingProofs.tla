--------------------------- MODULE SettlingProofs ---------------------------
(***************************************************************************)
(* Proofs about Settling, for all values of its constants and any distance *)
(* between the two players.  That they agree in the end rests on fairness  *)
(* and stays with TLC.                                                     *)
(***************************************************************************)
EXTENDS Settling, TLAPS

LEMMA AbsFacts ==
  \A x \in Int : Abs(x) \in Nat /\ Abs(0 - x) = Abs(x)
  BY DEF Abs

\* The division is by a share of at least one.
LEMMA LeastStep ==
  ASSUME NEW o \in Int
  PROVE  StaticStep + Abs(o) \div DynamicShare \in Nat
<1>1. Abs(o) \in Nat
  BY AbsFacts
<1>2. \A a \in Nat, d \in Nat \ {0} : a \div d \in Nat
  BY SMT
<1> QED
  BY <1>1, <1>2, MotionAssumption DEF MotionAssumption

\* An Update of the interpolation leaves less of the offset than there was,
\* and on the same side.
LEMMA CorrectionShortens ==
  ASSUME NEW o \in Int, NEW c \in Corrections(o)
  PROVE  c \in Int /\ Abs(o - c) <= Abs(o)
<1> DEFINE least == StaticStep + Abs(o) \div DynamicShare
<1>1. PICK s \in {least, least + 1} :
        c = IF s >= Abs(o) THEN o ELSE Sign(o) * s
  BY DEF Corrections
<1>2. s \in Nat
  BY LeastStep
<1> HIDE DEF least
<1>3. CASE s >= Abs(o)
  BY <1>1, <1>3, AbsFacts DEF Abs
<1>4. CASE ~(s >= Abs(o))
  BY <1>1, <1>2, <1>4 DEF Abs, Sign
<1> QED
  BY <1>3, <1>4

\* Positions and offsets are numbers, which the theorem below needs.
LEMMA TypeCorrect == Spec => []TypeOK
<1>1. Init => TypeOK
  BY MaxDistanceAssumption DEF Init, TypeOK, MaxDistanceAssumption
<1>2. TypeOK /\ [Next]_vars => TypeOK'
  <2> SUFFICES ASSUME TypeOK, [Next]_vars PROVE TypeOK'
    OBVIOUS
  <2>1. CASE Interpolate
    BY <2>1, CorrectionShortens DEF Interpolate, TypeOK
  <2>2. CASE ReceiveSync
    BY <2>2 DEF ReceiveSync, NewOffset, TypeOK
  <2>3. CASE UNCHANGED vars
    BY <2>3 DEF vars, TypeOK
  <2> QED
    BY <2>1, <2>2, <2>3 DEF Next
<1> QED
  BY <1>1, <1>2, PTL DEF Spec

\* Once a Sync has set the offset, every further step keeps it leading to the
\* server's position and brings the player no further away from there.
THEOREM OnlyComesCloser == Spec => ComesCloser
<1>1. TypeOK /\ [Next]_vars
        => [Aimed => Aimed' /\ Abs(position') <= Abs(position)]_vars
  <2> SUFFICES ASSUME TypeOK, Next, Aimed
               PROVE  Aimed' /\ Abs(position') <= Abs(position)
    OBVIOUS
  <2>1. position \in Int /\ offset \in Int /\ offset = 0 - position
    BY DEF TypeOK, Aimed
  <2>2. CASE Interpolate
    <3>1. PICK c \in Corrections(offset) :
            position' = position + c /\ offset' = offset - c
      BY <2>2 DEF Interpolate
    <3>2. c \in Int /\ Abs(offset - c) <= Abs(offset)
      BY <2>1, CorrectionShortens
    <3>3. position' = 0 - (offset - c) /\ offset - c \in Int
      BY <2>1, <3>1, <3>2
    <3>4. Abs(position') = Abs(offset - c) /\ Abs(position) = Abs(offset)
      BY <2>1, <3>3, AbsFacts
    <3> QED
      BY <2>1, <3>1, <3>2, <3>3, <3>4 DEF Aimed
  <2>3. CASE ReceiveSync
    <3>1. offset' = 0 - position /\ position' = position
      BY <2>1, <2>3 DEF ReceiveSync, NewOffset
    <3> QED
      BY <2>1, <3>1, AbsFacts DEF Aimed
  <2> QED
    BY <2>2, <2>3 DEF Next
<1> QED
  BY <1>1, TypeCorrect, PTL DEF Spec, ComesCloser
=============================================================================
