--------------------------- MODULE GameLoopProofs ---------------------------
(***************************************************************************)
(* Proofs about GameLoop, for all values of its constants.                 *)
(***************************************************************************)
EXTENDS GameLoop, TLAPS

USE ConstantsAssumption DEF ConstantsAssumption

LEMMA TypeStep == TypeOK /\ [Next]_vars => TypeOK'
<1> SUFFICES ASSUME TypeOK, [Next]_vars
             PROVE  TypeOK'
  OBVIOUS
<1> USE DEF TypeOK
<1>1. CASE BeginFrame
  BY <1>1 DEF BeginFrame, UpdateClock
<1>2. ASSUME NEW time \in 1 .. MaxWork, Work(time) PROVE TypeOK'
  BY <1>2 DEF Work
<1>3. CASE SimulateStep
  BY <1>3 DEF SimulateStep
<1>4. CASE EndFrame
  BY <1>4 DEF EndFrame
<1>5. ASSUME NEW over \in 0 .. MaxOversleep, Sleep(over) PROVE TypeOK'
  BY <1>5 DEF Sleep, SleepTime
<1>6. ASSUME NEW time \in 1 .. MaxSetBack, SetClockBack(time) PROVE TypeOK'
  BY <1>6 DEF SetClockBack
<1>7. CASE UNCHANGED vars
  BY <1>7 DEF vars
<1> QED
  BY <1>1, <1>2, <1>3, <1>4, <1>5, <1>6, <1>7 DEF Next

LEMMA TimeConservedStep ==
  ASSUME TypeOK, TimeConserved, [Next]_vars
  PROVE  TimeConserved'
<1> USE DEF TypeOK, TimeConserved
<1>1. CASE BeginFrame
  BY <1>1 DEF BeginFrame, UpdateClock
<1>2. ASSUME NEW time \in 1 .. MaxWork, Work(time) PROVE TimeConserved'
  BY <1>2 DEF Work
<1>3. CASE SimulateStep
  BY <1>3 DEF SimulateStep
<1>4. CASE EndFrame
  BY <1>4 DEF EndFrame
<1>5. ASSUME NEW over \in 0 .. MaxOversleep, Sleep(over) PROVE TimeConserved'
  BY <1>5 DEF Sleep
<1>6. ASSUME NEW time \in 1 .. MaxSetBack, SetClockBack(time)
      PROVE  TimeConserved'
  BY <1>6 DEF SetClockBack
<1>7. CASE UNCHANGED vars
  BY <1>7 DEF vars
<1> QED
  BY <1>1, <1>2, <1>3, <1>4, <1>5, <1>6, <1>7 DEF Next

LEMMA MeasuredStep ==
  ASSUME TypeOK, TypeOK', Measured, [Next]_vars
  PROVE  Measured'
<1> USE DEF TypeOK, Measured, LagToCome
<1>1. CASE BeginFrame
  <2>1. needed' <=> lag' > DesiredDelta
    BY <1>1 DEF BeginFrame
  <2>2. /\ pc' = "simulate" /\ frameTicks' = 0 /\ worked' = 0 /\ clock' = clock
        /\ lastUpdate' = clock /\ lag' = lag + (clock - lastUpdate)
        /\ setBack' = setBack
    BY <1>1 DEF BeginFrame, UpdateClock
  <2> QED
    BY <2>1, <2>2
<1>2. ASSUME NEW time \in 1 .. MaxWork, Work(time) PROVE Measured'
  BY <1>2 DEF Work
<1>3. CASE SimulateStep
  BY <1>3 DEF SimulateStep, LoopCondition
<1>4. CASE EndFrame
  BY <1>4 DEF EndFrame, LoopCondition
<1>5. ASSUME NEW over \in 0 .. MaxOversleep, Sleep(over) PROVE Measured'
  BY <1>5 DEF Sleep, SleepTime
<1>6. ASSUME NEW time \in 1 .. MaxSetBack, SetClockBack(time) PROVE Measured'
  BY <1>6 DEF SetClockBack
<1>7. CASE UNCHANGED vars
  BY <1>7 DEF vars
<1> QED
  BY <1>1, <1>2, <1>3, <1>4, <1>5, <1>6, <1>7 DEF Next

\* A server that was on time after a step was so before.
LEMMA OnTimeStep ==
  ASSUME TypeOK, [Next]_vars, onTime'
  PROVE  onTime
<1>1. \/ onTime' = onTime
      \/ \E over \in 0 .. MaxOversleep :
           onTime' = (onTime /\ worked + over <= DesiredDelta)
  BY DEF Next, vars, BeginFrame, Work, SimulateStep, EndFrame, Sleep,
         SetClockBack
<1> QED
  BY <1>1 DEF TypeOK

LEMMA StepsLeftStep ==
  ASSUME TypeOK, Measured, StepsLeft, [Next]_vars
  PROVE  StepsLeft'
<1> SUFFICES ASSUME Sleeps, onTime' PROVE StepsLeft'
  BY DEF StepsLeft
<1>0. onTime
  BY OnTimeStep
<1> USE <1>0 DEF TypeOK, StepsLeft, LagToCome
<1>1. CASE BeginFrame
  BY <1>1 DEF BeginFrame, UpdateClock
<1>2. ASSUME NEW time \in 1 .. MaxWork, Work(time) PROVE StepsLeft'
  BY <1>2 DEF Work
<1>3. CASE SimulateStep
  BY <1>3 DEF SimulateStep, LoopCondition
<1>4. CASE EndFrame
  BY <1>4 DEF EndFrame
<1>5. ASSUME NEW over \in 0 .. MaxOversleep, Sleep(over) PROVE StepsLeft'
  <2>1. worked + over <= DesiredDelta
    BY <1>5 DEF Sleep
  <2>2. lag <= DesiredDelta /\ clock - lastUpdate <= worked
    BY <1>5 DEF Sleep, Measured
  <2> QED
    BY <1>5, <2>1, <2>2 DEF Sleep, SleepTime
<1>6. ASSUME NEW time \in 1 .. MaxSetBack, SetClockBack(time) PROVE StepsLeft'
  BY <1>6 DEF SetClockBack
<1>7. CASE UNCHANGED vars
  BY <1>7 DEF vars
<1> QED
  BY <1>1, <1>2, <1>3, <1>4, <1>5, <1>6, <1>7 DEF Next

LEMMA SyncPhaseStep ==
  ASSUME TypeOK, Measured, StepsLeft, SyncPhase, [Next]_vars
  PROVE  SyncPhase'
<1> SUFFICES ASSUME Sleeps, onTime' PROVE SyncPhase'
  BY DEF SyncPhase
<1>0. onTime
  BY OnTimeStep
<1> USE <1>0 DEF TypeOK, SyncPhase
<1>1. CASE BeginFrame
  BY <1>1 DEF BeginFrame
<1>2. ASSUME NEW time \in 1 .. MaxWork, Work(time) PROVE SyncPhase'
  BY <1>2 DEF Work
<1>3. CASE SimulateStep
  <2>1. frameTicks = 0 /\ frameTicks' = 1 /\ pc = "simulate" /\ pc' = pc
    BY <1>3 DEF SimulateStep, LoopCondition, StepsLeft
  <2>2. sinceSync = simulationTick /\ sinceSync' = sinceSync + 1
    BY <1>3, <2>1 DEF SimulateStep
  <2>3. simulationTick' = IF simulationTick + 1 = SyncPeriod
                          THEN 0 ELSE simulationTick + 1
    BY <1>3 DEF SimulateStep
  <2> QED
    BY <2>1, <2>2, <2>3
<1>4. CASE EndFrame
  <2>1. pc = "simulate" /\ pc' # "simulate" /\ simulationTick' = simulationTick
    BY <1>4 DEF EndFrame
  <2>2. CASE frameTicks = 0
    <3>1. ~PostSimulate
      BY <1>4, <2>1, <2>2 DEF EndFrame, LoopCondition, PostSimulate, Measured
    <3> QED
      BY <1>4, <2>1, <2>2, <3>1 DEF EndFrame
  <2>3. CASE frameTicks = 1
    <3>1. needed
      BY <2>1, <2>3 DEF Measured
    <3>2. PostSimulate <=> simulationTick = 0
      BY <3>1 DEF PostSimulate
    <3> QED
      BY <1>4, <2>1, <2>3, <3>2 DEF EndFrame
  <2> QED
    BY <2>2, <2>3 DEF StepsLeft
<1>5. ASSUME NEW over \in 0 .. MaxOversleep, Sleep(over) PROVE SyncPhase'
  BY <1>5 DEF Sleep
<1>6. ASSUME NEW time \in 1 .. MaxSetBack, SetClockBack(time) PROVE SyncPhase'
  BY <1>6 DEF SetClockBack
<1>7. CASE UNCHANGED vars
  BY <1>7 DEF vars
<1> QED
  BY <1>1, <1>2, <1>3, <1>4, <1>5, <1>6, <1>7 DEF Next

\* The inductive invariant of the loop.
THEOREM InductiveInvariant == Spec => []IInv
<1>1. Init => IInv
  <2> SUFFICES ASSUME Init PROVE IInv
    OBVIOUS
  <2>1. TypeOK
    <3>1. 0 \in 0 .. SyncPeriod - 1 /\ 0 \in 0 .. MaxWork
      OBVIOUS
    <3>2. needed \in BOOLEAN
      BY DEF Init
    <3>3. /\ pc \in {"frame", "simulate", "sleep"}
          /\ clock \in Int /\ lag \in Int /\ lastUpdate \in Int
          /\ simulated \in Nat /\ frameTicks \in Nat /\ sinceSync \in Nat
          /\ setBack \in 0 .. MaxSetBack
      BY DEF Init
    <3>5. onTime \in BOOLEAN
      BY DEF Init
    <3>4. simulationTick \in 0 .. SyncPeriod - 1 /\ worked \in 0 .. MaxWork
      BY <3>1 DEF Init
    <3> QED
      BY <3>2, <3>3, <3>4, <3>5 DEF TypeOK
  <2>2. TimeConserved
    BY DEF Init, TimeConserved
  <2>3. Measured
    BY DEF Init, Measured, LagToCome
  <2>4. StepsLeft /\ SyncPhase
    BY DEF Init, StepsLeft, SyncPhase, LagToCome
  <2> QED
    BY <2>1, <2>2, <2>3, <2>4 DEF IInv
<1>2. IInv /\ [Next]_vars => IInv'
  BY TypeStep, TimeConservedStep, MeasuredStep, StepsLeftStep, SyncPhaseStep
     DEF IInv
<1> QED
  BY <1>1, <1>2, PTL DEF Spec

\* The variables keep to their ranges.
THEOREM TypeCorrect == Spec => []TypeOK
<1>1. IInv => TypeOK
  BY DEF IInv
<1> QED
  BY <1>1, InductiveInvariant, PTL

\* UpdateClock and the while loop account for all the time that passes.
THEOREM TimeIsConserved == Spec => []TimeConserved
<1>1. IInv => TimeConserved
  BY DEF IInv
<1> QED
  BY <1>1, InductiveInvariant, PTL

\* sleep_for is never asked for a negative time, or for more than a step and the
\* time the clock was set back.
THEOREM SleepIsWithinAStep == Spec => []SleepsWithinAStep
<1>1. IInv => SleepsWithinAStep
  BY DEF IInv, TypeOK, Measured, SleepsWithinAStep, SleepTime
<1> QED
  BY <1>1, InductiveInvariant, PTL

\* A server that was never late has made no frame of two steps, ...
THEOREM AtMostOneStepAFrame == Spec => []OneStepAFrame
<1>1. IInv => OneStepAFrame
  BY DEF IInv, StepsLeft, OneStepAFrame
<1> QED
  BY <1>1, InductiveInvariant, PTL

\* ... so none of its Syncs is missed.
THEOREM SyncIsNeverMissed == Spec => []SyncEveryPeriod
<1>1. IInv => SyncEveryPeriod
  BY DEF IInv, TypeOK, StepsLeft, SyncPhase, SyncEveryPeriod
<1> QED
  BY <1>1, InductiveInvariant, PTL
=============================================================================
