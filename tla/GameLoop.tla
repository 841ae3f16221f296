------------------------------ MODULE GameLoop ------------------------------
(***************************************************************************)
(* GameLoop::Frame, the fixed-step loop that drives the server and the     *)
(* client: it reads the clock once a frame, simulates as many steps of     *)
(* m_desired_delta as the time that has passed asks for, and (the server   *)
(* only) sleeps for what is left of one.  The server's PostSimulate sends  *)
(* a Sync when the tick after the frame's last step is a multiple of       *)
(* SyncPeriod.                                                             *)
(*                                                                         *)
(* Time is counted in a unit small enough to divide a step.  The clock is  *)
(* high_resolution_clock, which the system may set back.                   *)
(***************************************************************************)
EXTENDS Integers

CONSTANTS
  DesiredDelta,  \* m_desired_delta
  SyncPeriod,    \* 4 in Server::PostSimulate
  Sleeps,        \* ShouldSleep(): TRUE for the server
  MaxWork,       \* the time one frame takes without its sleep, at most
  MaxOversleep,  \* the time sleep_for takes more than it was asked, at most
  MaxSetBack,    \* how far the system sets the clock back, in all
  MaxClock       \* bound: the clock

ASSUME ConstantsAssumption ==
  /\ DesiredDelta \in Nat \ {0}
  /\ SyncPeriod \in Nat \ {0}
  /\ Sleeps \in BOOLEAN
  /\ MaxWork \in Nat
  /\ MaxOversleep \in Nat
  /\ MaxSetBack \in Nat
  /\ MaxClock \in Nat

VARIABLES
  pc,              \* where the loop is: "frame", "simulate" or "sleep"
  clock,           \* the system's clock, 0 at InitClock
  lag,             \* m_lag: time measured and not simulated
  lastUpdate,      \* m_last_update
  needed,          \* simulation_needed
  simulationTick,  \* m_simulation_tick modulo SyncPeriod
  worked           \* time the running frame has taken

\* History variables, read by the properties only.
VARIABLES
  simulated,       \* the sum of the deltas given to Simulate
  frameTicks,      \* steps made in the running frame
  sinceSync,       \* steps since the last Sync
  setBack,         \* how far the clock has been set back so far
  onTime           \* no frame so far took more than a step, apart from its
                   \* sleep, or with what the sleep took too much

vars == <<pc, clock, lag, lastUpdate, needed, simulationTick, worked, simulated,
          frameTicks, sinceSync, setBack, onTime>>

\* Run, after Init and InitClock.
Init ==
  /\ pc = "frame"
  /\ clock = 0
  /\ lag = 0
  /\ lastUpdate = 0
  /\ needed = FALSE
  /\ simulationTick = 0
  /\ worked = 0
  /\ simulated = 0
  /\ frameTicks = 0
  /\ sinceSync = 0
  /\ setBack = 0
  /\ onTime = TRUE
-----------------------------------------------------------------------------
UpdateClock_LagNotAdded ==
  /\ lag' = clock - lastUpdate
  /\ lastUpdate' = clock

UpdateClock ==
  /\ lag' = lag + (clock - lastUpdate)
  /\ lastUpdate' = clock

BeginFrame_NeededTooEarly ==
  /\ pc = "frame"
  /\ UpdateClock
  /\ needed' = (lag > DesiredDelta)
  /\ frameTicks' = 0
  /\ worked' = 0
  /\ pc' = "simulate"
  /\ UNCHANGED <<clock, simulationTick, simulated, sinceSync, setBack, onTime>>

\* The start of Frame, up to the loop.
BeginFrame ==
  /\ pc = "frame"
  /\ UpdateClock
  /\ needed' = (lag' > DesiredDelta)
  /\ frameTicks' = 0
  /\ worked' = 0
  /\ pc' = "simulate"
  /\ UNCHANGED <<clock, simulationTick, simulated, sinceSync, setBack, onTime>>

\* PreUpdate, PreSimulate, Simulate, PostSimulate, Render: they take time.
Work(time) ==
  /\ pc = "simulate"
  /\ worked + time <= MaxWork
  /\ clock + time <= MaxClock
  /\ worked' = worked + time
  /\ clock' = clock + time
  /\ UNCHANGED <<pc, lag, lastUpdate, needed, simulationTick, simulated,
                 frameTicks, sinceSync, setBack, onTime>>

LoopCondition_Once == lag > DesiredDelta /\ frameTicks = 0

\* The condition of the while loop.
LoopCondition == lag > DesiredDelta

\* One turn of the while loop.
SimulateStep ==
  /\ pc = "simulate"
  /\ LoopCondition
  /\ lag' = lag - DesiredDelta
  /\ simulated' = simulated + DesiredDelta
  /\ simulationTick' = (simulationTick + 1) % SyncPeriod
  /\ frameTicks' = frameTicks + 1
  /\ sinceSync' = sinceSync + 1
  /\ UNCHANGED <<pc, clock, lastUpdate, needed, worked, setBack, onTime>>

\* PostSimulate sends a Sync.
PostSimulate == needed /\ simulationTick = 0

\* From the end of the loop to the end of Frame or the sleep.
EndFrame ==
  /\ pc = "simulate"
  /\ ~LoopCondition
  /\ sinceSync' = IF PostSimulate THEN 0 ELSE sinceSync
  /\ pc' = IF Sleeps THEN "sleep" ELSE "frame"
  /\ UNCHANGED <<clock, lag, lastUpdate, needed, simulationTick, worked,
                 simulated, frameTicks, setBack, onTime>>

\* What sleep_for is asked for.
SleepTime == DesiredDelta - lag

\* sleep_for returns at once when asked for no time or less.
Sleep(over) ==
  /\ pc = "sleep"
  /\ clock' = clock + over + IF SleepTime > 0 THEN SleepTime ELSE 0
  /\ clock' <= MaxClock
  /\ pc' = "frame"
  /\ onTime' = (onTime /\ worked + over <= DesiredDelta)
  /\ UNCHANGED <<lag, lastUpdate, needed, simulationTick, worked, simulated,
                 frameTicks, sinceSync, setBack>>

\* The system sets its clock back.
SetClockBack(time) ==
  /\ time <= clock
  /\ setBack + time <= MaxSetBack
  /\ clock' = clock - time
  /\ setBack' = setBack + time
  /\ UNCHANGED <<pc, lag, lastUpdate, needed, simulationTick, worked, simulated,
                 frameTicks, sinceSync, onTime>>
-----------------------------------------------------------------------------
Next ==
  \/ BeginFrame
  \/ \E time \in 1 .. MaxWork : Work(time)
  \/ SimulateStep
  \/ EndFrame
  \/ \E over \in 0 .. MaxOversleep : Sleep(over)
  \/ \E time \in 1 .. MaxSetBack : SetClockBack(time)

Spec == Init /\ [][Next]_vars

\* The thread of the loop runs.
Fairness ==
  /\ WF_vars(BeginFrame)
  /\ WF_vars(SimulateStep)
  /\ WF_vars(EndFrame)

FairSpec == Spec /\ Fairness
-----------------------------------------------------------------------------
(***************************************************************************)
(* Properties.                                                             *)
(***************************************************************************)
TypeOK ==
  /\ pc \in {"frame", "simulate", "sleep"}
  /\ clock \in Int
  /\ lag \in Int
  /\ lastUpdate \in Int
  /\ needed \in BOOLEAN
  /\ simulationTick \in 0 .. SyncPeriod - 1
  /\ worked \in 0 .. MaxWork
  /\ simulated \in Nat
  /\ frameTicks \in Nat
  /\ sinceSync \in Nat
  /\ setBack \in 0 .. MaxSetBack
  /\ onTime \in BOOLEAN

\* No time is lost and none simulated twice: what was simulated and what is
\* left in m_lag are the time the clock has measured.
TimeConserved == simulated + lag = lastUpdate

\* The server never asks sleep_for for a negative time, and for no more than a
\* step and the time the clock was set back.
SleepsWithinAStep ==
  pc = "sleep" => 0 <= SleepTime /\ SleepTime <= DesiredDelta + setBack

\* A server that was never late makes up for no more than one step in a frame.
OneStepAFrame == Sleeps /\ onTime => frameTicks <= 1

\* A server that was never late has sent a Sync every SyncPeriod steps:
\* PostSimulate, which looks at the tick once a frame, missed none, whatever
\* the sleeps added up to and the system did to the clock.
SyncEveryPeriod ==
  Sleeps /\ onTime =>
    /\ sinceSync <= SyncPeriod
    /\ pc # "simulate" => sinceSync < SyncPeriod

\* However far behind the loop is, the frame that measures the time makes up
\* for all of it but the last step.
CatchesUp ==
  \A t \in 1 .. MaxClock :
    lastUpdate >= t ~> simulated + DesiredDelta >= t
-----------------------------------------------------------------------------
(***************************************************************************)
(* The inductive invariant behind the safety properties.                   *)
(***************************************************************************)

\* What the next UpdateClock will make of m_lag.
LagToCome == lag + (clock - lastUpdate)

\* What has passed since the clock was read, and what the loop has left.
Measured ==
  /\ pc # "frame" => clock - lastUpdate <= worked
  /\ pc = "sleep" => lag <= DesiredDelta
  /\ pc = "simulate" =>
       (needed <=> lag > DesiredDelta \/ frameTicks > 0)
  /\ lag >= -setBack /\ clock >= lastUpdate - setBack
  /\ LagToCome >= -setBack

StepsLeft ==
  Sleeps /\ onTime =>
    /\ frameTicks \in {0, 1}
    /\ pc = "frame" => LagToCome <= DesiredDelta + DesiredDelta
    /\ pc = "simulate" =>
         lag <= IF frameTicks = 0 THEN DesiredDelta + DesiredDelta
                                  ELSE DesiredDelta

SyncPhase ==
  Sleeps /\ onTime =>
    IF pc = "simulate" /\ frameTicks = 1
    THEN /\ sinceSync \in 1 .. SyncPeriod
         /\ simulationTick = IF sinceSync = SyncPeriod THEN 0 ELSE sinceSync
    ELSE sinceSync = simulationTick

IInv ==
  /\ TypeOK
  /\ TimeConserved
  /\ Measured
  /\ StepsLeft
  /\ SyncPhase
=============================================================================
