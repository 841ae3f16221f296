\* The server, with frames that take less than a step and frames that take two
\* or more, and a clock that is set back once or twice.
SPECIFICATION FairSpec
CONSTANTS
  DesiredDelta = 3
  SyncPeriod = 4
  Sleeps = TRUE
  MaxWork = 8
  MaxOversleep = 1
  MaxSetBack = 2
  MaxClock = 24
INVARIANT TimeConserved
INVARIANT SyncEveryPeriod
INVARIANT SleepsWithinAStep
PROPERTY CatchesUp
\* The bound on the clock ends every behaviour.
CHECK_DEADLOCK FALSE
