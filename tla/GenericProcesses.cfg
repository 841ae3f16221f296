\* Three leaves of every kind, with times of up to two steps; a Consecutive of
\* them needs nine Updates at most.
SPECIFICATION FairSpec
CONSTANTS
  N = 3
  Times <- MCTimes
  MaxUpdates = 9
INVARIANT TypeOK
INVARIANT OneAfterTheOther
INVARIANT InStep
INVARIANT RunsItsTime
PROPERTY EndsWithItsChildren
\* A process that has ended rests.
CHECK_DEADLOCK FALSE
