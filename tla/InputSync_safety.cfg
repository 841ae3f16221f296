\* Three inputs, frames of one or two steps, a Sync every fourth step.
SPECIFICATION Spec
CONSTANTS
  none = none
  left = left
  right = right
  Controls <- MCControls
  NoControls = none
  IdModulus = 4
  SyncPeriod = 4
  MaxFrameTicks = 2
  MaxInputs = 3
  MaxClientTicks = 4
  MaxServerTicks = 5
SYMMETRY Symmetry
INVARIANT HistoryNeverEmpty
INVARIANT AckInHistory
INVARIANT SyncCarriesPlayer
INVARIANT ServerTimeline
PROPERTY ImplementsInputStream
\* The bounds end every behaviour.
CHECK_DEADLOCK FALSE
