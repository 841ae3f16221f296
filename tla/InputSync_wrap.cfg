\* As many inputs as there are ids: the ids wrap around.
SPECIFICATION Spec
CONSTANTS
  none = none
  left = left
  right = right
  Controls <- MCControls
  NoControls = none
  IdModulus = 2
  SyncPeriod = 1
  MaxFrameTicks = 1
  MaxInputs = 2
  MaxClientTicks = 4
  MaxServerTicks = 4
SYMMETRY Symmetry
INVARIANT HistoryNeverEmpty
CHECK_DEADLOCK FALSE
