\* The smallest instance that applies one input and syncs while it is in force.
SPECIFICATION RSpec
CONSTANTS
  none = none
  left = left
  right = right
  Controls <- MCControls
  NoControls = none
  Direction <- MCDirection
  IdModulus = 4
  SyncPeriod = 2
  MaxFrameTicks = 1
  MaxInputs = 2
  MaxClientTicks = 3
  MaxServerTicks = 4
  VelocityCap = 5
  Acceleration = 2
  Damp = 2
  StaticStep = 2
  DynamicShare = 60
  Tolerance = 2
CHECK_DEADLOCK FALSE
INVARIANT ReplayGivesPrediction
