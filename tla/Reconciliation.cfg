\* Two inputs, frames of one or two steps, a Sync at every second tick that
\* ends a frame.
SPECIFICATION RFairSpec
CONSTANTS
  none = none
  left = left
  right = right
  Controls <- MCControls
  NoControls = none
  Direction <- MCDirection
  IdModulus = 4
  SyncPeriod = 2
  MaxFrameTicks = 2
  MaxInputs = 2
  MaxClientTicks = 5
  MaxServerTicks = 4
  VelocityCap = 5
  Acceleration = 2
  Damp = 2
  StaticStep = 2
  DynamicShare = 60
  Tolerance = 2
INVARIANT RTypeOK
INVARIANT ServerFollowsPath
INVARIANT ReplaysOneStepMore
INVARIANT VelocityIsOwn
PROPERTY EveryInputForgotten
\* The bounds end every behaviour.
CHECK_DEADLOCK FALSE
