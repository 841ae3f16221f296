\* Offsets on both sides of where the dynamic part is a whole step.
SPECIFICATION FairSpec
CONSTANTS
  MaxDistance = 70
  VelocityCap = 16
  Acceleration = 1
  Damp = 1
  StaticStep = 2
  DynamicShare = 60
  Tolerance = 2
PROPERTY ComesCloser
PROPERTY Settles
