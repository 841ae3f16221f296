\* Three processes, which end when they will or never.
SPECIFICATION FairSpec
CONSTANTS
  p1 = p1
  p2 = p2
  p3 = p3
  Processes <- MCProcesses
  NoProcess = NoProcess
INVARIANT TypeOK
INVARIANT OneOwner
INVARIANT OneTurnAPass
PROPERTY EndedIsErased
PROPERTY SuccessorGetsItsTurn
