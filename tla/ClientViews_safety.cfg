\* Three clients; one may take another's player away.
SPECIFICATION VSpec
CONSTANTS
  c1 = c1
  c2 = c2
  c3 = c3
  Connections <- MCConnections3
  WebSockets <- MCWebSockets
  Garbage <- MCGarbage
  MaxInputs = 0
  SyncPeriod = 1
  MaxInFlight = 2
INVARIANT CrashOnlyIfRobbed
\* An aborted server stops.
CHECK_DEADLOCK FALSE
