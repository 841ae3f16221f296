\* Two clients; m_current_player starts with no player's id, so that neither the
\* server nor a client aborts.
SPECIFICATION VFairSpec
CONSTANTS
  c1 = c1
  c2 = c2
  c3 = c3
  Connections <- MCConnections2
  WebSockets <- MCNoWebSockets
  Garbage <- MCHarmless
  MaxInputs = 1
  SyncPeriod = 2
  MaxInFlight = 2
PROPERTY HelloAppears
PROPERTY ClosedDisappears
