\* Three connections; m_current_player starts with any of two values, one of
\* which is the id of the first player.
SPECIFICATION Spec
CONSTANTS
  c1 = c1
  c2 = c2
  c3 = c3
  Connections <- MCConnections
  WebSockets <- MCWebSockets
  Garbage <- MCGarbage
  MaxInputs = 1
SYMMETRY Symmetry
INVARIANT TypeOK
INVARIANT NoEventLost
INVARIANT DisconnectFindsConnection
INVARIANT NoOrphanPlayers
INVARIANT ServedHasPlayer
\* An aborted server stops.
CHECK_DEADLOCK FALSE
