SPECIFICATION ReleaseFairSpec
CONSTANTS
  Clients = {u1, u2}
  Conns = {c1, c2}
  ResetConns = {c1, c2}
  NoClient = NoClient
  NoConn = NoConn
  ConnectionLimit = 1
  MinimumIdle = 0
  IdleTimeoutSet = FALSE
  DoubleRelease = FALSE
  MaxTicks = 1
  MaxChecks = 1
PROPERTIES
  ReleaseCompletes
CHECK_DEADLOCK FALSE
