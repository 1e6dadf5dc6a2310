SPECIFICATION FairSpec
CONSTANTS
  Clients = {u1, u2}
  Conns = {c1, c2, c3}
  ResetConns = {c1}
  NoClient = NoClient
  NoConn = NoConn
  ConnectionLimit = 2
  MinimumIdle = 0
  IdleTimeoutSet = TRUE
  DoubleRelease = FALSE
  MaxTicks = 2
  MaxChecks = 1
PROPERTIES
  LeaseKept
  RequestsServed
CHECK_DEADLOCK FALSE
