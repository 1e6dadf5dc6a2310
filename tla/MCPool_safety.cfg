SPECIFICATION Spec
CONSTANTS
  Clients = {u1, u2, u3}
  Conns = {c1, c2, c3}
  ResetConns = {c1}
  NoClient = NoClient
  NoConn = NoConn
  ConnectionLimit = 2
  MinimumIdle = 1
  IdleTimeoutSet = TRUE
  DoubleRelease = TRUE
  MaxTicks = 2
  MaxChecks = 1
SYMMETRY Symmetry
INVARIANTS
  TypeOK
  Capacity
  AllAccountedFor
  NoLostWakeup
  EndDrains
CHECK_DEADLOCK FALSE
