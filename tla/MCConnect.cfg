SPECIFICATION LoopSpec
CONSTANTS
  Configs <- MCConfigs
  Servers <- MCServers
  Users = {u1}
  Queries = {q1, q2}
  MaxPackets = 3
INVARIANTS
  ReadyOnlyIfVerified
  PasswordKept
  SessionPrepared
  RejectedStaysClosed
  NothingInsideExchange
PROPERTY ConnectSettles
CHECK_DEADLOCK FALSE
