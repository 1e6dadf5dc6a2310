SPECIFICATION FairSpec
CONSTANTS
  Configs <- MCConfigs
  Servers <- MCServers
  Users = {u1}
  Queries = {q1, q2}
  MaxPackets = 3
PROPERTY ChangeUserReported
CHECK_DEADLOCK FALSE
