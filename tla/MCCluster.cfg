CONSTANTS
  a = a
  b = b
  c = c
  all = all
  some = some
  Keys = {a, b, c}
  Patterns = {all, some}
  Matches <- MCMatches
  FirstNodes <- MCFirstNodes
  Requests = {r1, r2}
  Selectors = {"RR", "ORDER", "other"}
  Apis = {"promise", "callback"}
  CanRetry = TRUE
  RemoveAfter = 2
  MaxPools = 4
  MaxRestores = 1
  Careless = {}
SPECIFICATION Spec
INVARIANTS
  CacheCoherent
PROPERTIES
  RightNodeAsked EveryRequestAnswered
CHECK_DEADLOCK FALSE
