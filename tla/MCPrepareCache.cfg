CONSTANTS
  Sqls = {s1, s2}
  Databases = {d1, d2}
  FirstDatabase = d1
  CacheSizes = {0, 1}
  MaxCalls = 3
  MaxChanges = 1
  Careless = {}
SPECIFICATION Spec
SYMMETRY Symmetry
CONSTRAINT FewOfAKind
INVARIANTS
  StatementsClosed RightStatement CallsSettled
CHECK_DEADLOCK FALSE
