CONSTANTS
  Imports = {1, 2}
  Users = {u1}
  Cases <- MCCases
  Half = 2
SPECIFICATION FairSpec
INVARIANTS
  ImportFaithful ClientUntouched
PROPERTIES
  ImportSettles HeldQueriesServed
CHECK_DEADLOCK FALSE
