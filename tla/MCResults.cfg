CONSTANTS
  MaxResults = 2
  MaxRows = 2
  HighWater = 1
  Options <- MCOptions
SPECIFICATION FairSpec
INVARIANTS
  InStep AnswerFaithful
PROPERTIES
  AnswerRead
CHECK_DEADLOCK FALSE
