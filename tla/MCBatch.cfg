CONSTANTS
  MaxLen = 8
  Small = 6
  Levels <- MCLevels
  Batches <- MCBatches
  MaxAllowed = {5, 13}
  ChunkSize = 2
SPECIFICATION Spec
INVARIANTS
  BatchFaithful PacketsRight RowsAsDeclared BatchInStep
PROPERTIES
  BatchEnds
CHECK_DEADLOCK FALSE
