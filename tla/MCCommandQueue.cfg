CONSTANTS
  MaxCalls = 3
  Kinds = {"prepare", "stream", "ping", "close", "invalid"}
  Settings = {TRUE, FALSE}
  EarlyCalls = {"connecting"}
SPECIFICATION FairSpec
INVARIANTS
  AnswersMatch SendOrder PipelineNeverStuck StreamNotInterrupted
PROPERTIES
  EverythingSettles
CHECK_DEADLOCK FALSE
