SPECIFICATION Spec
CONSTANTS
  ActionsPerChunk = 3
  ThresholdPercent = 50
  MaxTimestep = 5
  SimilarAnswers = {TRUE, FALSE}
  Failures = {"send", "infer", "reply"}
  None = None
INVARIANTS
  TypeOK
  QueueAscending
  PutNeverBlocks
CHECK_DEADLOCK FALSE
