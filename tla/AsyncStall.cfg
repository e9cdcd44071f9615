SPECIFICATION FairSpec
CONSTANTS
  ActionsPerChunk = 3
  ThresholdPercent = 50
  MaxTimestep = 4
  SimilarAnswers = {FALSE}
  Failures = {"infer"}
  None = None
PROPERTY EmptyQueueIsServed
CHECK_DEADLOCK FALSE
