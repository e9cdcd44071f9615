SPECIFICATION Spec
CONSTANTS
  ActionsPerChunk = 3
  ThresholdPercent = 50
  MaxTimestep = 4
  SimilarAnswers = {TRUE, FALSE}
  Failures = {}
  None = None
INVARIANT NoStaleActionPerformed
CHECK_DEADLOCK FALSE
