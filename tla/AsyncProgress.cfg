SPECIFICATION FairSpec
CONSTANTS
  ActionsPerChunk = 3
  ThresholdPercent = 50
  MaxTimestep = 4
  SimilarAnswers = {TRUE, FALSE}
  Failures = {}
  None = None
PROPERTIES
  PerformsInOrder
  RobotKeepsMoving
CHECK_DEADLOCK FALSE
