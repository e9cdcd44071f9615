SPECIFICATION Spec
CONSTANTS
  Capacity = 2
  LearnAfter = 2
  SaveFreq = 2
  ParameterParts = 1
  OnlineSteps = 2
  MaxOptimization = 2
  MaxNaNs = 0
  MaxFaults = 0
  None = None
INVARIANTS
  CheckpointHasStep
CHECK_DEADLOCK FALSE
