SPECIFICATION FairSpec
CONSTANTS
  Capacity = 3
  LearnAfter = 2
  SaveFreq = 2
  ParameterParts = 2
  OnlineSteps = 4
  MaxOptimization = 1
  MaxNaNs = 1
  MaxFaults = 1
  None = None
INVARIANTS
  TypeOK
  MessagesAreWhole
  ReplayInOrder
  SampleIsStep
PROPERTIES
  PolicyNeverGoesBack
  EpisodesAreLearned
CHECK_DEADLOCK FALSE
