SPECIFICATION Spec
CONSTANTS
  BootstrapSize = 1
  TriggerSteps = 2
  ResetSteps = 1
  HardSteps = 1
  CooldownSteps = 1
  TriggerMargin = 0
  HardMargin = 1
  Distances <- MCDistances
  Gaps <- MCGaps
  SafetyK = 2
  NActionSteps = 3
  MaxSteps = 7
  None = None
INVARIANTS
  TypeOK
  EveryActionJudged
  NoStaleAction
  GuidedOnlyForRecovery
  BaselineOpenLoop
  NoMeltdownInWarmUp
  RequestsAreMeltdowns
  BaselineCurvesComplete
PROPERTY ImplementsAdaptiveHorizon
CHECK_DEADLOCK FALSE
