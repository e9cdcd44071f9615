SPECIFICATION Spec
CONSTANTS
  BootstrapSize = 2
  TriggerSteps = 3
  ResetSteps = 2
  HardSteps = 2
  CooldownSteps = 4
  TriggerMargin = 1
  HardMargin = 2
  Distances <- MCDistances
  Gaps <- MCGaps
  MaxCalls = 14
INVARIANTS
  TypeOK
  NoMissedDrift
  AlertEndsWhenQuiet
  CooldownHolds
PROPERTIES
  AlertEndsOnlyWhenQuiet
CHECK_DEADLOCK FALSE
