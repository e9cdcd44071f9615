SPECIFICATION FairSpec
CONSTANTS
  ChunkSize = 5
  Threshold = 3
  MaxWait = 5
  MaxDelay = 6
  Slack = 1
  MaxStep = 8
INVARIANT TypeOK
PROPERTIES
  AppendedInOrder
  SwapIsBounded
  CheckedSwapIsSeamless
  RobotMoves
CHECK_DEADLOCK FALSE
