SPECIFICATION MineSpec
CONSTANTS
  NULL = NULL
  Genesis = 0
  EpochBlockBound = 2
  Networks <- ChildOfDelayed
  AdaptiveBeta = 3
  HeavyRatio = 2
  SetDelay = 1
  MaxOutlierSize = 2
  RefBound = 2
INVARIANTS
  ActivationExact
CHECK_DEADLOCK FALSE
