SPECIFICATION MineSpec
CONSTANTS
  NULL = NULL
  Genesis = 0
  EpochBlockBound = 2
  Networks <- TimerOffStable
  AdaptiveBeta = 3
  HeavyRatio = 2
  SetDelay = 1
  MaxOutlierSize = 2
  RefBound = 2
INVARIANTS
  EpochsExact
CHECK_DEADLOCK FALSE
