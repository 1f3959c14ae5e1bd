SPECIFICATION MineSpec
CONSTANTS
  NULL = NULL
  Genesis = 0
  EpochBlockBound = 2
  Networks <- LighterFork
  AdaptiveBeta = 3
  HeavyRatio = 2
  SetDelay = 1
  MaxOutlierSize = 2
  RefBound = 1
INVARIANTS
  JudgedByPast
CHECK_DEADLOCK FALSE
