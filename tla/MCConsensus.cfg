SPECIFICATION MineSpec
CONSTANTS
  NULL = NULL
  Genesis = 0
  EpochBlockBound = 2
  Networks <- MCNetworks
  AdaptiveBeta = 3
  HeavyRatio = 2
  SetDelay = 1
  MaxOutlierSize = 2
  RefBound = 1
INVARIANTS
  TreesExact
  CachesExact
  TimerChainExact
  MainChainExact
  EpochsExact
  JudgedByPast
  ActivationExact
  Recovered
  MinedValid
CHECK_DEADLOCK FALSE
