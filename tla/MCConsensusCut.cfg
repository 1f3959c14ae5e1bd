SPECIFICATION OrderedSpec
CONSTANTS
  NULL = NULL
  Genesis = 0
  EpochBlockBound = 2
  Networks <- CutTerminals
  AdaptiveBeta = 3
  HeavyRatio = 2
  SetDelay = 1
  MaxOutlierSize = 2
  RefBound = 2
INVARIANTS
  MinedOnTip
CHECK_DEADLOCK FALSE
