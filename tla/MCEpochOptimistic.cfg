SPECIFICATION Spec
CONSTANTS
    Instances <- Straight
    Deferred = 3
    RewardEpochs = 1
INVARIANT
    BehindOptimistic
CHECK_DEADLOCK FALSE
