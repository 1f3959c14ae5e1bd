SPECIFICATION FairSpec
CONSTANTS
    Instances <- MCInstances
    Deferred = 2
    RewardEpochs = 1
INVARIANTS
    Unwraps
    AvailableExecuted
    Intact
CHECK_DEADLOCK FALSE
PROPERTY
    DeferredExecuted
