SPECIFICATION Spec
CONSTANTS
    Addr = {"a"}
    MaxBalance = 1
    MaxValue = 1
    MaxDepth = 2
    Instances <- SameEpoch
    Executor = "e"
    Nobody = Nobody
INVARIANT
    PrefetchJoined
CHECK_DEADLOCK FALSE
