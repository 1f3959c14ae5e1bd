SPECIFICATION FairSpec
CONSTANTS
    Addr = {"a"}
    MaxBalance = 1
    MaxValue = 1
    MaxDepth = 2
    Instances <- MCInstances
    Executor = "e"
    Nobody = Nobody
INVARIANTS
    CacheCovers
    PrefetchJoined
    OnePending
PROPERTIES
    Refines
    WaitsEnd
CHECK_DEADLOCK FALSE
