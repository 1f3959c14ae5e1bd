CONSTANTS
    SecTicks = 2
    MaxTokens <- Maxima
    InitTokens <- Initial
    Rate <- Rates
    MaxThrottled = 1
    Costs <- SomeCosts
    MaxSkew = 1
    MaxTime = 10
SPECIFICATION Spec
INVARIANTS RateBound WaitNeverUnderflows RetryAfterWaitSucceeds
CHECK_DEADLOCK FALSE
