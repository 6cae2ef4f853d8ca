\* Two requests, four messages, the reader and the handler of `shutdown` in Close.
SPECIFICATION Spec
CONSTANTS
    Method = {"a", "b"}
    RateLimits <- MCRateLimits
    DefaultLimits <- MCDefaultLimits
    MessageLimits <- MCMessageLimits
    Second = 1
    Scale = 2
    MaxTime = 3
    MaxCalls = 4
    Ids = {i1, i2}
    ReuseIds = FALSE
    Closers = {reader, shutdown}
CONSTRAINT TimeOrClose
CHECK_DEADLOCK FALSE
SYMMETRY Symmetry
INVARIANTS   RunningIsRegistered CloseCompletes
