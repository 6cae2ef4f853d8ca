\* Three goroutines, three calls, a bucket of two tokens that is refilled.
SPECIFICATION FairSpec
CONSTANTS
    p1 = p1
    p2 = p2
    p3 = p3
    Takers = {p1, p2, p3}
    Capacity = 2
    Scale = 2
    Increment = 1
    IsTotal = FALSE
    Counts = {1, 2}
    PoolSize = 2
    MaxTakes = 3
CHECK_DEADLOCK FALSE
INVARIANTS ChannelsAccounted
 
