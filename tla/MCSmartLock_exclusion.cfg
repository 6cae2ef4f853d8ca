\* Three modules, one with two goroutines; holders may never unlock.
SPECIFICATION FairSpec
CONSTANTS
    s1 = s1 s2 = s2 s3 = s3 g1 = g1 g2 = g2 g3 = g3 g4 = g4
    None = None
    States = {s1, s2, s3}
    Goroutines = {g1, g2, g3, g4}
    StateOf <- MCStateOf
    Owner = g1
    MaxCalls = 1
INVARIANTS LiveExclusion
PROPERTIES LockReturns
CHECK_DEADLOCK FALSE
