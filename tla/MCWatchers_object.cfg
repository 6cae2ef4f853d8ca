\* Two goroutines, two watchers, callbacks added and removed.
SPECIFICATION FairSpec
CONSTANTS
    u1 = u1 u2 = u2 w1 = w1 w2 = w2
    None = None
    Users = {u1, u2}
    Ws = {w1, w2}
    Filter <- TwoFilters
    Capacity = 1
    ArrayLen = 2
    TasksLock = FALSE
    MaxValues = 2
    MaxHandles = 3
    MaxLive = 2
INVARIANTS InformedOfAll
  
CONSTRAINT TwoOfThem
CHECK_DEADLOCK FALSE
