\* A thread that yields, pauses and is waited for, or one with tasks and microtasks.
SPECIFICATION FairThreadSpec
CONSTANTS
    Root = root
    Ctxs = {root, t1}
    Threads = {t1}
    Users = {u1}
    Targets = {t1}
    Cancellers = {t1, u1}
    Waiters = {root}
    MaxTasks = 2
    MaxYields = 1
CHECK_DEADLOCK FALSE
CONSTRAINT TasksOrThreads
INVARIANTS DepletionExact NoSendOnClosed TearDownComplete
PROPERTIES CancelTearsDown  
