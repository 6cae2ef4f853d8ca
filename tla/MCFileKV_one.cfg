\* One transaction at a time uses the store, which is closed.
SPECIFICATION FairSpec
CONSTANTS
    t1 = t1
    t2 = t2
    n1 = n1
    k1 = k1
    k2 = k2
    Ctxs = {t1, n1}
    TxCtxs = {t1}
    EndWriters = {t1}
    Keys = {k1}
    TimeoutInCall = FALSE
    WithClose = TRUE
    None = None
INVARIANTS

    EndedReleases
    AllOrNothing
PROPERTIES
    CallReturns
CHECK_DEADLOCK FALSE
