\* Two transactions use the store.
SPECIFICATION FairSpec
CONSTANTS
    t1 = t1
    t2 = t2
    n1 = n1
    k1 = k1
    k2 = k2
    Ctxs = {t1, t2}
    TxCtxs = {t1, t2}
    EndWriters = {t1}
    Keys = {k1}
    TimeoutInCall = FALSE
    WithClose = FALSE
    None = None
PROPERTIES
    EndCallReturns
CHECK_DEADLOCK FALSE
