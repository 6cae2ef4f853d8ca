\* One transaction with two callbacks and effects, or two with one of each.
SPECIFICATION FairSpec
CONSTANTS
    p1 = p1 p2 = p2 t1 = t1 t2 = t2 k1 = k1 k2 = k2 e1 = e1 e2 = e2
    Ctx = Ctx
    None = None
    Callers = {p1, p2}
    Starters = {p1}
    Txs = {t1, t2}
    ReadonlyTxs = {t2}
    Keys = {k1, k2}
    Effects = {e1, e2}
CONSTRAINT OneOrTwoTxs
INVARIANTS EndCallbacksAgree DueCallbacksCalled CurrentTxIsRunning
PROPERTIES FinishedIsFinal ImplementsAbstract StartedFinishes
CHECK_DEADLOCK FALSE
