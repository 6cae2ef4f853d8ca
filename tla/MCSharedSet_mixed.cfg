\* Two transactions, a context without transaction, and what they do once ended.
SPECIFICATION Spec
CONSTANTS
    w1 = w1 w2 = w2 n1 = n1 k1 = k1 k2 = k2
    None = None
    Ctxs = {w1, w2, n1}
    Writers = {w1, w2}
    Keys = {k1}
    TimeoutInCall = FALSE
SYMMETRY Sym
INVARIANTS OthersSeeCommitted WriterSeesOwnChanges StoredUnlessOvertaken
CHECK_DEADLOCK FALSE
