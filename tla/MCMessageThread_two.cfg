\* Two transactions, four elements, one restart, an iterator of two-element segments.
SPECIFICATION Spec
CONSTANTS
    t1 = t1
    t2 = t2
    Txs = {t1, t2}
    NoTx = NoTx
    SegmentSize = 2
    MaxElements = 4
    MaxCrashes = 1
SYMMETRY Symmetry
CHECK_DEADLOCK FALSE
INVARIANTS CommittedKept  RolledBackRemoved IteratorExact
