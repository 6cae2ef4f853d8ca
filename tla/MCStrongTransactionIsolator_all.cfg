\* Two readers and a writer, or a reader and two writers; r2 may be cancelled.
SPECIFICATION FairSpec
CONSTANTS
    r1 = r1 r2 = r2 r3 = r3 w1 = w1 w2 = w2
    None = None
    Readers = {r1, r2}
    Writers = {w1, w2}
    Ctxs = {r1, r2, w1, w2}
    Cancellable = {r2}
    MaxDepth = 2
    RetryAfterTimeout = TRUE
CONSTRAINT OneLeaves
INVARIANTS WriteTxsExclude ReadersTracked
PROPERTIES NoEntryDuringWrite CallReturns
CHECK_DEADLOCK FALSE
