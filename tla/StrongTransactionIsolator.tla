--------------------- MODULE StrongTransactionIsolator ---------------------
(***************************************************************************)
(* StrongTransactionIsolator (internal/core/transaction_isolation.go): the *)
(* gate that shared objects and collections put in front of every access.  *)
(*                                                                         *)
(* Every context has one goroutine and at most one transaction, named as   *)
(* the context: readonly (Readers), read-write (Writers) or none (the      *)
(* other contexts).  isolator.lock is held only inside a step.  The calls  *)
(* are those of the collections: requireRunningTx is false.                *)
(*                                                                         *)
(* readonlyTxs is a Go slice: a backing array of the heap and a length.    *)
(* The goroutine of a writer that waits iterates over its own slice of the *)
(* same array, which removeFinishedTxs compacts in place.                  *)
(***************************************************************************)
EXTENDS Naturals, Sequences, FiniteSets

CONSTANTS
    Ctxs, Readers, Writers,
    MaxDepth,           \* MAX_SUBSEQUENT_WAIT_WRITE_TX_COUNT
    Cancellable,        \* the contexts that may be cancelled
    RetryAfterTimeout,  \* whether contexts call again after ErrWaitReadonlyTxsTimeout
    None

ASSUME CtxsAssumption ==
    /\ Readers \cup Writers \cup Cancellable \subseteq Ctxs
    /\ Readers \cap Writers = {}
    /\ None \notin Ctxs
    /\ MaxDepth \in Nat \ {0}
    /\ RetryAfterTimeout \in BOOLEAN

VARIABLES
    \* the transactions, as the isolator sees them
    attached,        \* [Ctxs -> BOOLEAN]: ctx.GetTx() is the transaction, not nil
    finished,        \* [Ctxs -> BOOLEAN]: Finished() is closed
    ctxDone,         \* [Ctxs -> BOOLEAN]
    \* the isolator
    currentWriteTx,
    heap,            \* backing arrays allocated for readonlyTxs
    arr, len,        \* readonlyTxs: its array in the heap (0: nil slice) and its length
    armed, tick,     \* readonlyTxsWaitTimer: running, a value is in its channel
    \* the call of each goroutine
    pc, depth,
    itArr, itLen, itPos, itCur,  \* range readTxs: slice, position, channel waited for
    waited,          \* the write transaction waited for
    \* results
    result,          \* result of the last call
    admitted         \* [Ctxs -> BOOLEAN]: a call has returned the transaction

txVars == <<attached, finished, ctxDone>>
sliceVars == <<heap, arr, len>>
timerVars == <<armed, tick>>
iterVars == <<itArr, itLen, itPos, itCur>>
vars == <<txVars, currentWriteTx, sliceVars, timerVars, pc, depth, iterVars, waited,
          result, admitted>>

Init ==
    /\ attached = [c \in Ctxs |-> c \in Readers \cup Writers]
    /\ finished = [c \in Ctxs |-> FALSE]
    /\ ctxDone = [c \in Ctxs |-> FALSE]
    /\ currentWriteTx = None
    /\ heap = <<>>
    /\ arr = 0
    /\ len = 0
    /\ armed = FALSE
    /\ tick = FALSE
    /\ pc = [c \in Ctxs |-> "idle"]
    /\ depth = [c \in Ctxs |-> 0]
    /\ itArr = [c \in Ctxs |-> 0]
    /\ itLen = [c \in Ctxs |-> 0]
    /\ itPos = [c \in Ctxs |-> 0]
    /\ itCur = [c \in Ctxs |-> None]
    /\ waited = [c \in Ctxs |-> None]
    /\ result = [c \in Ctxs |-> "none"]
    /\ admitted = [c \in Ctxs |-> FALSE]

-----------------------------------------------------------------------------
(* Transactions end at any time: commit, rollback, timeout (Transaction).  *)

TxDetach(c) ==
    /\ attached[c]
    /\ attached' = [attached EXCEPT ![c] = FALSE]
    /\ UNCHANGED <<finished, ctxDone, currentWriteTx, sliceVars, timerVars, pc, depth,
                   iterVars, waited, result, admitted>>

TxFinish(c) ==
    /\ c \in Readers \cup Writers
    /\ ~attached[c] /\ ~finished[c]
    /\ finished' = [finished EXCEPT ![c] = TRUE]
    /\ UNCHANGED <<attached, ctxDone, currentWriteTx, sliceVars, timerVars, pc, depth,
                   iterVars, waited, result, admitted>>

CtxCancel(c) ==
    /\ c \in Cancellable /\ ~ctxDone[c]
    /\ ctxDone' = [ctxDone EXCEPT ![c] = TRUE]
    /\ UNCHANGED <<attached, finished, currentWriteTx, sliceVars, timerVars, pc, depth,
                   iterVars, waited, result, admitted>>

-----------------------------------------------------------------------------
(* removeFinishedTxs                                                       *)

\* Mutant: the tracked write transaction is cleared even if it is not finished.
WriteTxForgotten == None

WriteTx == IF currentWriteTx # None /\ finished[currentWriteTx] THEN None ELSE currentWriteTx

\* The positions of the transactions that are not done.
Kept == {i \in 1..len : ~finished[heap[arr][i]]}

\* They move to the left, in order.
Unfinished ==
    LET kept == Kept IN
    [n \in 1..Cardinality(kept) |->
        heap[arr][CHOOSE i \in kept : Cardinality({k \in kept : k <= i}) = n]]

\* Compacting shifts the survivors to the left; the slots left over hold copies of
\* the last element.
Compacted ==
    LET unfinished == Unfinished IN
    [i \in 1..Len(heap[arr]) |->
        IF i <= Len(unfinished) THEN unfinished[i]
        ELSE IF i <= len THEN heap[arr][len] ELSE heap[arr][i]]

\* Nothing moves when none is done.
CompactedHeap == IF Kept = 1..len THEN heap ELSE [heap EXCEPT ![arr] = Compacted]

\* append(readonlyTxs, tx) on the compacted slice: in place if there is room, else in
\* a new array of twice the capacity.
Appended(tx) ==
    LET n == Cardinality(Kept)
        capacity == IF arr = 0 THEN 0 ELSE Len(heap[arr])
        slots == IF capacity = 0 THEN 1 ELSE 2 * capacity
    IN
    IF n < capacity
    THEN [heap |-> [CompactedHeap EXCEPT ![arr][n + 1] = tx], arr |-> arr]
    ELSE [heap |-> Append(CompactedHeap,
                          [i \in 1..slots |-> IF i <= n THEN Unfinished[i]
                                              ELSE IF i = n + 1 THEN tx ELSE None]),
          arr |-> Len(heap) + 1]

-----------------------------------------------------------------------------
(* WaitForOtherTxsToTerminate.  Enter is the call, or the recursive call   *)
(* after a wait for a write transaction, up to its return or its wait.     *)

Return(c, res) ==
    /\ pc' = [pc EXCEPT ![c] = "idle"]
    /\ depth' = [depth EXCEPT ![c] = 0]
    /\ result' = [result EXCEPT ![c] = res]
    /\ admitted' = [admitted EXCEPT ![c] = @ \/ res = "tx"]

\* range readTxs starts at, or moves to, position pos of a slice.
Iterate(c, a, n, pos, tx) ==
    /\ itArr' = [itArr EXCEPT ![c] = a]
    /\ itLen' = [itLen EXCEPT ![c] = n]
    /\ itPos' = [itPos EXCEPT ![c] = pos]
    /\ itCur' = [itCur EXCEPT ![c] = tx]

StopIteration(c) == Iterate(c, 0, 0, 0, None)

CanEnter(c) ==
    /\ pc[c] \in {"idle", "retry"}
    /\ pc[c] = "idle" /\ result[c] = "timeout" => RetryAfterTimeout

\* depth >= MAX_SUBSEQUENT_WAIT_WRITE_TX_COUNT
EnterTooDeep(c) ==
    /\ CanEnter(c)
    /\ depth[c] >= MaxDepth
    /\ Return(c, "err")
    /\ UNCHANGED <<txVars, currentWriteTx, sliceVars, timerVars, iterVars, waited>>

\* ctx.GetTx() panics on a done context.
EnterDone(c) ==
    /\ CanEnter(c)
    /\ depth[c] < MaxDepth
    /\ ctxDone[c]
    /\ Return(c, "err")
    /\ UNCHANGED <<txVars, currentWriteTx, sliceVars, timerVars, iterVars, waited>>

\* The part common to all the other calls: removeFinishedTxs.
Enter(c) ==
    /\ CanEnter(c)
    /\ depth[c] < MaxDepth
    /\ ~ctxDone[c]
    /\ UNCHANGED txVars

\* No transaction, and no write transaction is tracked.
EnterWithoutTx(c) ==
    /\ Enter(c)
    /\ WriteTx = None /\ ~attached[c]
    /\ currentWriteTx' = None
    /\ heap' = CompactedHeap /\ len' = Cardinality(Kept)
    /\ Return(c, "nil")
    /\ UNCHANGED <<arr, timerVars, iterVars, waited>>

\* Mutant: a readonly transaction does not look at the tracked write transaction.
EnterReadonlyNoCheck(c) ==
    /\ Enter(c)
    /\ c \in Readers /\ attached[c]
    /\ currentWriteTx' = WriteTx
    /\ LET a == Appended(c) IN heap' = a.heap /\ arr' = a.arr
    /\ len' = Cardinality(Kept) + 1
    /\ Return(c, "tx")
    /\ UNCHANGED <<timerVars, iterVars, waited>>

\* Mutant: a readonly transaction is tracked only if it is the first one.
EnterReadonlyNoAppend(c) ==
    /\ Enter(c)
    /\ WriteTx = None /\ c \in Readers /\ attached[c]
    /\ currentWriteTx' = None
    /\ IF Kept # {}
       THEN /\ heap' = CompactedHeap /\ len' = Cardinality(Kept)
            /\ UNCHANGED arr
       ELSE /\ LET a == Appended(c) IN heap' = a.heap /\ arr' = a.arr
            /\ len' = Cardinality(Kept) + 1
    /\ Return(c, "tx")
    /\ UNCHANGED <<timerVars, iterVars, waited>>

\* A readonly transaction is added to the tracked ones.
EnterReadonly(c) ==
    /\ Enter(c)
    /\ WriteTx = None /\ c \in Readers /\ attached[c]
    /\ currentWriteTx' = None
    /\ IF \E i \in Kept : heap[arr][i] = c
       THEN /\ heap' = CompactedHeap /\ len' = Cardinality(Kept)
            /\ UNCHANGED arr
       ELSE /\ LET a == Appended(c) IN heap' = a.heap /\ arr' = a.arr
            /\ len' = Cardinality(Kept) + 1
    /\ Return(c, "tx")
    /\ UNCHANGED <<timerVars, iterVars, waited>>

\* A read-write transaction becomes the tracked one; there is no readonly one.
EnterWrite(c) ==
    /\ Enter(c)
    /\ WriteTx = None /\ c \in Writers /\ attached[c]
    /\ Kept = {}
    /\ currentWriteTx' = c
    /\ heap' = CompactedHeap /\ len' = 0
    /\ Return(c, "tx")
    /\ UNCHANGED <<arr, timerVars, iterVars, waited>>

\* A read-write transaction becomes the tracked one and waits for the readonly ones;
\* the timer is created or reset (a value left in its channel stays).
EnterWriteWait(c) ==
    /\ Enter(c)
    /\ WriteTx = None /\ c \in Writers /\ attached[c]
    /\ Kept # {}
    /\ currentWriteTx' = c
    /\ heap' = CompactedHeap /\ len' = Cardinality(Kept)
    /\ armed' = TRUE
    /\ pc' = [pc EXCEPT ![c] = "waitReaders"]
    /\ Iterate(c, arr, Cardinality(Kept), 1, Unfinished[1])
    /\ UNCHANGED <<arr, tick, depth, waited, result, admitted>>

\* The tracked write transaction calls again.
EnterAgain(c) ==
    /\ Enter(c)
    /\ WriteTx = c /\ attached[c]
    /\ heap' = CompactedHeap /\ len' = Cardinality(Kept)
    /\ Return(c, "tx")
    /\ UNCHANGED <<currentWriteTx, arr, timerVars, iterVars, waited>>

\* Another write transaction is tracked: wait for it, with or without a transaction.
EnterWaitWriter(c) ==
    /\ Enter(c)
    /\ WriteTx # None /\ ~(WriteTx = c /\ attached[c])
    /\ heap' = CompactedHeap /\ len' = Cardinality(Kept)
    /\ pc' = [pc EXCEPT ![c] = "waitWriter"]
    /\ waited' = [waited EXCEPT ![c] = WriteTx]
    /\ UNCHANGED <<currentWriteTx, arr, timerVars, depth, iterVars, result, admitted>>

\* The channel waited for is closed: the next one is read from the shared array.
NextReader(c) ==
    /\ pc[c] = "waitReaders"
    /\ finished[itCur[c]]
    /\ itPos[c] < itLen[c]
    /\ Iterate(c, itArr[c], itLen[c], itPos[c] + 1, heap[itArr[c]][itPos[c] + 1])
    /\ UNCHANGED <<txVars, currentWriteTx, sliceVars, timerVars, pc, depth, waited, result,
                   admitted>>

\* The last channel is closed: the timer is stopped and drained.
ReadersFinished(c) ==
    /\ pc[c] = "waitReaders"
    /\ finished[itCur[c]]
    /\ itPos[c] = itLen[c]
    /\ armed' = FALSE
    /\ tick' = FALSE
    /\ StopIteration(c)
    /\ Return(c, "tx")
    /\ UNCHANGED <<txVars, currentWriteTx, sliceVars, waited>>

TimerFires ==
    /\ armed
    /\ armed' = FALSE
    /\ tick' = TRUE
    /\ UNCHANGED <<txVars, currentWriteTx, sliceVars, pc, depth, iterVars, waited, result,
                   admitted>>

\* ErrWaitReadonlyTxsTimeout; the transaction stays the tracked write transaction.
ReadersTimeout(c) ==
    /\ pc[c] = "waitReaders"
    /\ tick
    /\ tick' = FALSE
    /\ StopIteration(c)
    /\ Return(c, "timeout")
    /\ UNCHANGED <<txVars, currentWriteTx, sliceVars, armed, waited>>

\* Mutant: only the cancellation of the context ends the wait.
WriterFinishedMissed(c) ==
    /\ pc[c] = "waitWriter"
    /\ ctxDone[c]
    /\ pc' = [pc EXCEPT ![c] = "retry"]
    /\ depth' = [depth EXCEPT ![c] = @ + 1]
    /\ waited' = [waited EXCEPT ![c] = None]
    /\ UNCHANGED <<txVars, currentWriteTx, sliceVars, timerVars, iterVars, result, admitted>>

WriterFinished(c) ==
    /\ pc[c] = "waitWriter"
    /\ finished[waited[c]]
    /\ pc' = [pc EXCEPT ![c] = "retry"]
    /\ depth' = [depth EXCEPT ![c] = @ + 1]
    /\ waited' = [waited EXCEPT ![c] = None]
    /\ UNCHANGED <<txVars, currentWriteTx, sliceVars, timerVars, iterVars, result, admitted>>

WaitCancelled(c) ==
    /\ pc[c] = "waitWriter"
    /\ ctxDone[c]
    /\ waited' = [waited EXCEPT ![c] = None]
    /\ Return(c, "err")
    /\ UNCHANGED <<txVars, currentWriteTx, sliceVars, timerVars, iterVars>>

-----------------------------------------------------------------------------
Step(c) ==
    \/ EnterTooDeep(c)
    \/ EnterDone(c)
    \/ EnterWithoutTx(c)
    \/ EnterReadonly(c)
    \/ EnterWrite(c)
    \/ EnterWriteWait(c)
    \/ EnterAgain(c)
    \/ EnterWaitWriter(c)
    \/ NextReader(c)
    \/ ReadersFinished(c)
    \/ ReadersTimeout(c)
    \/ WriterFinished(c)
    \/ WaitCancelled(c)

Next ==
    \/ \E c \in Ctxs : Step(c) \/ TxDetach(c) \/ TxFinish(c) \/ CtxCancel(c)
    \/ TimerFires

Spec == Init /\ [][Next]_vars

\* Goroutines inside a call run when they can and the timer fires; whether contexts
\* call the isolator, or their transactions end, is left open.
SchedFairness ==
    /\ \A c \in Ctxs : WF_vars(pc[c] # "idle" /\ Step(c))
    /\ WF_vars(TimerFires)

SchedSpec == Spec /\ SchedFairness

\* Every transaction ends (Transaction!StartedFinishes).
TxFairness == \A c \in Ctxs : WF_vars(TxDetach(c)) /\ WF_vars(TxFinish(c))

FairSpec == SchedSpec /\ TxFairness

-----------------------------------------------------------------------------
(* Properties.                                                             *)

Slots(a) == IF a = 0 THEN 0 ELSE Len(heap[a])

\* Types; the lengths of the slices stay within their arrays.
TypeOK ==
    /\ attached \in [Ctxs -> BOOLEAN]
    /\ finished \in [Ctxs -> BOOLEAN]
    /\ ctxDone \in [Ctxs -> BOOLEAN]
    /\ currentWriteTx \in Writers \cup {None}
    /\ heap \in Seq(Seq(Readers \cup {None}))
    /\ arr \in 0..Len(heap) /\ len \in 0..Slots(arr)
    /\ armed \in BOOLEAN /\ tick \in BOOLEAN
    /\ pc \in [Ctxs -> {"idle", "waitReaders", "waitWriter", "retry"}]
    /\ depth \in [Ctxs -> 0..MaxDepth]
    /\ \A c \in Ctxs : itArr[c] \in 0..Len(heap) /\ itLen[c] \in 0..Slots(itArr[c])
                       /\ itPos[c] \in 0..itLen[c] /\ itCur[c] \in Readers \cup {None}
    /\ waited \in [Ctxs -> Writers \cup {None}]
    /\ result \in [Ctxs -> {"none", "tx", "nil", "timeout", "err"}]
    /\ admitted \in [Ctxs -> BOOLEAN]

Inside(c) == admitted[c] /\ ~finished[c]

\* At most one read-write transaction has been let through and is not finished.
WriteTxsExclude ==
    \A v, w \in Writers : Inside(v) /\ Inside(w) => v = w

\* No call returns to a readonly transaction, or to a context without transaction,
\* while a read-write transaction let through by the isolator is not finished.
NoEntryDuringWrite ==
    [][\A c \in Ctxs \ Writers : pc'[c] = "idle" /\ result'[c] \in {"tx", "nil"}
            /\ (pc[c] # "idle" \/ result[c] # result'[c])
            => \A w \in Writers : ~Inside(w)]_vars

\* Every readonly transaction that was let through and is not finished is tracked, so
\* that the next write transaction waits for it.
ReadersTracked ==
    \A r \in Readers : Inside(r) => \E i \in 1..len : heap[arr][i] = r

\* Every call returns once the transactions it waits for end, however often it waits.
CallReturns == \A c \in Ctxs : pc[c] # "idle" ~> pc[c] = "idle"

\* "Read-write transactions have to wait for all readonly transactions [...] to
\* terminate": a write transaction is not let through beside a readonly one.
WriteWaitsForReaders ==
    \A w \in Writers, r \in Readers : ~(Inside(w) /\ Inside(r))

\* "ErrWaitReadonlyTxsTimeout is returned if too much time is spent waiting for
\* readonly transaction to terminate": the wait ends even if they never do.
ReadersWaitIsBounded == \A w \in Writers : pc[w] = "waitReaders" ~> pc[w] # "waitReaders"
=============================================================================
