------------------ MODULE StrongTransactionIsolatorProofs ------------------
(***************************************************************************)
(* For every set of contexts: the isolator lets at most one unfinished     *)
(* read-write transaction through, lets nobody else in beside it, and      *)
(* tracks every unfinished readonly transaction it has let through.        *)
(*                                                                         *)
(* The exclusion is not inductive as it stands.  What is inductive is that *)
(* an unfinished write transaction that has been let through, or waits for *)
(* the readonly ones, is the one the isolator tracks.  That the readonly   *)
(* ones are tracked rests on what removeFinishedTxs and append do to the   *)
(* slice.                                                                  *)
(***************************************************************************)
EXTENDS StrongTransactionIsolator, FiniteSetTheorems, TLAPS

Types ==
    /\ finished \in [Ctxs -> BOOLEAN]
    /\ currentWriteTx \in Writers \cup {None}
    /\ pc \in [Ctxs -> {"idle", "waitReaders", "waitWriter", "retry"}]
    /\ result \in [Ctxs -> {"none", "tx", "nil", "timeout", "err"}]
    /\ admitted \in [Ctxs -> BOOLEAN]

Tracked ==
    \A w \in Ctxs :
        /\ w \in Writers /\ admitted[w] /\ ~finished[w] => currentWriteTx = w
        /\ pc[w] = "waitReaders" => w \in Writers /\ (~finished[w] => currentWriteTx = w)

IInv == Types /\ Tracked

-----------------------------------------------------------------------------
\* What a return from a call does to the types.
LEMMA ReturnTyped ==
    ASSUME Types, NEW c \in Ctxs, NEW res \in {"tx", "nil", "timeout", "err"}, Return(c, res)
    PROVE  /\ pc' \in [Ctxs -> {"idle", "waitReaders", "waitWriter", "retry"}]
           /\ result' \in [Ctxs -> {"none", "tx", "nil", "timeout", "err"}]
           /\ admitted' \in [Ctxs -> BOOLEAN]
           /\ pc'[c] = "idle"
           /\ result'[c] = res
           /\ admitted'[c] = (admitted[c] \/ res = "tx")
           /\ \A d \in Ctxs \ {c} : /\ pc'[d] = pc[d] /\ admitted'[d] = admitted[d]
                                    /\ result'[d] = result[d]
BY Zenon DEF Types, Return

\* The write transaction left by removeFinishedTxs is tracked and not finished, and
\* is the only unfinished one that was let through.
LEMMA WriteTxTracked ==
    ASSUME IInv
    PROVE  /\ WriteTx \in Writers \cup {None}
           /\ \A w \in Writers : admitted[w] /\ ~finished[w] => WriteTx = w
           /\ \A w \in Ctxs : pc[w] = "waitReaders" /\ ~finished[w] => WriteTx = w
<1>1. Writers \subseteq Ctxs /\ None \notin Ctxs
  BY CtxsAssumption, Zenon
<1>. QED BY <1>1, Zenon DEF IInv, Types, Tracked, WriteTx

\* A step that returns from a call and leaves the transactions alone keeps the
\* invariant if the tracked write transaction is kept, or cleared when finished, and
\* a write transaction let through is the tracked one.
LEMMA ReturnKeeps ==
    ASSUME IInv, NEW c \in Ctxs, NEW res \in {"tx", "nil", "timeout", "err"}, Return(c, res),
           finished' = finished, currentWriteTx' \in {currentWriteTx, WriteTx},
           c \in Writers /\ res = "tx" /\ ~finished[c] => currentWriteTx' = c
    PROVE  IInv'
<1>1. Types'
  BY ReturnTyped, WriteTxTracked, ZenonT(60) DEF IInv, Types
<1>2. ASSUME NEW w \in Ctxs
      PROVE  /\ w \in Writers /\ admitted'[w] /\ ~finished'[w] => currentWriteTx' = w
             /\ pc'[w] = "waitReaders" => w \in Writers /\ (~finished'[w] => currentWriteTx' = w)
  <2>1. CASE w = c
    BY <2>1, ReturnTyped, WriteTxTracked, ZenonT(60) DEF IInv, Tracked
  <2>2. CASE w # c
    BY <2>2, ReturnTyped, WriteTxTracked DEF IInv, Tracked
  <2>. QED BY <2>1, <2>2, Zenon
<1>. QED BY <1>1, <1>2, Zenon DEF IInv, Tracked

\* A write transaction that was not let in before becomes the tracked one: no other
\* one was tracked.
LEMMA BecomesTracked ==
    ASSUME IInv, NEW c \in Writers, WriteTx = None, finished' = finished,
           currentWriteTx' = c
    PROVE  \A w \in Ctxs \ {c} : /\ w \in Writers => ~(admitted[w] /\ ~finished[w])
                                 /\ pc[w] = "waitReaders" => finished[w]
<1>1. Writers \subseteq Ctxs /\ None \notin Ctxs
  BY CtxsAssumption, Zenon
<1>. QED BY <1>1, WriteTxTracked, Zenon

-----------------------------------------------------------------------------
\* A step of a goroutine inside WaitForOtherTxsToTerminate keeps the invariant.
LEMMA StepKeeps ==
    ASSUME IInv, NEW c \in Ctxs, Step(c)
    PROVE  IInv'
<1>0. /\ Writers \subseteq Ctxs /\ Readers \subseteq Ctxs
      /\ Readers \cap Writers = {} /\ None \notin Ctxs
  BY CtxsAssumption, Zenon
<1>1. CASE EnterTooDeep(c)
  BY <1>1, ReturnKeeps, Zenon DEF EnterTooDeep, txVars
<1>2. CASE EnterDone(c)
  BY <1>2, ReturnKeeps, Zenon DEF EnterDone, txVars
<1>3. CASE EnterWithoutTx(c)
  BY <1>3, ReturnKeeps, Zenon DEF EnterWithoutTx, Enter, txVars
<1>4. CASE EnterReadonly(c)
  BY <1>0, <1>4, ReturnKeeps, Zenon DEF EnterReadonly, Enter, txVars
<1>5. CASE EnterWrite(c)
  <2>1. /\ finished' = finished /\ currentWriteTx' = c /\ Return(c, "tx")
        /\ c \in Writers /\ WriteTx = None
    BY <1>5, Zenon DEF EnterWrite, Enter, txVars
  <2>2. Types'
    BY <2>1, ReturnTyped, Zenon DEF IInv, Types
  <2>3. Tracked'
    BY <2>1, BecomesTracked, ReturnTyped DEF IInv, Tracked
  <2>. QED BY <2>2, <2>3, Zenon DEF IInv
<1>6. CASE EnterWriteWait(c)
  <2>1. /\ finished' = finished /\ currentWriteTx' = c /\ c \in Writers /\ WriteTx = None
        /\ pc' = [pc EXCEPT ![c] = "waitReaders"] /\ UNCHANGED <<result, admitted>>
    BY <1>6, Zenon DEF EnterWriteWait, Enter, txVars
  <2>2. Types'
    BY <2>1, Zenon DEF IInv, Types
  <2>3. Tracked'
    BY <2>1, BecomesTracked, Zenon DEF IInv, Types, Tracked
  <2>. QED BY <2>2, <2>3, ZenonT(60) DEF IInv
<1>7. CASE EnterAgain(c)
  <2>1. finished' = finished /\ currentWriteTx' = currentWriteTx /\ Return(c, "tx") /\ WriteTx = c
    BY <1>7, Zenon DEF EnterAgain, Enter, txVars
  <2>2. currentWriteTx = c
    BY <1>0, <2>1, Zenon DEF WriteTx
  <2>. QED BY <2>1, <2>2, ReturnKeeps, Zenon
<1>8. CASE EnterWaitWriter(c)
  <2>1. /\ finished' = finished /\ pc' = [pc EXCEPT ![c] = "waitWriter"]
        /\ UNCHANGED <<currentWriteTx, result, admitted>>
    BY <1>8, Zenon DEF EnterWaitWriter, Enter, txVars
  <2>. QED BY <2>1, Zenon DEF IInv, Types, Tracked
<1>9. CASE NextReader(c)
  BY <1>9, Zenon DEF NextReader, txVars, IInv, Types, Tracked
<1>10. CASE ReadersFinished(c)
  <2>1. /\ pc[c] = "waitReaders" /\ finished' = finished /\ currentWriteTx' = currentWriteTx
        /\ Return(c, "tx")
    BY <1>10, Zenon DEF ReadersFinished, txVars
  <2>2. ~finished[c] => currentWriteTx = c
    BY <2>1, Zenon DEF IInv, Tracked
  <2>. QED BY <2>1, <2>2, ReturnKeeps, Zenon
<1>11. CASE ReadersTimeout(c)
  BY <1>11, ReturnKeeps, Zenon DEF ReadersTimeout, txVars
<1>12. CASE WriterFinished(c)
  <2>1. /\ finished' = finished /\ pc' = [pc EXCEPT ![c] = "retry"]
        /\ UNCHANGED <<currentWriteTx, result, admitted>>
    BY <1>12, Zenon DEF WriterFinished, txVars
  <2>. QED BY <2>1, Zenon DEF IInv, Types, Tracked
<1>13. CASE WaitCancelled(c)
  BY <1>13, ReturnKeeps, Zenon DEF WaitCancelled, txVars
<1>. QED BY <1>1, <1>2, <1>3, <1>4, <1>5, <1>6, <1>7, <1>8, <1>9, <1>10, <1>11, <1>12, <1>13,
            ZenonT(60)
         DEF Step

\* Initially nothing is tracked; every step keeps the invariant.
LEMMA Inductive ==
    /\ Init => IInv
    /\ IInv /\ [Next]_vars => IInv'
<1>1. Init => IInv
  BY DEF Init, IInv, Types, Tracked
<1>2. ASSUME IInv, [Next]_vars
      PROVE  IInv'
  <2>1. CASE \E c \in Ctxs : Step(c)
    BY <1>2, <2>1, StepKeeps, Zenon
  <2>2. CASE \E c \in Ctxs : TxDetach(c) \/ CtxCancel(c)
    BY <1>2, <2>2, ZenonT(60) DEF TxDetach, CtxCancel, IInv, Types, Tracked
  <2>3. ASSUME NEW c \in Ctxs, TxFinish(c)
        PROVE  IInv'
    BY <1>2, <2>3, Zenon DEF TxFinish, IInv, Types, Tracked
  <2>4. CASE TimerFires
    BY <1>2, <2>4, Zenon DEF TimerFires, txVars, IInv, Types, Tracked
  <2>5. CASE UNCHANGED vars
    BY <1>2, <2>5, Zenon DEF vars, txVars, IInv, Types, Tracked
  <2>. QED BY <1>2, <2>1, <2>2, <2>3, <2>4, <2>5, Zenon DEF Next
<1>. QED BY <1>1, <1>2, Zenon

\* At most one unfinished read-write transaction is let through, for any number of
\* contexts, calls, timeouts and cancellations.
THEOREM WritesExclude == Spec => []WriteTxsExclude
<1>1. IInv => WriteTxsExclude
  BY CtxsAssumption, Zenon DEF IInv, Tracked, WriteTxsExclude, Inside
<1>. QED BY Inductive, <1>1, PTL DEF Spec

\* No call of another context returns while a read-write transaction that was let
\* through is not finished.
THEOREM NobodyEnters == Spec => NoEntryDuringWrite
<1>0. /\ Writers \subseteq Ctxs /\ Readers \subseteq Ctxs
      /\ Readers \cap Writers = {} /\ None \notin Ctxs
  BY CtxsAssumption, Zenon
<1>1. ASSUME IInv, [Next]_vars, NEW c \in Ctxs \ Writers,
             pc'[c] = "idle", result'[c] \in {"tx", "nil"},
             pc[c] # "idle" \/ result[c] # result'[c],
             NEW w \in Writers, Inside(w)
      PROVE  FALSE
  <2>1. WriteTx = w
    BY <1>1, WriteTxTracked, Zenon DEF Inside
  <2>2. ASSUME NEW d \in Ctxs, Step(d)
        PROVE  FALSE
    <3>1. CASE d = c
      <4>1. CASE EnterTooDeep(c) \/ EnterDone(c) \/ WaitCancelled(c)
        <5>1. Return(c, "err")
          BY <4>1, Zenon DEF EnterTooDeep, EnterDone, WaitCancelled
        <5>. QED BY <1>1, <5>1, ReturnTyped, Zenon DEF IInv
      <4>2. CASE EnterWithoutTx(c) \/ EnterReadonly(c) \/ EnterWrite(c) \/ EnterWriteWait(c)
        BY <1>0, <2>1, <4>2, Zenon DEF EnterWithoutTx, EnterReadonly, EnterWrite, EnterWriteWait
      <4>3. CASE EnterAgain(c)
        BY <2>1, <4>3, <1>1, Zenon DEF EnterAgain
      <4>4. CASE EnterWaitWriter(c) \/ WriterFinished(c)
        <5>1. pc' = [pc EXCEPT ![c] = "waitWriter"] \/ pc' = [pc EXCEPT ![c] = "retry"]
          BY <4>4, Zenon DEF EnterWaitWriter, WriterFinished
        <5>. QED BY <1>1, <5>1, Zenon DEF IInv, Types
      <4>5. CASE NextReader(c) \/ ReadersFinished(c) \/ ReadersTimeout(c)
        <5>1. pc[c] = "waitReaders"
          BY <4>5, Zenon DEF NextReader, ReadersFinished, ReadersTimeout
        <5>. QED BY <1>1, <5>1, Zenon DEF IInv, Tracked
      <4>. QED BY <2>2, <3>1, <4>1, <4>2, <4>3, <4>4, <4>5, ZenonT(60) DEF Step
    <3>2. CASE d # c
      <4>1. pc'[c] = pc[c] /\ result'[c] = result[c]
        BY <1>1, <2>2, <3>2, ZenonT(60)
           DEF Step, EnterTooDeep, EnterDone, EnterWithoutTx, EnterReadonly, EnterWrite,
               EnterWriteWait, EnterAgain, EnterWaitWriter, NextReader, ReadersFinished,
               ReadersTimeout, WriterFinished, WaitCancelled, Return, IInv, Types
      <4>. QED BY <1>1, <4>1, Zenon
    <3>. QED BY <3>1, <3>2, Zenon
  <2>3. CASE \E d \in Ctxs : TxDetach(d) \/ TxFinish(d) \/ CtxCancel(d)
    BY <1>1, <2>3, Zenon DEF TxDetach, TxFinish, CtxCancel
  <2>4. CASE TimerFires \/ UNCHANGED vars
    BY <1>1, <2>4, Zenon DEF TimerFires, vars
  <2>. QED BY <1>1, <2>2, <2>3, <2>4, Zenon DEF Next
<1>2. IInv /\ [Next]_vars
        => [\A c \in Ctxs \ Writers : pc'[c] = "idle" /\ result'[c] \in {"tx", "nil"}
                /\ (pc[c] # "idle" \/ result[c] # result'[c])
                => \A w \in Writers : ~Inside(w)]_vars
  BY <1>1, Zenon
<1>. QED BY Inductive, <1>2, PTL DEF Spec, NoEntryDuringWrite

-----------------------------------------------------------------------------
(* The readonly transactions let through stay tracked.                     *)

Slot == Readers \cup {None}

\* The slice stays within its array.
SliceTyped ==
    /\ heap \in Seq(Seq(Slot))
    /\ arr \in 0..Len(heap)
    /\ len \in 0..Slots(arr)

\* The place of a position among those that compacting keeps.
Rank(i) == Cardinality({k \in Kept : k <= i})

\* The positions kept are positions of an array of the heap.
LEMMA KeptIs ==
    ASSUME SliceTyped
    PROVE  /\ len \in Nat
           /\ IsFiniteSet(Kept) /\ Cardinality(Kept) \in 0..len
           /\ Kept \subseteq 1..len
           /\ Kept # {} => /\ arr \in 1..Len(heap) /\ heap[arr] \in Seq(Slot)
                           /\ len \in 1..Len(heap[arr])
<1>1. /\ len \in Nat
      /\ len # 0 => /\ arr \in 1..Len(heap) /\ heap[arr] \in Seq(Slot)
                    /\ len \in 1..Len(heap[arr])
  <2>1. CASE arr = 0
    BY <2>1 DEF SliceTyped, Slots
  <2>2. CASE arr # 0
    <3>1. arr \in 1..Len(heap) /\ heap[arr] \in Seq(Slot)
      BY <2>2 DEF SliceTyped
    <3>2. len \in 0..Len(heap[arr])
      BY <2>2, Zenon DEF SliceTyped, Slots
    <3>. QED
      BY <3>1, <3>2
  <2>. QED
    BY <2>1, <2>2, Zenon
<1>2. Kept \subseteq 1..len
  BY Zenon DEF Kept
<1>3. IsFiniteSet(1..len) /\ Cardinality(1..len) = len
  BY <1>1, FS_Interval
<1>4. IsFiniteSet(Kept) /\ Cardinality(Kept) <= len
  BY <1>2, <1>3, FS_Subset, ZenonT(60)
<1>5. Cardinality(Kept) \in Nat
  BY <1>4, FS_CardinalityType, Zenon
<1>6. Cardinality(Kept) \in 0..len
  BY <1>1, <1>4, <1>5
<1>7. Kept # {} => len # 0
  <2>1. 1..0 = {}
    OBVIOUS
  <2>. QED
    BY <1>2, <2>1, Zenon
<1>. QED
  BY <1>1, <1>2, <1>4, <1>6, <1>7, Zenon

\* The positions kept are numbered from 1, without gap or repetition.
LEMMA RankIs ==
    ASSUME SliceTyped
    PROVE  /\ \A i \in Kept : Rank(i) \in 1..Cardinality(Kept)
           /\ \A i, j \in Kept : Rank(i) = Rank(j) => i = j
           /\ \A n \in 1..Cardinality(Kept) : \E i \in Kept : Rank(i) = n
<1>. DEFINE N == Cardinality(Kept)
            Below(i) == {k \in Kept : k <= i}
<1>0. IsFiniteSet(Kept) /\ N \in Nat /\ Kept \subseteq Nat
  BY KeptIs
<1>1. ASSUME NEW i \in Kept
      PROVE  Below(i) \in SUBSET Kept /\ i \in Below(i) /\ IsFiniteSet(Below(i)) /\ Rank(i) \in 1..N
  <2>1. Below(i) \in SUBSET Kept /\ i \in Below(i)
    BY <1>0
  <2>2. IsFiniteSet(Below(i)) /\ Rank(i) <= N
    BY <1>0, <2>1, FS_Subset, Zenon DEF Rank
  <2>3. Rank(i) \in Nat /\ Rank(i) # 0
    BY <2>1, <2>2, FS_CardinalityType, FS_EmptySet, Zenon DEF Rank
  <2>. QED
    BY <1>0, <2>1, <2>2, <2>3
<1>2. ASSUME NEW i \in Kept, NEW j \in Kept, i < j PROVE Rank(i) # Rank(j)
  <2>1. Below(i) \in SUBSET Below(j)
    <3>1. \A k \in Kept : k <= i => k <= j
      BY <1>0, <1>2
    <3>. QED
      BY <3>1, Zenon
  <2>2. j \in Below(j) /\ j \notin Below(i)
    BY <1>0, <1>2
  <2>3. IsFiniteSet(Below(j)) /\ Below(i) # Below(j)
    BY <1>1, <2>2, Zenon
  <2>. QED
    BY <2>1, <2>3, FS_Subset, Zenon DEF Rank
<1>3. ASSUME NEW i \in Kept, NEW j \in Kept, Rank(i) = Rank(j) PROVE i = j
  <2>1. i < j \/ j < i \/ i = j
    BY <1>0
  <2>. QED
    BY <1>2, <1>3, <2>1, Zenon
<1>4. ASSUME NEW n \in 1..N, \A i \in Kept : Rank(i) # n PROVE FALSE
  <2>. DEFINE T == (1..N) \ {n}
              f == [i \in Kept |-> Rank(i)]
  <2>1. IsFiniteSet(1..N) /\ Cardinality(1..N) = N
    BY <1>0, FS_Interval
  <2>2. IsFiniteSet(T) /\ Cardinality(T) = N - 1
    BY <1>4, <2>1, FS_RemoveElement, Zenon
  <2>3. Cardinality(T) < Cardinality(Kept)
    BY <1>0, <2>2
  <2>4. f \in [Kept -> T]
    BY <1>1, <1>4, Zenon
  <2>5. \E x, y \in Kept : x # y /\ f[x] = f[y]
    <3>. HIDE DEF f, T
    <3>. QED
      BY <1>0, <2>2, <2>3, <2>4, FS_PigeonHole, ZenonT(60)
  <2>. QED
    BY <1>3, <2>5, Zenon
<1>. QED
  BY <1>1, <1>3, <1>4, Zenon

\* Every transaction that is not done is among the unfinished ones.
LEMMA UnfinishedIs ==
    ASSUME SliceTyped
    PROVE  /\ Unfinished \in [1..Cardinality(Kept) -> Slot]
           /\ Len(Unfinished) = Cardinality(Kept)
           /\ \A i \in Kept : \E n \in 1..Cardinality(Kept) : Unfinished[n] = heap[arr][i]
<1>. DEFINE N == Cardinality(Kept)
            Source(n) == CHOOSE i \in Kept : Rank(i) = n
<1>0. N \in Nat
  BY KeptIs
<1>1. Unfinished = [n \in 1..N |-> heap[arr][Source(n)]]
  BY Zenon DEF Unfinished, Rank
<1>2. \A n \in 1..N : Source(n) \in Kept /\ Rank(Source(n)) = n
  BY RankIs, Zenon
<1>3. \A i \in Kept : heap[arr][i] \in Slot
  <2>. SUFFICES ASSUME NEW i \in Kept PROVE heap[arr][i] \in Slot
    BY Zenon
  <2>1. heap[arr] \in Seq(Slot) /\ len \in 1..Len(heap[arr]) /\ i \in 1..len
    BY KeptIs, Zenon
  <2>. QED
    BY <2>1
<1>4. Unfinished \in [1..N -> Slot]
  BY <1>1, <1>2, <1>3, Zenon
<1>5. ASSUME NEW i \in Kept PROVE \E n \in 1..N : Unfinished[n] = heap[arr][i]
  <2>1. Rank(i) \in 1..N /\ Source(Rank(i)) = i
    BY <1>2, RankIs, Zenon
  <2>. QED
    BY <1>1, <2>1, Zenon
<1>6. Len(Unfinished) = N
  BY <1>0, <1>4
<1>. QED
  BY <1>4, <1>5, <1>6, Zenon

\* Compacting keeps the arrays, and keeps in the slice the transactions that are not done.
LEMMA CompactedIs ==
    ASSUME SliceTyped
    PROVE  /\ CompactedHeap \in Seq(Seq(Slot))
           /\ Len(CompactedHeap) = Len(heap)
           /\ \A a \in 1..Len(heap) : Len(CompactedHeap[a]) = Len(heap[a])
           /\ \A i \in Kept : \E n \in 1..Cardinality(Kept) : CompactedHeap[arr][n] = heap[arr][i]
<1>1. CASE Kept = 1..len
  <2>1. CompactedHeap = heap
    BY <1>1, Zenon DEF CompactedHeap
  <2>2. Cardinality(Kept) = len
    <3>1. len \in Nat
      BY KeptIs, Zenon
    <3>. QED
      BY <1>1, <3>1, FS_Interval
  <2>. QED
    BY <1>1, <2>1, <2>2, Zenon DEF SliceTyped
<1>2. CASE Kept # 1..len
  <2>1. len # 0
    <3>1. 1..0 = {}
      OBVIOUS
    <3>. QED
      BY <1>2, <3>1, KeptIs, Zenon
  <2>2. arr \in 1..Len(heap) /\ heap[arr] \in Seq(Slot) /\ len \in 1..Len(heap[arr])
    <3>1. arr # 0
      BY <2>1 DEF SliceTyped, Slots
    <3>. QED
      BY <2>1, <3>1 DEF SliceTyped, Slots
  <2>3. CompactedHeap = [heap EXCEPT ![arr] = Compacted]
    BY <1>2, Zenon DEF CompactedHeap
  <2>4. Compacted \in [1..Len(heap[arr]) -> Slot]
    <3>. SUFFICES ASSUME NEW i \in 1..Len(heap[arr])
                  PROVE  (IF i <= Len(Unfinished) THEN Unfinished[i]
                          ELSE IF i <= len THEN heap[arr][len] ELSE heap[arr][i]) \in Slot
      BY Zenon DEF Compacted
    <3>1. i <= Len(Unfinished) => i \in 1..Cardinality(Kept)
      BY UnfinishedIs, KeptIs
    <3>2. i <= Len(Unfinished) => Unfinished[i] \in Slot
      BY <3>1, UnfinishedIs, ZenonT(60)
    <3>3. heap[arr][len] \in Slot /\ heap[arr][i] \in Slot
      BY <2>2
    <3>. QED
      BY <3>2, <3>3, Zenon
  <2>5. Compacted \in Seq(Slot) /\ Len(Compacted) = Len(heap[arr])
    BY <2>2, <2>4
  <2>6. /\ CompactedHeap \in Seq(Seq(Slot)) /\ Len(CompactedHeap) = Len(heap)
        /\ CompactedHeap[arr] = Compacted
        /\ \A a \in 1..Len(heap) : a # arr => CompactedHeap[a] = heap[a]
    <3>. HIDE DEF Slot
    <3>. QED
      BY <2>2, <2>3, <2>5, SMTT(30) DEF SliceTyped
  <2>7. \A n \in 1..Cardinality(Kept) : Compacted[n] = Unfinished[n]
    <3>. SUFFICES ASSUME NEW n \in 1..Cardinality(Kept) PROVE Compacted[n] = Unfinished[n]
      BY Zenon
    <3>1. n \in 1..Len(heap[arr]) /\ n <= Len(Unfinished)
      BY <2>2, KeptIs, UnfinishedIs
    <3>. QED
      BY <3>1, Zenon DEF Compacted
  <2>. QED
    BY <2>5, <2>6, <2>7, UnfinishedIs, ZenonT(60)
<1>. QED
  BY <1>1, <1>2, Zenon

\* A step that compacts the slice, or does nothing to it, keeps the tracked transactions.
LEMMA CompactKeeps ==
    ASSUME SliceTyped, heap' = CompactedHeap, arr' = arr, len' = Cardinality(Kept)
    PROVE  /\ SliceTyped'
           /\ \A r : ~finished[r] /\ (\E i \in 1..len : heap[arr][i] = r)
                         => \E i \in 1..len' : heap'[arr'][i] = r
<1>1. heap' \in Seq(Seq(Slot)) /\ Len(heap') = Len(heap)
  BY CompactedIs, Zenon
<1>2. arr' \in 0..Len(heap') /\ Slots(arr)' = Slots(arr)
  <2>1. arr \in 0..Len(heap)
    BY Zenon DEF SliceTyped
  <2>2. arr # 0 => Len(heap'[arr]) = Len(heap[arr])
    <3>1. arr # 0 => arr \in 1..Len(heap)
      BY <2>1
    <3>. QED
      BY <3>1, CompactedIs, Zenon
  <2>. QED
    BY <1>1, <2>1, <2>2, Zenon DEF Slots
<1>3. len' \in 0..Slots(arr)
  <2>1. Slots(arr) \in Nat /\ len \in 0..Slots(arr)
    BY DEF SliceTyped, Slots
  <2>. QED
    BY <2>1, KeptIs
<1>4. SliceTyped'
  BY <1>1, <1>2, <1>3, ZenonT(60) DEF SliceTyped
<1>5. ASSUME NEW r, ~finished[r], NEW i \in 1..len, heap[arr][i] = r
      PROVE  \E n \in 1..len' : heap'[arr'][n] = r
  <2>1. i \in Kept
    BY <1>5, Zenon DEF Kept
  <2>. QED
    BY <1>5, <2>1, CompactedIs, ZenonT(60)
<1>. QED
  BY <1>4, <1>5, Zenon

\* append adds a transaction to the tracked ones.
LEMMA AppendKeeps ==
    ASSUME SliceTyped, NEW c \in Readers,
           heap' = Appended(c).heap, arr' = Appended(c).arr, len' = Cardinality(Kept) + 1
    PROVE  /\ SliceTyped'
           /\ \A r : r = c \/ (~finished[r] /\ \E i \in 1..len : heap[arr][i] = r)
                         => \E i \in 1..len' : heap'[arr'][i] = r
<1>. DEFINE n == Cardinality(Kept)
            capacity == IF arr = 0 THEN 0 ELSE Len(heap[arr])
            slots == IF capacity = 0 THEN 1 ELSE 2 * capacity
            grown == [i \in 1..slots |-> IF i <= n THEN Unfinished[i]
                                         ELSE IF i = n + 1 THEN c ELSE None]
<1>1. n \in Nat /\ capacity \in Nat /\ slots \in Nat /\ n <= capacity /\ n + 1 \in 1..len'
  <2>1. capacity \in Nat /\ len \in 0..capacity
    BY DEF SliceTyped, Slots
  <2>. QED
    BY <2>1, KeptIs
<1>. HIDE DEF n
<1>2. CASE n < capacity
  <2>1. heap' = [CompactedHeap EXCEPT ![arr][n + 1] = c] /\ arr' = arr
    BY <1>2, Zenon DEF Appended, n
  <2>2. arr \in 1..Len(heap) /\ n + 1 \in 1..Len(heap[arr])
    BY <1>1, <1>2, SMTT(30) DEF SliceTyped
  <2>3. /\ CompactedHeap \in Seq(Seq(Slot)) /\ CompactedHeap[arr] \in Seq(Slot)
        /\ Len(CompactedHeap) = Len(heap) /\ Len(CompactedHeap[arr]) = Len(heap[arr])
    BY <2>2, CompactedIs
  <2>4. c \in Slot
    BY Zenon DEF Slot
  <2>. DEFINE row == [CompactedHeap[arr] EXCEPT ![n + 1] = c]
  <2>5. /\ row \in Seq(Slot) /\ Len(row) = Len(heap[arr]) /\ row[n + 1] = c
        /\ \A i \in 1..n : row[i] = CompactedHeap[arr][i]
    BY <1>1, <2>2, <2>3, <2>4, SMTT(30)
  <2>6. heap' = [CompactedHeap EXCEPT ![arr] = row]
    BY <2>1, Zenon
  <2>. HIDE DEF row
  <2>7. heap' \in Seq(Seq(Slot)) /\ Len(heap') = Len(heap) /\ heap'[arr'] = row
    BY <2>1, <2>2, <2>3, <2>5, <2>6, SMTT(30)
  <2>8. SliceTyped'
    <3>1. arr' \in 0..Len(heap') /\ Slots(arr)' = Len(heap[arr])
      BY <2>1, <2>2, <2>5, <2>7 DEF Slots
    <3>2. len' \in 0..Len(heap[arr])
      BY <1>1, <2>2 DEF n
    <3>. QED
      BY <2>7, <3>1, <3>2, ZenonT(60) DEF SliceTyped
  <2>9. ASSUME NEW r, ~finished[r], NEW i \in 1..len, heap[arr][i] = r
        PROVE  \E k \in 1..len' : heap'[arr'][k] = r
    <3>1. i \in Kept
      BY <2>9, Zenon DEF Kept
    <3>2. PICK k \in 1..n : CompactedHeap[arr][k] = r
      BY <2>9, <3>1, CompactedIs, ZenonT(60) DEF n
    <3>3. k \in 1..len'
      BY <1>1, <3>2 DEF n
    <3>. QED
      BY <2>5, <2>7, <3>2, <3>3, ZenonT(60)
  <2>. QED
    BY <1>1, <2>5, <2>7, <2>8, <2>9, ZenonT(60)
<1>3. CASE ~(n < capacity)
  <2>1. heap' = Append(CompactedHeap, grown) /\ arr' = Len(heap) + 1
    BY <1>3, Zenon DEF Appended, n
  <2>2. n + 1 \in 1..slots
    BY <1>1, <1>3
  <2>3. grown \in [1..slots -> Slot]
    <3>. SUFFICES ASSUME NEW i \in 1..slots
                  PROVE  (IF i <= n THEN Unfinished[i] ELSE IF i = n + 1 THEN c ELSE None) \in Slot
      BY Zenon
    <3>1. i <= n => i \in 1..n
      BY <1>1
    <3>. QED
      BY <3>1, UnfinishedIs, Zenon DEF Slot, n
  <2>4. /\ grown[n + 1] = c /\ \A i \in 1..n : grown[i] = Unfinished[i]
    BY <1>1, <2>2
  <2>. HIDE DEF grown, slots
  <2>5. grown \in Seq(Slot) /\ Len(grown) = slots
    BY <1>1, <2>3
  <2>6. heap' \in Seq(Seq(Slot)) /\ Len(heap') = Len(heap) + 1 /\ heap'[arr'] = grown
    BY <2>1, <2>5, CompactedIs DEF SliceTyped
  <2>7. SliceTyped'
    <3>1. arr' \in 1..Len(heap') /\ Slots(arr)' = slots
      BY <2>1, <2>5, <2>6 DEF Slots, SliceTyped
    <3>2. len' \in 0..slots
      BY <1>1, <2>2 DEF n
    <3>. QED
      BY <2>6, <3>1, <3>2 DEF SliceTyped
  <2>8. ASSUME NEW r, ~finished[r], NEW i \in 1..len, heap[arr][i] = r
        PROVE  \E k \in 1..len' : heap'[arr'][k] = r
    <3>1. i \in Kept
      BY <2>8, ZenonT(60) DEF Kept
    <3>2. PICK k \in 1..n : Unfinished[k] = r
      BY <2>8, <3>1, UnfinishedIs, ZenonT(60) DEF n
    <3>3. k \in 1..len'
      BY <1>1, <3>2 DEF n
    <3>. QED
      BY <2>4, <2>6, <3>2, <3>3, ZenonT(60)
  <2>. QED
    BY <1>1, <2>4, <2>6, <2>7, <2>8, ZenonT(60)
<1>. QED
  BY <1>2, <1>3, ZenonT(60)

\* A step that lets no readonly transaction in, and compacts the slice or leaves it alone.
LEMMA CompactTracks ==
    ASSUME SliceTyped, ReadersTracked, finished' = finished,
           \A r \in Readers : admitted'[r] => admitted[r],
           \/ UNCHANGED sliceVars
           \/ heap' = CompactedHeap /\ arr' = arr /\ len' = Cardinality(Kept)
    PROVE  SliceTyped' /\ ReadersTracked'
<1>1. CASE UNCHANGED sliceVars
  BY <1>1, Zenon DEF sliceVars, SliceTyped, Slots, ReadersTracked, Inside
<1>2. CASE heap' = CompactedHeap /\ arr' = arr /\ len' = Cardinality(Kept)
  BY <1>2, CompactKeeps, Zenon DEF ReadersTracked, Inside
<1>. QED
  BY <1>1, <1>2, Zenon

LEMMA StepTracks ==
    ASSUME IInv, SliceTyped, ReadersTracked, NEW c \in Ctxs, Step(c)
    PROVE  SliceTyped' /\ ReadersTracked'
<1>0. /\ Writers \subseteq Ctxs /\ Readers \subseteq Ctxs
      /\ Readers \cap Writers = {} /\ None \notin Ctxs
  BY CtxsAssumption, Zenon
<1>1. ASSUME NEW res \in {"tx", "nil", "timeout", "err"}, Return(c, res),
             res = "tx" => c \in Writers
      PROVE  \A r \in Readers : admitted'[r] => admitted[r]
  BY <1>0, <1>1, ReturnTyped, ZenonT(60) DEF IInv
<1>2. CASE EnterTooDeep(c) \/ EnterDone(c) \/ ReadersTimeout(c) \/ WaitCancelled(c)
  <2>1. /\ finished' = finished /\ UNCHANGED sliceVars
        /\ \E res \in {"timeout", "err"} : Return(c, res)
    BY <1>2, Zenon DEF EnterTooDeep, EnterDone, ReadersTimeout, WaitCancelled, txVars
  <2>. QED
    BY <1>1, <2>1, CompactTracks, Zenon
<1>3. CASE NextReader(c) \/ WriterFinished(c)
  <2>1. finished' = finished /\ UNCHANGED sliceVars /\ UNCHANGED admitted
    BY <1>3, Zenon DEF NextReader, WriterFinished, txVars
  <2>. QED
    BY <2>1, CompactTracks, Zenon
<1>4. CASE ReadersFinished(c)
  <2>1. finished' = finished /\ UNCHANGED sliceVars /\ Return(c, "tx") /\ pc[c] = "waitReaders"
    BY <1>4, Zenon DEF ReadersFinished, txVars
  <2>2. c \in Writers
    BY <2>1, Zenon DEF IInv, Tracked
  <2>. QED
    BY <1>1, <2>1, <2>2, CompactTracks, ZenonT(60)
<1>5. CASE EnterWithoutTx(c)
  <2>1. /\ finished' = finished /\ Return(c, "nil")
        /\ heap' = CompactedHeap /\ arr' = arr /\ len' = Cardinality(Kept)
    BY <1>5, Zenon DEF EnterWithoutTx, Enter, txVars
  <2>. QED
    BY <1>1, <2>1, CompactTracks, Zenon
<1>6. CASE EnterReadonly(c)
  <2>1. finished' = finished /\ Return(c, "tx") /\ c \in Readers
    BY <1>6, Zenon DEF EnterReadonly, Enter, txVars
  <2>2. \A r \in Readers : admitted'[r] => r = c \/ admitted[r]
    BY <1>0, <2>1, ReturnTyped, Zenon DEF IInv
  <2>3. CASE \E i \in Kept : heap[arr][i] = c
    <3>1. heap' = CompactedHeap /\ arr' = arr /\ len' = Cardinality(Kept)
      BY <1>6, <2>3, Zenon DEF EnterReadonly
    <3>2. ~finished[c] /\ \E i \in 1..len : heap[arr][i] = c
      BY <2>3, Zenon DEF Kept
    <3>3. /\ SliceTyped'
          /\ \A r : ~finished[r] /\ (\E i \in 1..len : heap[arr][i] = r)
                        => \E i \in 1..len' : heap'[arr'][i] = r
      BY <3>1, CompactKeeps, Zenon
    <3>4. \A r \in Readers : admitted'[r] /\ ~finished[r] => \E i \in 1..len : heap[arr][i] = r
      BY <2>2, <3>2, Zenon DEF ReadersTracked, Inside
    <3>. QED
      BY <2>1, <3>3, <3>4, ZenonT(60) DEF ReadersTracked, Inside
  <2>4. CASE ~\E i \in Kept : heap[arr][i] = c
    <3>1. heap' = Appended(c).heap /\ arr' = Appended(c).arr /\ len' = Cardinality(Kept) + 1
      BY <1>6, <2>4, Zenon DEF EnterReadonly
    <3>. QED
      BY <2>1, <2>2, <3>1, AppendKeeps, ZenonT(60) DEF ReadersTracked, Inside
  <2>. QED
    BY <2>3, <2>4, Zenon
<1>7. CASE EnterWrite(c)
  <2>1. /\ finished' = finished /\ Return(c, "tx") /\ c \in Writers
        /\ heap' = CompactedHeap /\ arr' = arr /\ len' = 0 /\ Kept = {}
    BY <1>7, Zenon DEF EnterWrite, Enter, txVars
  <2>2. len' = Cardinality(Kept)
    BY <2>1, FS_EmptySet, Zenon
  <2>. QED
    BY <1>1, <2>1, <2>2, CompactTracks, ZenonT(60)
<1>8. CASE EnterWriteWait(c) \/ EnterWaitWriter(c)
  <2>1. /\ finished' = finished /\ UNCHANGED admitted
        /\ heap' = CompactedHeap /\ arr' = arr /\ len' = Cardinality(Kept)
    BY <1>8, Zenon DEF EnterWriteWait, EnterWaitWriter, Enter, txVars
  <2>. QED
    BY <2>1, CompactTracks, Zenon
<1>9. CASE EnterAgain(c)
  <2>1. /\ finished' = finished /\ Return(c, "tx") /\ WriteTx = c
        /\ heap' = CompactedHeap /\ arr' = arr /\ len' = Cardinality(Kept)
    BY <1>9, Zenon DEF EnterAgain, Enter, txVars
  <2>2. c \in Writers
    BY <1>0, <2>1, WriteTxTracked, Zenon
  <2>. QED
    BY <1>1, <2>1, <2>2, CompactTracks, ZenonT(60)
<1>. QED
  BY <1>2, <1>3, <1>4, <1>5, <1>6, <1>7, <1>8, <1>9, ZenonT(60) DEF Step

\* Every unfinished readonly transaction that was let through is in the slice readonlyTxs, so
\* that the next write transaction waits for it, however the slice was compacted and
\* reallocated (removeFinishedTxs, waitForReadWriteTxToTerminate).
THEOREM ReadersStayTracked == Spec => []ReadersTracked
<1>. DEFINE J == IInv /\ SliceTyped /\ ReadersTracked
<1>1. ASSUME Init PROVE J
  <2>1. IInv
    BY <1>1, Inductive, Zenon
  <2>2. heap = <<>> /\ arr = 0 /\ len = 0 /\ admitted = [d \in Ctxs |-> FALSE]
    BY <1>1, Zenon DEF Init
  <2>3. SliceTyped
    BY <2>2 DEF SliceTyped, Slots
  <2>4. ReadersTracked
    BY <2>2, CtxsAssumption, Zenon DEF ReadersTracked, Inside
  <2>. QED
    BY <2>1, <2>3, <2>4, Zenon
<1>2. ASSUME J, [Next]_vars PROVE J'
  <2>1. IInv'
    BY <1>2, Inductive, Zenon
  <2>2. ASSUME NEW c \in Ctxs, Step(c) PROVE SliceTyped' /\ ReadersTracked'
    BY <1>2, <2>2, StepTracks, Zenon
  <2>3. CASE (\E c \in Ctxs : TxDetach(c) \/ CtxCancel(c)) \/ TimerFires \/ UNCHANGED vars
    <3>1. finished' = finished /\ admitted' = admitted /\ UNCHANGED sliceVars
      BY <2>3, Zenon DEF TxDetach, CtxCancel, TimerFires, vars, txVars
    <3>. QED
      BY <1>2, <2>1, <3>1, CompactTracks, Zenon
  <2>4. ASSUME NEW c \in Ctxs, TxFinish(c) PROVE SliceTyped' /\ ReadersTracked'
    <3>1. finished' = [finished EXCEPT ![c] = TRUE] /\ UNCHANGED <<admitted, heap, arr, len>>
      BY <2>4, Zenon DEF TxFinish, sliceVars
    <3>2. \A r \in Readers : ~finished'[r] => ~finished[r]
      BY <1>2, <3>1, CtxsAssumption, ZenonT(60) DEF IInv, Types
    <3>. QED
      BY <1>2, <3>1, <3>2, ZenonT(60) DEF SliceTyped, Slots, ReadersTracked, Inside
  <2>. QED
    BY <1>2, <2>1, <2>2, <2>3, <2>4, ZenonT(60) DEF Next
<1>3. Init => J
  BY <1>1, Zenon
<1>4. J /\ [Next]_vars => J'
  BY <1>2, Zenon
<1>5. J => ReadersTracked
  BY Zenon
<1>. HIDE DEF J
<1>. QED
  BY <1>3, <1>4, <1>5, PTL DEF Spec
=============================================================================
