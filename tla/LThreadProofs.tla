---------------------------- MODULE LThreadProofs ----------------------------
(***************************************************************************)
(* For every set of contexts, threads and goroutines, and every number of  *)
(* tasks and yields: the teardowns of ContextProofs stay complete when     *)
(* threads end their contexts, the CPU-time bucket depletes for the right  *)
(* number of states, and no resumption sends on a closed channel.          *)
(*                                                                         *)
(* The three arguments use disjoint parts of the state.                    *)
(***************************************************************************)
EXTENDS LThread, ContextProofs, FiniteSetTheorems

-----------------------------------------------------------------------------
(* Teardowns: the threads take the steps of contexts, or leave that part   *)
(* of the state as it is.                                                  *)

\* A step of the threads is one of the contexts, or leaves them alone.
LEMMA ThreadTears ==
    ASSUME ThreadNext \/ UNCHANGED vars
    PROVE  Next \/ UNCHANGED tearVars
<1>. USE DEF tearVars, lifeVars, taskVars, ctxVars
<1>1. CASE ContextStep
  <2>1. ASSUME NEW c \in Ctxs, IOStep(c) PROVE UNCHANGED tearVars
    BY <2>1, ZenonT(60) DEF IOStep, Paused, Resumed
  <2>2. ASSUME Environment(Users, Targets) PROVE Environment(Cancellers, Ctxs)
    BY <2>2, ThreadsAssumption, ZenonT(60) DEF Environment
  <2>. QED
    BY <1>1, <2>1, <2>2, ZenonT(60) DEF ContextStep, Next
<1>2. ASSUME NEW t \in Threads, CancelOwn(t) PROVE Next \/ UNCHANGED tearVars
  <2>1. t \in Ctxs /\ t \in Cancellers
    BY ThreadsAssumption, ZenonT(60)
  <2>. QED
    BY <1>2, <2>1, ZenonT(60) DEF CancelOwn, Next, Environment
<1>3. ASSUME NEW t \in Threads,
             \/ StartCancelled(t) \/ Start(t) \/ ReturnFromIO(t) \/ LeaveYield(t) \/ InterruptEval(t)
             \/ OwnCancelled(t) \/ Finish(t) \/ yield(t) \/ EndEval(t)
      PROVE  UNCHANGED tearVars
  BY <1>3, ZenonT(60)
   DEF StartCancelled, Start, ReturnFromIO, LeaveYield, InterruptEval, OwnCancelled, Finish,
              yield, EndEval
<1>4. ASSUME NEW t \in Threads,
             \/ Block(t) \/ EndIO(t) \/ StopDepletion(t) \/ FinishStopDepletion(t) \/ Continue(t)
             \/ BeginIO(t)
      PROVE  UNCHANGED tearVars
  BY <1>4, ZenonT(60)
   DEF Block, EndIO, StopDepletion, FinishStopDepletion, Continue, BeginIO, Pause, Resume
<1>5. ASSUME NEW u \in Users, FinishResumeAsync(u) \/ \E t \in Threads : ResumeAsync(u, t)
      PROVE  UNCHANGED tearVars
  BY <1>5, Zenon DEF FinishResumeAsync, ResumeAsync
<1>6. ASSUME NEW w \in Waiters,
             ReceiveResult(w) \/ CloseResult(w) \/ \E t \in Threads : WaitResult(w, t)
      PROVE  UNCHANGED tearVars
  BY <1>6, Zenon DEF ReceiveResult, CloseResult, WaitResult, Pause, Resume
<1>7. CASE UNCHANGED vars
  BY <1>7, Zenon DEF vars
<1>. QED
  BY <1>1, <1>2, <1>3, <1>4, <1>5, <1>6, <1>7, ZenonT(60) DEF ThreadNext, ThreadStep

\* The same with threads, each of which ends its context when it ends.
THEOREM ThreadsTearDown == ThreadSpec => []TearDownComplete
<1>1. ThreadSpec => []TearInv
  <2>1. Init => TearInv
    BY TearInit, Zenon DEF Init
  <2>2. TearInv /\ [ThreadNext]_vars => TearInv'
    BY TearNext, ThreadTears, Zenon
  <2>. QED
    BY <2>1, <2>2, PTL DEF ThreadSpec
<1>. QED
  BY <1>1, TearComplete, PTL

-----------------------------------------------------------------------------
(* Depletion.                                                              *)

DepletionTyped ==
    /\ count \in Int
    /\ paused \in [Ctxs -> BOOLEAN]
    /\ stopped \in [Ctxs -> BOOLEAN]
    /\ leaked \in [Ctxs -> BOOLEAN]
    /\ stopping \in [Ctxs -> {"nobody", "thread", "teardown"}]
    /\ io \in [Ctxs -> {"out", "pausing", "in", "resuming"}]

\* The contexts whose state is not in a pause, as the count has it,
Counted == {c \in Ctxs : io[c] \in {"out", "resuming"}}

\* and those whose depletion was stopped while the flag said that it was not paused.
Ended == {c \in Ctxs \ {Root} : stopped[c] /\ stopping[c] = "nobody" /\ ~leaked[c]}

\* The count is the difference, whatever is going on.
CountIs == count = Cardinality(Counted) - Cardinality(Ended)

\* Who sets the flag of a limiter that has a parent goes on to end its depletion.
StopsAnnounced ==
    stopping[Root] = "nobody" /\ \A c \in Ctxs : stopping[c] # "nobody" => stopped[c]

DepletionInv == DepletionTyped /\ CountIs /\ StopsAnnounced

\* The sets are finite.
LEMMA CountedFinite ==
    /\ IsFiniteSet(Counted) /\ IsFiniteSet(Ended)
    /\ Cardinality(Counted) \in Nat /\ Cardinality(Ended) \in Nat
BY CtxsAssumption, FS_Subset, FS_CardinalityType, ZenonT(60) DEF Counted, Ended

\* The count moves with the place in DoIO, before the flag does or without it.
LEMMA DepletionIO ==
    ASSUME DepletionInv, NEW c \in Ctxs, Pause(c) \/ Paused(c) \/ Resume(c) \/ Resumed(c)
    PROVE  DepletionInv'
<1>. USE DEF DepletionInv
<1>0. UNCHANGED <<stopped, stopping, leaked>> /\ count' \in Int
  BY DEF Pause, Paused, Resume, Resumed, DepletionTyped
<1>1. DepletionTyped' /\ StopsAnnounced'
  <2>1. CASE Pause(c)
    BY <1>0, <2>1, ZenonT(60) DEF Pause, DepletionTyped, StopsAnnounced
  <2>2. CASE Paused(c)
    BY <1>0, <2>2, ZenonT(60) DEF Paused, DepletionTyped, StopsAnnounced
  <2>3. CASE Resume(c)
    BY <1>0, <2>3, ZenonT(60) DEF Resume, DepletionTyped, StopsAnnounced
  <2>4. CASE Resumed(c)
    BY <1>0, <2>4, ZenonT(60) DEF Resumed, DepletionTyped, StopsAnnounced
  <2>. QED
    BY <2>1, <2>2, <2>3, <2>4, ZenonT(60)
<1>. USE DEF DepletionTyped
<1>2. Ended' = Ended
  BY <1>0, Zenon DEF Ended
<1>3. CASE Pause(c)
  <2>1. c \in Counted /\ Counted' = Counted \ {c}
    BY <1>3, Zenon DEF Pause, Counted
  <2>2. Cardinality(Counted') = Cardinality(Counted) - 1
    BY <2>1, CountedFinite, FS_RemoveElement, ZenonT(60)
  <2>. QED
    BY <1>1, <1>2, <1>3, <2>2, CountedFinite, SMTT(30) DEF Pause, CountIs
<1>4. CASE Resume(c)
  <2>1. c \notin Counted /\ Counted' = Counted \cup {c}
    BY <1>4, Zenon DEF Resume, Counted
  <2>2. Cardinality(Counted') = Cardinality(Counted) + 1
    BY <2>1, CountedFinite, FS_AddElement, ZenonT(60)
  <2>. QED
    BY <1>1, <1>2, <1>4, <2>2, CountedFinite, SMTT(30) DEF Resume, CountIs
<1>5. CASE Paused(c) \/ Resumed(c)
  <2>1. Counted' = Counted /\ count' = count
    BY <1>5, ZenonT(60) DEF Paused, Resumed, Counted
  <2>. QED
    BY <1>1, <1>2, <2>1, ZenonT(60) DEF CountIs
<1>. QED
  BY <1>3, <1>4, <1>5, ZenonT(60)

\* The call that sets the flag of a limiter has not ended its depletion, the others change nothing.
LEMMA DepletionStop ==
    ASSUME DepletionInv, NEW c \in Ctxs, (c # Root /\ Stop(c, "thread")) \/ Destroy(c),
           UNCHANGED <<count, paused, io, leaked>>
    PROVE  DepletionInv'
<1>. USE DEF DepletionInv, DepletionTyped
<1>1. DepletionTyped' /\ StopsAnnounced'
  <2>1. CASE c = Root
    BY <2>1, ZenonT(60) DEF Destroy, StopsAnnounced
  <2>2. CASE c # Root /\ Stop(c, "thread")
    BY <2>2, RootAssumption, Zenon DEF Stop, StopsAnnounced
  <2>3. CASE c # Root /\ Stop(c, "teardown")
    BY <2>3, RootAssumption, ZenonT(60) DEF Stop, StopsAnnounced
  <2>. QED
    BY <2>1, <2>2, <2>3, ZenonT(60) DEF Destroy
<1>2. Counted' = Counted
  BY Zenon DEF Counted
<1>3. Ended' = Ended
  BY ZenonT(60) DEF Ended, Stop, Destroy
<1>. QED
  BY <1>1, <1>2, <1>3, ZenonT(60) DEF CountIs

\* The same call ends the depletion, and by one, unless the flag says that it is paused.
LEMMA DepletionFinish ==
    ASSUME DepletionInv, NEW c \in Ctxs, NEW who \in {"thread", "teardown"}, FinishStop(c, who),
           UNCHANGED <<paused, stopped, io>>
    PROVE  DepletionInv'
<1>. USE DEF DepletionInv, DepletionTyped
<1>1. DepletionTyped' /\ StopsAnnounced'
  <2>1. count' \in Int
    BY DEF FinishStop
  <2>2. CASE stopping[c] = who
    BY <2>1, <2>2, RootAssumption, SMTT(30) DEF FinishStop, StopsAnnounced
  <2>3. CASE stopping[c] # who
    BY <2>3, Zenon DEF FinishStop, StopsAnnounced
  <2>. QED
    BY <2>2, <2>3, ZenonT(60)
<1>2. Counted' = Counted
  BY Zenon DEF Counted
<1>3. CASE stopping[c] # who
  BY <1>1, <1>2, <1>3, ZenonT(60) DEF FinishStop, Ended, CountIs
<1>4. CASE stopping[c] = who /\ paused[c]
  <2>1. Ended' = Ended /\ count' = count
    BY <1>4, ZenonT(60) DEF FinishStop, Ended
  <2>. QED
    BY <1>1, <1>2, <2>1, ZenonT(60) DEF CountIs
<1>5. CASE stopping[c] = who /\ ~paused[c]
  <2>1. c \notin Ended /\ Ended' = Ended \cup {c} /\ count' = count - 1
    BY <1>5 DEF FinishStop, Ended, StopsAnnounced
  <2>2. Cardinality(Ended') = Cardinality(Ended) + 1
    BY <2>1, CountedFinite, FS_AddElement, ZenonT(60)
  <2>. QED
    BY <1>1, <1>2, <2>1, <2>2, CountedFinite DEF CountIs
<1>. QED
  BY <1>3, <1>4, <1>5, Zenon

\* Every step keeps it.
LEMMA DepletionNext ==
    ASSUME DepletionInv, ThreadNext \/ UNCHANGED vars
    PROVE  DepletionInv'
<1>. \A t \in Threads : t \in Ctxs /\ t # Root
  BY ThreadsAssumption, Zenon
<1>. Waiters \subseteq Ctxs
  BY ThreadsAssumption, ZenonT(60)
<1>0. ASSUME UNCHANGED depletionVars PROVE DepletionInv'
  BY <1>0, ZenonT(60)
   DEF depletionVars, DepletionInv, DepletionTyped, CountIs, Counted, Ended, StopsAnnounced
<1>1. CASE ContextStep
  <2>1. ASSUME NEW c \in Ctxs, IOStep(c) PROVE DepletionInv'
    BY <2>1, DepletionIO, ZenonT(60) DEF IOStep
  <2>2. ASSUME NEW c \in Ctxs, LockAndDestroy(c) PROVE DepletionInv'
    BY <2>2, DepletionStop, ZenonT(60) DEF LockAndDestroy
  <2>3. ASSUME NEW c \in Ctxs, FinishDestroy(c) PROVE DepletionInv'
    BY <2>3, DepletionFinish, ZenonT(60) DEF FinishDestroy
  <2>4. ASSUME NEW c \in Ctxs,
               \/ NoticeDone(c) \/ ReadStatus(c) \/ InterruptStatus(c) \/ Microtask(c)
               \/ EndTearDown(c) \/ MarkTornDown(c)
        PROVE  UNCHANGED depletionVars
    BY <2>4, ZenonT(60)
     DEF NoticeDone, ReadStatus, InterruptStatus, Microtask, EndTearDown, MarkTornDown
  <2>5. ASSUME NEW k \in Cancellers, Cancelling(k) PROVE UNCHANGED depletionVars
    BY <2>5, ZenonT(60)
     DEF Cancelling, Claim, RangeTasks, Loop, Task, ForgetTasks, StoreStatus, Swap, Cancel,
                Ungraceful
  <2>6. ASSUME Environment(Users, Targets) PROVE UNCHANGED depletionVars
    BY <2>6, ZenonT(60)
     DEF Environment, OnGracefulTearDown, OnDone, CancelGracefully, CancelUngracefully
  <2>. QED
    BY <1>0, <1>1, <2>1, <2>2, <2>3, <2>4, <2>5, <2>6, Zenon DEF ContextStep, TearDown
<1>2. ASSUME NEW t \in Threads, ThreadStep(t) \/ BeginIO(t) \/ yield(t) \/ EndEval(t)
      PROVE  DepletionInv'
  <2>1. CASE Block(t) \/ EndIO(t) \/ Continue(t) \/ BeginIO(t)
    BY <2>1, DepletionIO, ZenonT(60) DEF Block, EndIO, Continue, BeginIO
  <2>2. CASE StopDepletion(t)
    BY <2>2, DepletionStop, ZenonT(60) DEF StopDepletion
  <2>3. CASE FinishStopDepletion(t)
    BY <2>3, DepletionFinish, ZenonT(60) DEF FinishStopDepletion
  <2>4. CASE CancelOwn(t)
    BY <1>0, <2>4, ZenonT(60) DEF CancelOwn, CancelGracefully, ctxVars
  <2>5. CASE \/ StartCancelled(t) \/ Start(t) \/ ReturnFromIO(t) \/ LeaveYield(t) \/ InterruptEval(t)
             \/ OwnCancelled(t) \/ Finish(t) \/ yield(t) \/ EndEval(t)
    BY <1>0, <2>5, ZenonT(60)
     DEF StartCancelled, Start, ReturnFromIO, LeaveYield, InterruptEval, OwnCancelled,
                      Finish, yield, EndEval, ctxVars
  <2>. QED
    BY <1>2, <2>1, <2>2, <2>3, <2>4, <2>5, ZenonT(60) DEF ThreadStep
<1>3. ASSUME NEW u \in Users, FinishResumeAsync(u) \/ \E t \in Threads : ResumeAsync(u, t)
      PROVE  DepletionInv'
  BY <1>0, <1>3, ZenonT(60) DEF FinishResumeAsync, ResumeAsync, ctxVars
<1>4. ASSUME NEW w \in Waiters,
             ReceiveResult(w) \/ CloseResult(w) \/ \E t \in Threads : WaitResult(w, t)
      PROVE  DepletionInv'
  <2>1. Pause(w) \/ Resume(w) \/ UNCHANGED ctxVars
    BY <1>4, ZenonT(60) DEF ReceiveResult, CloseResult, WaitResult
  <2>. QED
    BY <1>0, <2>1, DepletionIO, ZenonT(60) DEF ctxVars
<1>5. CASE UNCHANGED vars
  BY <1>0, <1>5, ZenonT(60) DEF vars, ctxVars
<1>. QED
  BY <1>1, <1>2, <1>3, <1>4, <1>5, ZenonT(60) DEF ThreadNext

\* Whichever of the thread and the teardown goroutine stops a limiter, in whichever order with
\* the two operations of DoIO, the CPU-time bucket is left depleting for the states that still run
\* and for those that were stopped while the flag said they were paused.
THEOREM ThreadsDeplete == ThreadSpec => []DepletionExact
<1>1. Init => DepletionInv
  <2>. SUFFICES ASSUME ContextInit PROVE DepletionInv
    BY Zenon DEF Init
  <2>1. Counted = Ctxs /\ Ended = {}
    BY Zenon DEF ContextInit, Counted, Ended
  <2>2. Cardinality(Ctxs) \in Nat /\ Cardinality({}) = 0
    BY CtxsAssumption, FS_CardinalityType, FS_EmptySet, ZenonT(60)
  <2>3. DepletionTyped /\ StopsAnnounced
    BY <2>2, RootAssumption, SMTT(30) DEF ContextInit, DepletionTyped, StopsAnnounced
  <2>. QED
    BY <2>1, <2>2, <2>3, SMTT(30) DEF DepletionInv, CountIs, ContextInit
<1>2. DepletionInv /\ [ThreadNext]_vars => DepletionInv'
  BY DepletionNext, ZenonT(60)
<1>3. DepletionInv => DepletionExact
  <2>. SUFFICES ASSUME DepletionInv, Quiet, ~stopped[Root]
                PROVE  count = Cardinality({c \in Ctxs : ~stopped[c] \/ leaked[c]})
    BY Zenon DEF DepletionExact
  <2>. DEFINE Left == {c \in Ctxs : ~stopped[c] \/ leaked[c]}
  <2>1. Counted = Ctxs /\ Left = Ctxs \ Ended
    BY ZenonT(60) DEF Quiet, Counted, Ended, DepletionInv, DepletionTyped
  <2>2. Ended \in SUBSET Ctxs /\ Ctxs \cap Ended = Ended
    BY Zenon DEF Ended
  <2>3. Cardinality(Left) = Cardinality(Ctxs) - Cardinality(Ctxs \cap Ended)
    BY <2>1, CtxsAssumption, FS_Difference, ZenonT(60)
  <2>. QED
    BY <2>1, <2>2, <2>3, ZenonT(60) DEF DepletionInv, CountIs
<1>. QED
  BY <1>1, <1>2, <1>3, PTL DEF ThreadSpec

-----------------------------------------------------------------------------
(* Resumption.                                                             *)

Places == {"start", "run", "io", "return", "yield", "blocked", "leave", "stop", "stopping", "cancel",
           "cancelling", "finish", "end"}

ThreadTyped ==
    /\ isPaused \in [Threads -> BOOLEAN]
    /\ cont \in [Threads -> {"empty", "full", "closed"}]
    /\ thread \in [Threads -> Places]
    /\ resumer \in [Users -> Threads \cup {None}]

\* Only a thread that has ended has a closed channel, and it is not marked as paused.
ClosedAtEnd ==
    \A t \in Threads : cont[t] = "closed" => thread[t] = "end" /\ ~isPaused[t]

ResumeInv == ThreadTyped /\ ClosedAtEnd /\ NoSendOnClosed

\* What a thread has of a channel and a mark stays.
LEMMA ResumeStays ==
    ASSUME ResumeInv, UNCHANGED <<isPaused, cont, thread, resumer, panics>>
    PROVE  ResumeInv'
BY Zenon DEF ResumeInv, ThreadTyped, ClosedAtEnd, NoSendOnClosed

\* The steps of a thread keep it: only its end closes the channel, and takes the mark away.
LEMMA ResumeThread ==
    ASSUME ResumeInv, NEW t \in Threads, ThreadStep(t) \/ BeginIO(t) \/ yield(t) \/ EndEval(t)
    PROVE  ResumeInv'
<1>0. UNCHANGED <<resumer, panics>>
  BY Zenon
   DEF ThreadStep, StartCancelled, Start, ReturnFromIO, Block, LeaveYield, EndIO, InterruptEval,
         StopDepletion, FinishStopDepletion, CancelOwn, OwnCancelled, Continue, Finish, BeginIO,
         yield, EndEval, others
<1>1. ASSUME NEW p \in Places, thread' = [thread EXCEPT ![t] = p], thread[t] # "end",
             isPaused' \in [Threads -> BOOLEAN],
             \A x \in Threads \ {t} : isPaused'[x] = isPaused[x],
             cont' = [cont EXCEPT ![t] = "empty"] \/ UNCHANGED cont
      PROVE  ResumeInv'
  BY <1>0, <1>1, ZenonT(60) DEF ResumeInv, ThreadTyped, ClosedAtEnd, NoSendOnClosed
<1>2. isPaused \in [Threads -> BOOLEAN]
  BY Zenon DEF ResumeInv, ThreadTyped
<1>. USE DEF Step, Places
<1>3. CASE Start(t) \/ Continue(t)
  BY <1>1, <1>2, <1>3, ZenonT(60) DEF Start, Continue
<1>4. CASE StartCancelled(t) \/ OwnCancelled(t)
  BY <1>1, <1>2, <1>4, ZenonT(60) DEF StartCancelled, OwnCancelled
<1>5. CASE BeginIO(t) \/ EndIO(t) \/ ReturnFromIO(t)
  BY <1>1, <1>2, <1>5, ZenonT(60) DEF BeginIO, EndIO, ReturnFromIO
<1>6. CASE Block(t) \/ EndEval(t) \/ InterruptEval(t)
  BY <1>1, <1>2, <1>6, ZenonT(60) DEF Block, EndEval, InterruptEval
<1>7. CASE StopDepletion(t) \/ FinishStopDepletion(t)
  BY <1>1, <1>2, <1>7, ZenonT(60) DEF StopDepletion, FinishStopDepletion
<1>8. CASE CancelOwn(t)
  BY <1>1, <1>2, <1>8, ZenonT(60) DEF CancelOwn
<1>9. CASE LeaveYield(t)
  BY <1>1, <1>2, <1>9, ZenonT(60) DEF LeaveYield
<1>10. CASE yield(t)
  BY <1>1, <1>2, <1>10, ZenonT(60) DEF yield
<1>11. CASE Finish(t)
  BY <1>0, <1>11, ZenonT(60) DEF Finish, ResumeInv, ThreadTyped, ClosedAtEnd, NoSendOnClosed
<1>. QED
  BY <1>3, <1>4, <1>5, <1>6, <1>7, <1>8, <1>9, <1>10, <1>11, ZenonT(60) DEF ThreadStep

\* Every step keeps it.
LEMMA ResumeNext ==
    ASSUME ResumeInv, ThreadNext \/ UNCHANGED vars
    PROVE  ResumeInv'
<1>1. CASE ContextStep \/ UNCHANGED vars
  BY <1>1, ResumeStays, ZenonT(60) DEF ContextStep, threadVars, vars
<1>2. ASSUME NEW u \in Users, NEW t \in Threads, ResumeAsync(u, t) PROVE ResumeInv'
  BY <1>2, Zenon DEF ResumeAsync, ResumeInv, ThreadTyped, ClosedAtEnd, NoSendOnClosed
<1>3. ASSUME NEW u \in Users, FinishResumeAsync(u) PROVE ResumeInv'
  <2>1. resumer[u] \in Threads
    BY <1>3, ZenonT(60) DEF FinishResumeAsync, ResumeInv, ThreadTyped
  <2>2. ~(isPaused[resumer[u]] /\ cont[resumer[u]] = "closed")
    BY <2>1, Zenon DEF ResumeInv, ClosedAtEnd
  <2>. QED
    BY <1>3, <2>1, <2>2, ZenonT(60)
     DEF FinishResumeAsync, ResumeInv, ThreadTyped, ClosedAtEnd, NoSendOnClosed
<1>4. ASSUME NEW w \in Waiters,
             ReceiveResult(w) \/ CloseResult(w) \/ \E t \in Threads : WaitResult(w, t)
      PROVE  ResumeInv'
  <2>1. UNCHANGED <<isPaused, cont, thread, resumer>> /\ panics' \subseteq panics \cup {"close"}
    BY <1>4, Zenon DEF ReceiveResult, CloseResult, WaitResult
  <2>. QED
    BY <2>1, Zenon DEF ResumeInv, ThreadTyped, ClosedAtEnd, NoSendOnClosed
<1>. QED
  BY <1>1, <1>2, <1>3, <1>4, ResumeThread, ZenonT(60) DEF ThreadNext

\* ResumeAsync, which has looked at lthread.done before it takes the lock, never sends on the
\* channel that the end of the thread closes.
THEOREM ResumeIsSafe == ThreadSpec => []NoSendOnClosed
<1>1. Init => ResumeInv
  <2>. SUFFICES ASSUME Init PROVE ResumeInv
    BY Zenon
  <2>1. \A t \in Threads : spawnArgs[t].StartPaused \in BOOLEAN
    BY ZenonT(60) DEF Init
  <2>. QED
    BY <2>1, Zenon DEF Init, ResumeInv, ThreadTyped, Places, ClosedAtEnd, NoSendOnClosed
<1>2. ResumeInv /\ [ThreadNext]_vars => ResumeInv'
  BY ResumeNext, ZenonT(60)
<1>3. ResumeInv => NoSendOnClosed
  BY Zenon DEF ResumeInv
<1>. QED
  BY <1>1, <1>2, <1>3, PTL DEF ThreadSpec
==============================================================================
