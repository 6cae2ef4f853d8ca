------------------------------- MODULE LThread -------------------------------
(***************************************************************************)
(* Lightweight threads (internal/core/lthread.go) on the contexts of       *)
(* Context: a thread runs in a goroutine with a child context of its own,  *)
(* yields, is resumed, is cancelled by other goroutines through its        *)
(* context, and delivers its result to those that wait for it.  A thread   *)
(* is identified with its context.  The token a spawner takes for a thread *)
(* is modelled in TokenBucket.                                             *)
(***************************************************************************)
EXTENDS Context

CONSTANTS
    Threads,    \* the contexts that belong to threads
    Users,      \* goroutines that cancel contexts and resume threads
    Targets,    \* the contexts they cancel, and register tasks on
    Waiters,    \* contexts of the states that wait for results
    MaxYields   \* bound: yields of a thread

ASSUME ThreadsAssumption ==
    /\ Threads \subseteq Ctxs \ {Root}
    /\ Waiters \subseteq Ctxs \ Threads
    /\ Targets \subseteq Ctxs
    /\ Cancellers = Threads \cup Users

VARIABLES
    spawnArgs,   \* Threads: [StartPaused, PauseAfterYield]
    thread,      \* Threads: where the goroutine of the thread is
    isPaused,    \* lthread.paused
    isDone,      \* lthread.done
    cont,        \* continueExecChan: "empty", "full" or "closed"
    waitResult,  \* wait_result: "empty", "full" or "closed"
    yields,      \* Threads: number of executed steps
    resumer,     \* Users: the thread in a call of ResumeAsync, or None
    waiter,      \* Waiters: [pc, thread] of the call of WaitResult
    panics       \* history: operations on a closed channel

threadVars ==
    <<spawnArgs, thread, isPaused, isDone, cont, waitResult, yields, resumer, waiter, panics>>
vars == <<ctxVars, threadVars>>
others == <<resumer, waiter, panics, spawnArgs>>

None == "none"

Init ==
    /\ ContextInit
    /\ spawnArgs \in [Threads -> [StartPaused : BOOLEAN, PauseAfterYield : BOOLEAN]]
    /\ thread = [t \in Threads |-> IF spawnArgs[t].StartPaused THEN "start" ELSE "run"]
    /\ isPaused = [t \in Threads |-> spawnArgs[t].StartPaused]
    /\ isDone = [t \in Threads |-> FALSE]
    /\ cont = [t \in Threads |-> "empty"]
    /\ waitResult = [t \in Threads |-> "empty"]
    /\ yields = [t \in Threads |-> 0]
    /\ resumer = [u \in Users |-> None]
    /\ waiter = [w \in Waiters |-> [pc |-> "idle", thread |-> None]]
    /\ panics = {}

Step(t, from, to) == thread[t] = from /\ thread' = [thread EXCEPT ![t] = to]

-----------------------------------------------------------------------------
\* The goroutine of a thread.  A thread spawned paused waits to be resumed ...
Start(t) ==
    /\ Step(t, "start", "run")
    /\ cont[t] = "full"
    /\ cont' = [cont EXCEPT ![t] = "empty"]
    /\ UNCHANGED <<ctxVars, isPaused, isDone, waitResult, yields, others>>


\* ... or cancelled; then the deferred calls that stop the depletion and cancel the context are
\* not there yet.
StartCancelled(t) ==
    /\ Step(t, "start", "finish")
    /\ goDone[t]
    /\ UNCHANGED <<ctxVars, isPaused, isDone, cont, waitResult, yields, others>>

\* IO or sleep of the module
BeginIO(t) ==
    /\ Step(t, "run", "io")
    /\ Pause(t)
    /\ UNCHANGED <<isPaused, isDone, cont, waitResult, yields, others>>

EndIO(t) ==
    /\ Step(t, "io", "return")
    /\ Resume(t)
    /\ UNCHANGED <<isPaused, isDone, cont, waitResult, yields, others>>

ReturnFromIO(t) ==
    /\ Step(t, "return", "run")
    /\ io[t] = "out"
    /\ UNCHANGED <<ctxVars, isPaused, isDone, cont, waitResult, yields, others>>

\* yield: the step is recorded; the thread goes on, pauses, or panics if it is marked as paused.
yield(t) ==
    /\ yields[t] < MaxYields
    /\ yields' = [yields EXCEPT ![t] = @ + 1]
    /\ \/ ~spawnArgs[t].PauseAfterYield /\ Step(t, "run", "run") /\ UNCHANGED isPaused
       \/ /\ spawnArgs[t].PauseAfterYield /\ ~isPaused[t]
          /\ Step(t, "run", "yield")
          /\ isPaused' = [isPaused EXCEPT ![t] = TRUE]
       \/ /\ spawnArgs[t].PauseAfterYield /\ isPaused[t]
          /\ Step(t, "run", "stop")
          /\ UNCHANGED isPaused
    /\ UNCHANGED <<ctxVars, isDone, cont, waitResult, others>>

Block(t) ==
    /\ Step(t, "yield", "blocked")
    /\ Pause(t)
    /\ UNCHANGED <<isPaused, isDone, cont, waitResult, yields, others>>

\* Only a resumption ends the pause, a cancellation does not.
Continue(t) ==
    /\ Step(t, "blocked", "leave")
    /\ cont[t] = "full"
    /\ cont' = [cont EXCEPT ![t] = "empty"]
    /\ Resume(t)
    /\ UNCHANGED <<isPaused, isDone, waitResult, yields, others>>

LeaveYield(t) ==
    /\ Step(t, "leave", "run")
    /\ io[t] = "out"
    /\ isPaused' = [isPaused EXCEPT ![t] = FALSE]
    /\ UNCHANGED <<ctxVars, isDone, cont, waitResult, yields, others>>

\* The evaluation of the module returns, fails ...
EndEval(t) ==
    /\ Step(t, "run", "stop")
    /\ UNCHANGED <<ctxVars, isPaused, isDone, cont, waitResult, yields, others>>

\* ... or finds, between two statements or instructions, that the context is done.
InterruptEval(t) == goDone[t] /\ EndEval(t)

\* The deferred DefinitelyStopCPUTimeDepletion, in two operations ...
StopDepletion(t) ==
    /\ Step(t, "stop", "stopping")
    /\ Stop(t, "thread")
    /\ UNCHANGED <<lifeVars, taskVars, call, count, paused, io, leaked,
                   isPaused, isDone, cont, waitResult, yields, others>>

FinishStopDepletion(t) ==
    /\ Step(t, "stopping", "cancel")
    /\ FinishStop(t, "thread")
    /\ UNCHANGED <<lifeVars, taskVars, call, paused, stopped, io,
                   isPaused, isDone, cont, waitResult, yields, others>>

\* ... and the deferred CancelGracefully.
CancelOwn(t) ==
    /\ IF done[t] THEN Step(t, "cancel", "finish") /\ UNCHANGED ctxVars
                  ELSE Step(t, "cancel", "cancelling") /\ CancelGracefully(t, t)
    /\ UNCHANGED <<isPaused, isDone, cont, waitResult, yields, others>>

OwnCancelled(t) ==
    /\ Step(t, "cancelling", "finish")
    /\ At(t, "idle")
    /\ UNCHANGED <<ctxVars, isPaused, isDone, cont, waitResult, yields, others>>

\* Mutant: the thread stays marked as paused when it ends.
FinishPaused(t) ==
    /\ Step(t, "finish", "end")
    /\ cont' = [cont EXCEPT ![t] = "closed"]
    /\ isDone' = [isDone EXCEPT ![t] = TRUE]
    /\ waitResult' = [waitResult EXCEPT ![t] = "full"]
    /\ UNCHANGED <<ctxVars, isPaused, yields, others>>


\* The last deferred function, under lthread.lock
Finish(t) ==
    /\ Step(t, "finish", "end")
    /\ cont' = [cont EXCEPT ![t] = "closed"]
    /\ isDone' = [isDone EXCEPT ![t] = TRUE]
    /\ isPaused' = [isPaused EXCEPT ![t] = FALSE]
    /\ waitResult' = [waitResult EXCEPT ![t] = "full"]
    /\ UNCHANGED <<ctxVars, yields, others>>

-----------------------------------------------------------------------------
\* ResumeAsync: lthread.done is read before the lock is taken ...
ResumeAsync(u, t) ==
    /\ resumer[u] = None
    /\ ~isDone[t]
    /\ resumer' = [resumer EXCEPT ![u] = t]
    /\ UNCHANGED <<ctxVars, thread, isPaused, isDone, cont, waitResult, yields, waiter, panics, spawnArgs>>

\* ... and the rest is done under the lock, with a send that does not block.
FinishResumeAsync(u) ==
    LET t == resumer[u] IN
    /\ t # None
    /\ resumer' = [resumer EXCEPT ![u] = None]
    /\ cont' = IF isPaused[t] /\ cont[t] = "empty" THEN [cont EXCEPT ![t] = "full"] ELSE cont
    /\ panics' = IF isPaused[t] /\ cont[t] = "closed" THEN panics \cup {"send"} ELSE panics
    /\ UNCHANGED <<ctxVars, thread, isPaused, isDone, waitResult, yields, waiter, spawnArgs>>

\* WaitResult by the state of w
WaitResult(w, t) ==
    /\ waiter[w].pc = "idle"
    /\ IF isDone[t] THEN /\ waiter' = [waiter EXCEPT ![w] = [pc |-> "got", thread |-> t]]
                         /\ UNCHANGED ctxVars
                    ELSE /\ waiter' = [waiter EXCEPT ![w] = [pc |-> "wait", thread |-> t]]
                         /\ Pause(w)
    /\ UNCHANGED <<thread, isPaused, isDone, cont, waitResult, yields, resumer, panics, spawnArgs>>

ReceiveResult(w) ==
    LET t == waiter[w].thread IN
    /\ waiter[w].pc = "wait"
    /\ waitResult[t] # "empty"
    /\ waitResult' = [waitResult EXCEPT ![t] = IF @ = "full" THEN "empty" ELSE @]
    /\ Resume(w)
    /\ waiter' = [waiter EXCEPT ![w].pc = "close"]
    /\ UNCHANGED <<thread, isPaused, isDone, cont, yields, resumer, panics, spawnArgs>>

CloseResult(w) ==
    LET t == waiter[w].thread IN
    /\ waiter[w].pc = "close"
    /\ io[w] = "out"
    /\ waitResult' = [waitResult EXCEPT ![t] = "closed"]
    /\ panics' = IF waitResult[t] = "closed" THEN panics \cup {"close"} ELSE panics
    /\ waiter' = [waiter EXCEPT ![w].pc = "got"]
    /\ UNCHANGED <<ctxVars, thread, isPaused, isDone, cont, yields, resumer, spawnArgs>>

-----------------------------------------------------------------------------
\* The steps of a thread that nothing outside it can delay
ThreadStep(t) ==
    \/ StartCancelled(t) \/ Start(t) \/ ReturnFromIO(t) \/ Block(t) \/ LeaveYield(t) \/ EndIO(t)
    \/ InterruptEval(t) \/ StopDepletion(t) \/ FinishStopDepletion(t) \/ CancelOwn(t)
    \/ OwnCancelled(t) \/ Continue(t) \/ Finish(t)

ContextStep ==
    /\ \/ \E c \in Ctxs : TearDown(c) \/ IOStep(c)
       \/ \E k \in Cancellers : Cancelling(k)
       \/ Environment(Users, Targets)
    /\ UNCHANGED threadVars

ThreadNext ==
    \/ ContextStep
    \/ \E t \in Threads : ThreadStep(t) \/ BeginIO(t) \/ yield(t) \/ EndEval(t)
    \/ \E u \in Users : FinishResumeAsync(u) \/ \E t \in Threads : ResumeAsync(u, t)
    \/ \E w \in Waiters : \/ ReceiveResult(w) \/ CloseResult(w)
                          \/ \E t \in Threads : WaitResult(w, t)

ThreadSpec == Init /\ [][ThreadNext]_vars

\* Every goroutine that can go on does; new calls, registrations and yields are never forced.
\* The evaluation looks at the Go context before every statement or instruction, so between two
\* IO operations: hence strong fairness.
FairThreadSpec ==
    /\ ThreadSpec
    /\ \A c \in Ctxs : /\ WF_vars(TearDown(c) /\ UNCHANGED threadVars)
                       /\ WF_vars(IOStep(c) /\ UNCHANGED threadVars)
    /\ \A k \in Cancellers : WF_vars(Cancelling(k) /\ UNCHANGED threadVars)
    /\ \A t \in Threads : WF_vars(ThreadStep(t)) /\ SF_vars(InterruptEval(t))
    /\ \A u \in Users : WF_vars(FinishResumeAsync(u))
    /\ \A w \in Waiters : WF_vars(ReceiveResult(w) \/ CloseResult(w))

-----------------------------------------------------------------------------
\* ResumeAsync never sends on the channel that the end of the thread closes, although it has
\* looked at lthread.done before it takes the lock.
NoSendOnClosed == "send" \notin panics

\* wait_result is closed once.
ResultClosedOnce == "close" \notin panics



\* lthread.go: "Cancel stops the execution of the lthread."
CancelStops == \A t \in Threads : goDone[t] ~> isDone[t]
==============================================================================
