------------------------------- MODULE Context -------------------------------
(***************************************************************************)
(* The life of Inox contexts (internal/core/context.go): graceful and      *)
(* ungraceful cancellation, the goroutine that tears a context down once   *)
(* its Go context is done, the tasks and microtasks registered on it, and  *)
(* the depletion of the CPU-time limit (internal/core/limit.go), whose     *)
(* bucket a context shares with its children.                              *)
(*                                                                         *)
(* A tree of contexts of depth two: the Go context of a child is cancelled *)
(* with its parent's.  ctx.lock is kept as the goroutine that holds it for *)
(* more than one step; shorter critical sections are one step that needs   *)
(* the lock free.  The transaction that a teardown rolls back is modelled  *)
(* in Transaction.                                                         *)
(***************************************************************************)
EXTENDS Integers, Sequences, FiniteSets, FiniteSetsExt

CONSTANTS
    Ctxs,
    Root,        \* the parent of the other contexts
    Cancellers,  \* goroutines that cancel contexts
    MaxTasks     \* bound: tasks and microtasks registered on all the contexts

ASSUME RootAssumption == Root \in Ctxs
ASSUME CtxsAssumption == IsFiniteSet(Ctxs)

VARIABLES
    goDone,      \* Ctxs: the embedded Go context is cancelled
    done,        \* ctx.done
    status,      \* ctx.gracefulTearDownStatus
    locked,      \* ctx.lock is held by the teardown goroutine
    tornDown,    \* ctx.tearedDown
    tear,        \* Ctxs: where the teardown goroutine is
    tasks,       \* onGracefulTearDownTasks: sequence of numbers
    micros,      \* onDoneMicrotasks: sequence of numbers
    registered,  \* Ctxs: [tasks, micros] registered so far
    call,        \* Cancellers: [pc, ctx, rest, result]
    count,       \* depletingStateCount of the CPU-time bucket
    paused,      \* limiter.pausedDepletion
    stopped,     \* limiter.definitelyStopped
    io,          \* Ctxs: where the goroutine of the state is with DoIO
    stopping,    \* Ctxs: who has set definitelyStopped and not yet looked at pausedDepletion
    due,         \* history, Ctxs: [tasks, micros] registered when their loop began
    ran,         \* history, Ctxs: [tasks, micros] that have run
    failed,      \* history, Ctxs: a task returned an error or panicked
    expired,     \* history, Ctxs: the deadline of the microtasks has passed
    leaked       \* history, Ctxs: the limiter was stopped while its state was paused

lifeVars == <<goDone, done, status, locked, tornDown, tear>>
taskVars == <<tasks, micros, registered, due, ran, failed, expired>>
depletionVars == <<count, paused, stopped, stopping, io, leaked>>
ctxVars == <<lifeVars, taskVars, depletionVars, call>>

Family(c) == IF c = Root THEN Ctxs ELSE {c}

Idle == [pc |-> "idle", ctx |-> Root, rest |-> <<>>, result |-> "TearedDown"]

ContextInit ==
    /\ goDone = [c \in Ctxs |-> FALSE]
    /\ done = [c \in Ctxs |-> FALSE]
    /\ status = [c \in Ctxs |-> "NeverStarted"]
    /\ locked = [c \in Ctxs |-> FALSE]
    /\ tornDown = [c \in Ctxs |-> FALSE]
    /\ tear = [c \in Ctxs |-> "wait"]
    /\ tasks = [c \in Ctxs |-> <<>>]
    /\ micros = [c \in Ctxs |-> <<>>]
    /\ registered = [c \in Ctxs |-> [tasks |-> 0, micros |-> 0]]
    /\ call = [k \in Cancellers |-> Idle]
    /\ count = Cardinality(Ctxs)     \* SetClosestState was called for each context
    /\ paused = [c \in Ctxs |-> FALSE]
    /\ stopped = [c \in Ctxs |-> FALSE]
    /\ io = [c \in Ctxs |-> "out"]
    /\ ran = [c \in Ctxs |-> [tasks |-> {}, micros |-> {}]]
    /\ failed = [c \in Ctxs |-> FALSE]
    /\ due = [c \in Ctxs |-> [tasks |-> {}, micros |-> {}]]
    /\ expired = [c \in Ctxs |-> FALSE]
    /\ stopping = [c \in Ctxs |-> "nobody"]
    /\ leaked = [c \in Ctxs |-> FALSE]

-----------------------------------------------------------------------------
\* Registration of tasks and microtasks.

Registrations == FoldSet(LAMBDA c, n : n + registered[c].tasks + registered[c].micros, 0, Ctxs)

OnGracefulTearDown(c) ==
    /\ ~locked[c]
    /\ Registrations < MaxTasks
    /\ registered' = [registered EXCEPT ![c].tasks = @ + 1]
    /\ tasks' = [tasks EXCEPT ![c] = Append(@, registered[c].tasks + 1)]
    /\ UNCHANGED <<lifeVars, micros, due, ran, failed, expired, depletionVars, call>>

OnDone(c) ==
    /\ ~locked[c]
    /\ Registrations < MaxTasks
    /\ registered' = [registered EXCEPT ![c].micros = @ + 1]
    /\ micros' = [micros EXCEPT ![c] = Append(@, registered[c].micros + 1)]
    /\ UNCHANGED <<lifeVars, tasks, due, ran, failed, expired, depletionVars, call>>

-----------------------------------------------------------------------------
\* Cancellation by a goroutine k.

At(k, pc) == call[k].pc = pc
Go(k, pc) == call' = [call EXCEPT ![k].pc = pc]
Return(k) == call' = [call EXCEPT ![k] = Idle]
Ctx(k) == call[k].ctx

\* CancelGracefully, gracefullyTearDown: ignored if the context is done ...
CancelGracefully(k, c) ==
    /\ At(k, "idle")
    /\ ~done[c]
    /\ call' = [call EXCEPT ![k] = [Idle EXCEPT !.pc = "claim", !.ctx = c]]
    /\ UNCHANGED <<lifeVars, taskVars, depletionVars>>

\* ... or if the teardown was started by another call.
Claim(k) ==
    /\ At(k, "claim")
    /\ IF status[Ctx(k)] = "NeverStarted"
       THEN status' = [status EXCEPT ![Ctx(k)] = "TearingDown"] /\ Go(k, "range")
       ELSE UNCHANGED status /\ Return(k)
    /\ UNCHANGED <<goDone, done, locked, tornDown, tear, taskVars, depletionVars>>

\* The loop ranges over the tasks registered at this point.
RangeTasks(k) ==
    /\ At(k, "range")
    /\ ~locked[Ctx(k)]
    /\ call' = [call EXCEPT ![k].pc = "loop", ![k].rest = tasks[Ctx(k)]]
    /\ due' = [due EXCEPT ![Ctx(k)].tasks = Range(tasks[Ctx(k)])]
    /\ UNCHANGED <<lifeVars, tasks, micros, registered, ran, failed, expired, depletionVars>>

\* Mutant: a task that is left out because of the cancellation counts as run.
LoopForgives(k) ==
    /\ At(k, "loop")
    /\ Go(k, IF call[k].rest = <<>> \/ goDone[Ctx(k)] THEN "forget" ELSE "task")
    /\ UNCHANGED <<lifeVars, taskVars, depletionVars>>

Loop(k) ==
    /\ At(k, "loop")
    /\ call' = [call EXCEPT ![k] =
                  CASE @.rest = <<>> -> [@ EXCEPT !.pc = "forget"]
                    [] @.rest # <<>> /\ goDone[Ctx(k)] ->
                         [@ EXCEPT !.pc = "forget", !.result = "WithCancellation"]
                    [] OTHER -> [@ EXCEPT !.pc = "task"]]
    /\ UNCHANGED <<lifeVars, taskVars, depletionVars>>

\* A task runs, and may return an error or panic.
Task(k, ok) ==
    /\ At(k, "task")
    /\ ran' = [ran EXCEPT ![Ctx(k)].tasks = @ \cup {Head(call[k].rest)}]
    /\ failed' = [failed EXCEPT ![Ctx(k)] = @ \/ ~ok]
    /\ call' = [call EXCEPT ![k].pc = "loop", ![k].rest = Tail(@),
                            ![k].result = IF ok THEN @ ELSE "WithErrors"]
    /\ UNCHANGED <<lifeVars, tasks, micros, registered, due, expired, depletionVars>>

\* The deferred assignment of nil, without the lock.
ForgetTasks(k) ==
    /\ At(k, "forget")
    /\ tasks' = [tasks EXCEPT ![Ctx(k)] = <<>>]
    /\ Go(k, "store")
    /\ UNCHANGED <<lifeVars, micros, registered, due, ran, failed, expired, depletionVars>>

\* The deferred store overwrites the status, whatever the teardown goroutine made of it.
StoreStatus(k) ==
    /\ At(k, "store")
    /\ status' = [status EXCEPT ![Ctx(k)] = call[k].result]
    /\ Go(k, "swap")
    /\ UNCHANGED <<goDone, done, locked, tornDown, tear, taskVars, depletionVars>>

\* done.CompareAndSwap(false, true), in both kinds of cancellation
Swap(k) ==
    /\ At(k, "swap")
    /\ IF done[Ctx(k)] THEN Return(k) ELSE Go(k, "cancel")
    /\ done' = [done EXCEPT ![Ctx(k)] = TRUE]
    /\ UNCHANGED <<goDone, status, locked, tornDown, tear, taskVars, depletionVars>>

\* ctx.cancel()
cancel(c) == [x \in Ctxs |-> goDone[x] \/ x \in Family(c)]

Cancel(k) ==
    /\ At(k, "cancel")
    /\ ~locked[Ctx(k)]
    /\ goDone' = cancel(Ctx(k))
    /\ Return(k)
    /\ UNCHANGED <<done, status, locked, tornDown, tear, taskVars, depletionVars>>

CancelUngracefully(k, c) ==
    /\ At(k, "idle")
    /\ ~done[c]
    /\ done' = [done EXCEPT ![c] = TRUE]
    /\ call' = [call EXCEPT ![k] = [Idle EXCEPT !.pc = "ungraceful", !.ctx = c]]
    /\ UNCHANGED <<goDone, status, locked, tornDown, tear, taskVars, depletionVars>>

Interrupted(c) ==
    IF status[c] = "TearingDown" THEN [status EXCEPT ![c] = "WithCancellation"] ELSE status

Ungraceful(k) ==
    /\ At(k, "ungraceful")
    /\ ~locked[Ctx(k)]
    /\ status' = Interrupted(Ctx(k))
    /\ goDone' = cancel(Ctx(k))
    /\ Return(k)
    /\ UNCHANGED <<done, locked, tornDown, tear, taskVars, depletionVars>>

\* The rest of a cancellation once it is called.
Cancelling(k) ==
    \/ Claim(k) \/ RangeTasks(k) \/ Loop(k) \/ (\E ok \in BOOLEAN : Task(k, ok))
    \/ ForgetTasks(k) \/ StoreStatus(k) \/ Swap(k) \/ Cancel(k) \/ Ungraceful(k)

-----------------------------------------------------------------------------
\* DoIO pauses the depletion for the state of a context: the count, then the flag.
Pause(c) ==
    /\ io[c] = "out"
    /\ count' = count - 1
    /\ io' = [io EXCEPT ![c] = "pausing"]
    /\ UNCHANGED <<lifeVars, taskVars, paused, stopped, stopping, leaked, call>>

Paused(c) ==
    /\ io[c] = "pausing"
    /\ paused' = [paused EXCEPT ![c] = TRUE]
    /\ io' = [io EXCEPT ![c] = "in"]
    /\ UNCHANGED <<lifeVars, taskVars, count, stopped, stopping, leaked, call>>

Resume(c) ==
    /\ io[c] = "in"
    /\ count' = count + 1
    /\ io' = [io EXCEPT ![c] = "resuming"]
    /\ UNCHANGED <<lifeVars, taskVars, paused, stopped, stopping, leaked, call>>

Resumed(c) ==
    /\ io[c] = "resuming"
    /\ paused' = [paused EXCEPT ![c] = FALSE]
    /\ io' = [io EXCEPT ![c] = "out"]
    /\ UNCHANGED <<lifeVars, taskVars, count, stopped, stopping, leaked, call>>

IOStep(c) == Paused(c) \/ Resumed(c)

\* Mutant: the flag is not tested when it is set.
StopAgain(c, who) ==
    /\ stopped' = [stopped EXCEPT ![c] = TRUE]
    /\ stopping' = [stopping EXCEPT ![c] = who]

\* DefinitelyStopDepletion, and the Destroy of a limiter that has a parent: only the call that
\* sets the flag ...
Stop(c, who) ==
    /\ stopped' = [stopped EXCEPT ![c] = TRUE]
    /\ stopping' = IF stopped[c] THEN stopping ELSE [stopping EXCEPT ![c] = who]

\* ... goes on and ends the depletion, if it is not paused.
FinishStop(c, who) ==
    IF stopping[c] = who
    THEN /\ count' = IF paused[c] THEN count ELSE count - 1
         /\ leaked' = [leaked EXCEPT ![c] = paused[c]]
         /\ stopping' = [stopping EXCEPT ![c] = "nobody"]
    ELSE UNCHANGED <<count, leaked, stopping>>

\* The Destroy of a limiter.  Without a parent it destroys the bucket and leaves the count.
Destroy(c) ==
    IF c = Root THEN stopped' = [stopped EXCEPT ![c] = TRUE] /\ UNCHANGED stopping
                ELSE Stop(c, "teardown")

-----------------------------------------------------------------------------
\* The teardown goroutine of a context.

TearGo(c, pc) == tear' = [tear EXCEPT ![c] = pc]

NoticeDone(c) ==
    /\ tear[c] = "wait"
    /\ goDone[c]
    /\ done' = [done EXCEPT ![c] = TRUE]
    /\ TearGo(c, "status")
    /\ UNCHANGED <<goDone, status, locked, tornDown, taskVars, depletionVars, call>>

\* The status is read ...
ReadStatus(c) ==
    /\ tear[c] = "status"
    /\ TearGo(c, IF status[c] = "TearingDown" THEN "interrupt" ELSE "lock")
    /\ UNCHANGED <<goDone, done, status, locked, tornDown, taskVars, depletionVars, call>>

\* ... and written in two operations.
InterruptStatus(c) ==
    /\ tear[c] = "interrupt"
    /\ status' = [status EXCEPT ![c] = "WithCancellation"]
    /\ TearGo(c, "lock")
    /\ UNCHANGED <<goDone, done, locked, tornDown, taskVars, depletionVars, call>>

LockAndDestroy(c) ==
    /\ tear[c] = "lock"
    /\ ~locked[c]
    /\ locked' = [locked EXCEPT ![c] = TRUE]
    /\ due' = [due EXCEPT ![c].micros = Range(micros[c])]
    /\ Destroy(c)
    /\ TearGo(c, "destroy")
    /\ UNCHANGED <<goDone, done, status, tornDown, tasks, micros, registered, ran, failed, expired,
                   count, paused, io, leaked, call>>

FinishDestroy(c) ==
    /\ tear[c] = "destroy"
    /\ FinishStop(c, "teardown")
    /\ TearGo(c, "micros")
    /\ UNCHANGED <<goDone, done, status, locked, tornDown, taskVars, paused, stopped, io, call>>

\* A microtask is called; then the loop ends early if the deadline has passed.
Microtask(c) ==
    /\ tear[c] = "micros"
    /\ micros[c] # <<>>
    /\ ran' = [ran EXCEPT ![c].micros = @ \cup {Head(micros[c])}]
    /\ \/ micros' = [micros EXCEPT ![c] = Tail(@)] /\ UNCHANGED expired
       \/ micros' = [micros EXCEPT ![c] = <<>>] /\ expired' = [expired EXCEPT ![c] = TRUE]
    /\ UNCHANGED <<lifeVars, tasks, registered, due, failed, depletionVars, call>>

\* Mutant: the lock is not released.
EndTearDownLocked(c) ==
    /\ tear[c] = "micros"
    /\ micros[c] = <<>>
    /\ TearGo(c, "last")
    /\ UNCHANGED <<goDone, done, status, locked, tornDown, taskVars, depletionVars, call>>

EndTearDown(c) ==
    /\ tear[c] = "micros"
    /\ micros[c] = <<>>
    /\ locked' = [locked EXCEPT ![c] = FALSE]
    /\ TearGo(c, "last")
    /\ UNCHANGED <<goDone, done, status, tornDown, taskVars, depletionVars, call>>

MarkTornDown(c) ==
    /\ tear[c] = "last"
    /\ tornDown' = [tornDown EXCEPT ![c] = TRUE]
    /\ TearGo(c, "end")
    /\ UNCHANGED <<goDone, done, status, locked, taskVars, depletionVars, call>>

TearDown(c) ==
    \/ NoticeDone(c) \/ ReadStatus(c) \/ InterruptStatus(c) \/ LockAndDestroy(c)
    \/ FinishDestroy(c) \/ Microtask(c) \/ EndTearDown(c) \/ MarkTornDown(c)

-----------------------------------------------------------------------------
\* Registrations, and cancellations by other goroutines, of the contexts cs
Environment(ks, cs) ==
    \E c \in cs : \/ OnGracefulTearDown(c) \/ OnDone(c)
                  \/ \E k \in ks : CancelGracefully(k, c) \/ CancelUngracefully(k, c)

Next ==
    \/ \E c \in Ctxs : TearDown(c)
    \/ \E k \in Cancellers : Cancelling(k)
    \/ Environment(Cancellers, Ctxs)

Spec == ContextInit /\ [][Next]_ctxVars

\* The goroutines that cancel a context or tear it down go on while they can.
FairSpec ==
    /\ Spec
    /\ \A c \in Ctxs : WF_ctxVars(TearDown(c))
    /\ \A k \in Cancellers : WF_ctxVars(Cancelling(k))

-----------------------------------------------------------------------------
\* The status a graceful teardown ends with is true: all the tasks registered when its loop began
\* have run, without error or with one, or else the context was cancelled under it.
StatusTrue ==
    \A c \in Ctxs :
        /\ status[c] \in {"TearedDown", "WithErrors"} =>
              due[c].tasks \subseteq ran[c].tasks /\ (status[c] = "WithErrors") = failed[c]
        /\ status[c] = "WithCancellation" => done[c] \/ goDone[c]

\* context.go: "context cancellation before the end of the teardown" stays the status of a
\* context that was given it.
CancellationReported ==
    [][\A c \in Ctxs : status[c] = "WithCancellation" => status'[c] = "WithCancellation"]_status

\* Every microtask registered before the teardown took the lock has been called once the context
\* is torn down, unless the deadline expired.
MicrotasksCalled ==
    \A c \in Ctxs : tornDown[c] /\ ~expired[c] => due[c].micros \subseteq ran[c].micros

\* What a teardown says and does is complete: its status is true of the tasks, and the
\* microtasks were called.
TearDownComplete == StatusTrue /\ MicrotasksCalled

Quiet == \A c \in Ctxs : io[c] = "out" /\ stopping[c] = "nobody"

\* Whichever of the thread and the teardown stops a limiter, and whatever IO the state does
\* meanwhile, the CPU-time bucket is left depleting for the states that still run, and for those
\* that were stopped while paused: their last IO resumes a depletion that was to be over.
DepletionExact ==
    Quiet /\ ~stopped[Root] => count = Cardinality({c \in Ctxs : ~stopped[c] \/ leaked[c]})

\* The bucket depletes for the states that still run and for no other.
DepletionForRunning ==
    Quiet /\ ~stopped[Root] => count = Cardinality({c \in Ctxs : ~stopped[c]})

\* A cancellation that was not ignored cancels the context and its children, whichever other
\* cancellations it competes with, and each of them ends torn down and unlocked.
CancelTearsDown ==
    \A k \in Cancellers, c \in Ctxs : \A x \in Family(c) :
        (~At(k, "idle") /\ Ctx(k) = c) ~> (goDone[x] /\ tornDown[x] /\ ~locked[x])
==============================================================================
