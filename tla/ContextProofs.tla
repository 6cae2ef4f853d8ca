---------------------------- MODULE ContextProofs ----------------------------
(***************************************************************************)
(* For every set of contexts and goroutines, and every number of tasks:    *)
(* what a teardown says and does is complete.                              *)
(***************************************************************************)
EXTENDS Context, TLAPS

tearVars == <<lifeVars, taskVars, call>>

-----------------------------------------------------------------------------
(* Teardowns.                                                              *)

Outcomes == {"TearedDown", "WithErrors", "WithCancellation"}

Lists == [tasks : SUBSET Nat, micros : SUBSET Nat]
Calls == [pc : {"idle", "claim", "range", "loop", "task", "forget", "store", "swap", "cancel",
                "ungraceful"},
          ctx : Ctxs, rest : Seq(Nat), result : Outcomes]

LifeTyped ==
    /\ goDone \in [Ctxs -> BOOLEAN]
    /\ done \in [Ctxs -> BOOLEAN]
    /\ status \in [Ctxs -> Outcomes \cup {"NeverStarted", "TearingDown"}]
    /\ locked \in [Ctxs -> BOOLEAN]
    /\ tornDown \in [Ctxs -> BOOLEAN]
    /\ tear \in [Ctxs -> {"wait", "status", "interrupt", "lock", "destroy", "micros", "last", "end"}]

TasksTyped ==
    /\ tasks \in [Ctxs -> Seq(Nat)]
    /\ micros \in [Ctxs -> Seq(Nat)]
    /\ registered \in [Ctxs -> [tasks : Nat, micros : Nat]]
    /\ due \in [Ctxs -> Lists]
    /\ ran \in [Ctxs -> Lists]
    /\ failed \in [Ctxs -> BOOLEAN]
    /\ expired \in [Ctxs -> BOOLEAN]

TearTyped == LifeTyped /\ TasksTyped /\ call \in [Cancellers -> Calls]

\* The call of k has started the graceful teardown and has not stored its outcome.
Tearing(k) == call[k].pc \in {"range", "loop", "task", "forget", "store"}

\* A context is torn down by one call, until which no task has failed, and whose outcome is not
\* overwritten by another one.
OneTearing ==
    /\ \A j, k \in Cancellers : Tearing(j) /\ Tearing(k) /\ Ctx(j) = Ctx(k) => j = k
    /\ \A k \in Cancellers :
          Tearing(k) => status[Ctx(k)] \in {"TearingDown", "WithCancellation"}
    /\ \A c \in Ctxs : status[c] = "NeverStarted" => ~failed[c]

\* The tasks of the range of k have run or are in the rest of it.
Covered(k) ==
    LET c == Ctx(k) IN
    /\ At(k, "claim") => call[k].result = "TearedDown"
    /\ At(k, "range") => call[k].result = "TearedDown" /\ ~failed[c]
    /\ At(k, "task") => call[k].rest # <<>>
    /\ At(k, "loop") \/ At(k, "task") =>
          /\ call[k].result # "WithCancellation"
          /\ (call[k].result = "WithErrors") = failed[c]
          /\ due[c].tasks \subseteq ran[c].tasks \cup Range(call[k].rest)
    /\ At(k, "forget") \/ At(k, "store") =>
          \/ call[k].result = "WithCancellation" /\ goDone[c]
          \/ /\ call[k].result # "WithCancellation"
             /\ (call[k].result = "WithErrors") = failed[c]
             /\ due[c].tasks \subseteq ran[c].tasks

TasksCovered == \A k \in Cancellers : Covered(k)

\* The cancellation that a status reports has been asked for.
CancellationAsked ==
    /\ \A c \in Ctxs : tear[c] # "wait" => done[c]
    /\ \A k \in Cancellers : At(k, "ungraceful") => done[Ctx(k)]

\* The microtasks of the teardown have been called or are still in the list.
MicrosOf(c) ==
    /\ tornDown[c] => tear[c] = "end"
    /\ tear[c] \in {"destroy", "micros"} => locked[c]
    /\ tear[c] \in {"destroy", "micros"} /\ ~expired[c] =>
          due[c].micros \subseteq ran[c].micros \cup Range(micros[c])
    /\ tear[c] \in {"last", "end"} /\ ~expired[c] => due[c].micros \subseteq ran[c].micros

MicrosCovered == \A c \in Ctxs : MicrosOf(c)

TearInv ==
    /\ TearTyped /\ OneTearing /\ TasksCovered /\ CancellationAsked /\ MicrosCovered /\ StatusTrue

-----------------------------------------------------------------------------
(* The rest of a range.                                                    *)

\* The tasks of a list are the first one and those of the rest.
LEMMA HeadOrRest ==
    ASSUME NEW s \in Seq(Nat), s # <<>>
    PROVE  /\ Head(s) \in Nat /\ Tail(s) \in Seq(Nat)
           /\ Range(s) \subseteq {Head(s)} \cup Range(Tail(s))
<1>1. Head(s) \in Nat /\ Tail(s) \in Seq(Nat) /\ Head(s) = s[1]
  OBVIOUS
<1>2. ASSUME NEW i \in DOMAIN s, i # 1
      PROVE  i - 1 \in DOMAIN Tail(s) /\ Tail(s)[i - 1] = s[i]
  BY <1>2, SMTT(30)
<1>. QED
  BY <1>1, <1>2, ZenonT(60) DEF Range

\* No task is in an empty list.
LEMMA NoTask == Range(<<>>) = {}
BY DEF Range

\* The tasks of a list are numbers.
LEMMA TasksAreNumbers ==
    ASSUME NEW s \in Seq(Nat)
    PROVE  Range(s) \in SUBSET Nat
BY DEF Range

-----------------------------------------------------------------------------
(* Every step keeps the types.                                             *)

\* Only the call of k moves.
OnlyCall(k) ==
    /\ call' \in [Cancellers -> Calls]
    /\ \A j \in Cancellers \ {k} : call'[j] = call[j]

\* A call that becomes r.
LEMMA CallBecomes ==
    ASSUME call \in [Cancellers -> Calls], NEW k \in Cancellers, NEW r \in Calls,
           call' = [call EXCEPT ![k] = r]
    PROVE  OnlyCall(k) /\ call'[k] = r
BY Zenon DEF OnlyCall

\* A call that goes on to a statement.
LEMMA GoIs ==
    ASSUME TearTyped, NEW k \in Cancellers, NEW pc, Go(k, pc),
           pc \in {"range", "loop", "task", "forget", "store", "swap", "cancel"}
    PROVE  /\ OnlyCall(k)
           /\ call'[k].pc = pc /\ call'[k].ctx = call[k].ctx
           /\ call'[k].rest = call[k].rest /\ call'[k].result = call[k].result
<1>1. call \in [Cancellers -> Calls] /\ call[k] \in Calls
  BY Zenon DEF TearTyped
<1>2. call' = [call EXCEPT ![k] = [call[k] EXCEPT !.pc = pc]]
  BY Zenon DEF Go
<1>3. [call[k] EXCEPT !.pc = pc] \in Calls
  BY <1>1, Zenon DEF Calls
<1>4. OnlyCall(k) /\ call'[k] = [call[k] EXCEPT !.pc = pc]
  BY <1>1, <1>2, <1>3, CallBecomes, Zenon
<1>. QED
  BY <1>1, <1>4, Zenon DEF Calls

\* A call that returns.
LEMMA ReturnIs ==
    ASSUME TearTyped, NEW k \in Cancellers, Return(k)
    PROVE  OnlyCall(k) /\ call'[k].pc = "idle"
<1>1. Idle \in Calls /\ Idle.pc = "idle"
  BY RootAssumption DEF Idle, Calls, Outcomes
<1>. QED
  BY <1>1, CallBecomes, Zenon DEF Return, TearTyped

\* A call that begins, at its first statement.
LEMMA BeginIs ==
    ASSUME TearTyped, NEW k \in Cancellers, NEW c \in Ctxs, NEW pc, pc \in {"claim", "ungraceful"},
           call' = [call EXCEPT ![k] = [Idle EXCEPT !.pc = pc, !.ctx = c]]
    PROVE  OnlyCall(k) /\ call'[k].pc = pc /\ call'[k].ctx = c /\ call'[k].result = "TearedDown"
<1>. DEFINE r == [Idle EXCEPT !.pc = pc, !.ctx = c]
<1>1. Idle \in Calls /\ Idle.result = "TearedDown"
  BY RootAssumption DEF Idle, Calls, Outcomes
<1>2. r \in Calls /\ r.pc = pc /\ r.ctx = c /\ r.result = "TearedDown"
  BY <1>1, Zenon DEF Calls
<1>. HIDE DEF r
<1>. QED
  BY <1>2, CallBecomes, Zenon DEF TearTyped, r

\* The loop over the tasks begins.
LEMMA RangeIs ==
    ASSUME TearTyped, NEW k \in Cancellers, RangeTasks(k)
    PROVE  /\ OnlyCall(k)
           /\ call'[k].pc = "loop" /\ call'[k].ctx = call[k].ctx
           /\ call'[k].rest = tasks[Ctx(k)] /\ call'[k].result = call[k].result
<1>. DEFINE r == [[call[k] EXCEPT !.pc = "loop"] EXCEPT !.rest = tasks[Ctx(k)]]
<1>1. call \in [Cancellers -> Calls] /\ call[k] \in Calls /\ tasks[Ctx(k)] \in Seq(Nat)
  BY Zenon DEF Ctx, TearTyped, TasksTyped, Calls
<1>2. call' = [call EXCEPT ![k] = r]
  BY Zenon DEF RangeTasks
<1>3. /\ r \in Calls
      /\ r.pc = "loop" /\ r.ctx = call[k].ctx /\ r.rest = tasks[Ctx(k)] /\ r.result = call[k].result
  BY <1>1, Zenon DEF Calls
<1>. HIDE DEF r
<1>. QED
  BY <1>1, <1>2, <1>3, CallBecomes, Zenon

\* The loop goes on with a task, or ends.
LEMMA LoopIs ==
    ASSUME TearTyped, NEW k \in Cancellers, Loop(k)
    PROVE  /\ OnlyCall(k)
           /\ call'[k].ctx = call[k].ctx /\ call'[k].rest = call[k].rest
           /\ \/ /\ call[k].rest = <<>>
                 /\ call'[k].pc = "forget" /\ call'[k].result = call[k].result
              \/ /\ goDone[Ctx(k)]
                 /\ call'[k].pc = "forget" /\ call'[k].result = "WithCancellation"
              \/ /\ call[k].rest # <<>>
                 /\ call'[k].pc = "task" /\ call'[k].result = call[k].result
<1>. DEFINE r == CASE call[k].rest = <<>> -> [call[k] EXCEPT !.pc = "forget"]
                  [] call[k].rest # <<>> /\ goDone[Ctx(k)] ->
                       [call[k] EXCEPT !.pc = "forget", !.result = "WithCancellation"]
                  [] OTHER -> [call[k] EXCEPT !.pc = "task"]
<1>1. call \in [Cancellers -> Calls] /\ call[k] \in Calls
  BY Zenon DEF TearTyped
<1>2. call' = [call EXCEPT ![k] = r]
  BY Zenon DEF Loop
<1>3. /\ r \in Calls
      /\ r.ctx = call[k].ctx /\ r.rest = call[k].rest
      /\ \/ call[k].rest = <<>> /\ r.pc = "forget" /\ r.result = call[k].result
         \/ goDone[Ctx(k)] /\ r.pc = "forget" /\ r.result = "WithCancellation"
         \/ call[k].rest # <<>> /\ r.pc = "task" /\ r.result = call[k].result
  BY <1>1, Zenon DEF Calls, Outcomes
<1>. HIDE DEF r
<1>. QED
  BY <1>1, <1>2, <1>3, CallBecomes, Zenon

\* A task has run.
LEMMA TaskIs ==
    ASSUME TearTyped, NEW k \in Cancellers, NEW ok \in BOOLEAN, Task(k, ok), call[k].rest # <<>>
    PROVE  /\ OnlyCall(k)
           /\ call'[k].pc = "loop" /\ call'[k].ctx = call[k].ctx
           /\ call'[k].rest = Tail(call[k].rest)
           /\ call'[k].result = IF ok THEN call[k].result ELSE "WithErrors"
<1>. DEFINE r == [[[call[k] EXCEPT !.pc = "loop"] EXCEPT !.rest = Tail(call[k].rest)]
                    EXCEPT !.result = IF ok THEN call[k].result ELSE "WithErrors"]
<1>1. call \in [Cancellers -> Calls] /\ call[k] \in Calls
  BY Zenon DEF TearTyped
<1>2. call' = [call EXCEPT ![k] = r]
  BY <1>1, Zenon DEF Task, Calls
<1>3. Tail(call[k].rest) \in Seq(Nat)
  BY <1>1, HeadOrRest, Zenon DEF Calls
<1>4. /\ r \in Calls
      /\ r.pc = "loop" /\ r.ctx = call[k].ctx /\ r.rest = Tail(call[k].rest)
      /\ r.result = IF ok THEN call[k].result ELSE "WithErrors"
  BY <1>1, <1>3, Zenon DEF Calls, Outcomes
<1>. HIDE DEF r
<1>. QED
  BY <1>1, <1>2, <1>4, CallBecomes, Zenon

\* The history f becomes g, in which the tasks of c are S,
TasksBecome(f, g, c, S) ==
    /\ g \in [Ctxs -> Lists]
    /\ g[c].tasks = S
    /\ \A x \in Ctxs : g[x].micros = f[x].micros
    /\ \A x \in Ctxs \ {c} : g[x].tasks = f[x].tasks

\* or in which the microtasks of c are.
MicrosBecome(f, g, c, S) ==
    /\ g \in [Ctxs -> Lists]
    /\ g[c].micros = S
    /\ \A x \in Ctxs : g[x].tasks = f[x].tasks
    /\ \A x \in Ctxs \ {c} : g[x].micros = f[x].micros

\* A history is changed in one place.
LEMMA HistoryBecomes ==
    ASSUME NEW f \in [Ctxs -> Lists], NEW g, NEW c \in Ctxs, NEW S \in SUBSET Nat
    PROVE  /\ g = [f EXCEPT ![c].tasks = S] => TasksBecome(f, g, c, S)
           /\ g = [f EXCEPT ![c].micros = S] => MicrosBecome(f, g, c, S)
<1>1. ASSUME g = [f EXCEPT ![c].tasks = S] PROVE TasksBecome(f, g, c, S)
  BY <1>1, ZenonT(60) DEF Lists, TasksBecome
<1>2. ASSUME g = [f EXCEPT ![c].micros = S] PROVE MicrosBecome(f, g, c, S)
  BY <1>2, ZenonT(60) DEF Lists, MicrosBecome
<1>. QED
  BY <1>1, <1>2, Zenon

\* The context and the rest of a call.
LEMMA CallTyped ==
    ASSUME TearTyped, NEW k \in Cancellers
    PROVE  Ctx(k) \in Ctxs /\ call[k].rest \in Seq(Nat) /\ call[k].result \in Outcomes
BY Zenon DEF TearTyped, Calls, Ctx

\* What a range and a task do to the histories of the tasks.
LEMMA RangeDue ==
    ASSUME TearTyped, NEW k \in Cancellers, RangeTasks(k)
    PROVE  TasksBecome(due, due', Ctx(k), Range(tasks[Ctx(k)]))
<1>1. Range(tasks[Ctx(k)]) \in SUBSET Nat
  BY CallTyped, TasksAreNumbers, Zenon DEF TearTyped, TasksTyped
<1>2. due \in [Ctxs -> Lists] /\ due' = [due EXCEPT ![Ctx(k)].tasks = Range(tasks[Ctx(k)])]
  BY Zenon DEF TearTyped, TasksTyped, RangeTasks
<1>. QED
  BY <1>1, <1>2, CallTyped, HistoryBecomes, Zenon

LEMMA TaskRan ==
    ASSUME TearTyped, NEW k \in Cancellers, NEW ok \in BOOLEAN, Task(k, ok), call[k].rest # <<>>
    PROVE  TasksBecome(ran, ran', Ctx(k), ran[Ctx(k)].tasks \cup {Head(call[k].rest)})
<1>. DEFINE S == ran[Ctx(k)].tasks \cup {Head(call[k].rest)}
<1>1. ran \in [Ctxs -> Lists] /\ Ctx(k) \in Ctxs
  BY CallTyped, Zenon DEF TearTyped, TasksTyped
<1>2. S \in SUBSET Nat
  BY <1>1, CallTyped, HeadOrRest, Zenon DEF Lists
<1>3. ran' = [ran EXCEPT ![Ctx(k)].tasks = S]
  BY Zenon DEF Task
<1>. QED
  BY <1>1, <1>2, <1>3, HistoryBecomes, Zenon

\* What the teardown goroutine does to those of the microtasks.
LEMMA LockDue ==
    ASSUME TearTyped, NEW c \in Ctxs, LockAndDestroy(c)
    PROVE  MicrosBecome(due, due', c, Range(micros[c]))
<1>1. Range(micros[c]) \in SUBSET Nat
  BY TasksAreNumbers, Zenon DEF TearTyped, TasksTyped
<1>2. due \in [Ctxs -> Lists] /\ due' = [due EXCEPT ![c].micros = Range(micros[c])]
  BY Zenon DEF TearTyped, TasksTyped, LockAndDestroy
<1>. QED
  BY <1>1, <1>2, HistoryBecomes, Zenon

LEMMA MicroRan ==
    ASSUME TearTyped, NEW c \in Ctxs, Microtask(c)
    PROVE  MicrosBecome(ran, ran', c, ran[c].micros \cup {Head(micros[c])})
<1>. DEFINE S == ran[c].micros \cup {Head(micros[c])}
<1>1. ran \in [Ctxs -> Lists]
  BY Zenon DEF TearTyped, TasksTyped
<1>2. micros[c] \in Seq(Nat) /\ micros[c] # <<>>
  BY Zenon DEF Microtask, TearTyped, TasksTyped
<1>3. S \in SUBSET Nat
  BY <1>1, <1>2, HeadOrRest, Zenon DEF Lists
<1>4. ran' = [ran EXCEPT ![c].micros = S]
  BY Zenon DEF Microtask
<1>. QED
  BY <1>1, <1>3, <1>4, HistoryBecomes, Zenon

-----------------------------------------------------------------------------
(* Every step keeps the types.                                             *)

\* The statements of a cancellation.
LEMMA TypedCancelling ==
    ASSUME TearTyped, TasksCovered, NEW k \in Cancellers, Cancelling(k)
    PROVE  TearTyped'
<1>. TearTyped /\ LifeTyped /\ TasksTyped /\ Ctx(k) \in Ctxs /\ call[k].result \in Outcomes
  BY CallTyped, Zenon DEF TearTyped
<1>1. CASE Claim(k)
  <2>1. LifeTyped' /\ TasksTyped'
    BY <1>1, Zenon DEF Claim, LifeTyped, TasksTyped, taskVars
  <2>. QED
    BY <1>1, <2>1, GoIs, ReturnIs, Zenon DEF Claim, OnlyCall, TearTyped
<1>2. CASE RangeTasks(k)
  <2>1. due' \in [Ctxs -> Lists] /\ OnlyCall(k)
    BY <1>2, RangeDue, RangeIs, Zenon DEF TasksBecome
  <2>. QED
    BY <1>2, <2>1, Zenon DEF RangeTasks, LifeTyped, TasksTyped, lifeVars, OnlyCall, TearTyped
<1>3. CASE Loop(k)
  BY <1>3, LoopIs, Zenon DEF Loop, LifeTyped, TasksTyped, lifeVars, taskVars, OnlyCall, TearTyped
<1>4. ASSUME NEW ok \in BOOLEAN, Task(k, ok) PROVE TearTyped'
  <2>1. call[k].rest # <<>>
    BY <1>4, Zenon DEF Task, TasksCovered, Covered
  <2>2. ran' \in [Ctxs -> Lists] /\ OnlyCall(k)
    BY <1>4, <2>1, TaskRan, TaskIs, Zenon DEF TasksBecome
  <2>. QED
    BY <1>4, <2>2, Zenon DEF Task, LifeTyped, TasksTyped, lifeVars, OnlyCall, TearTyped
<1>5. CASE ForgetTasks(k)
  <2>1. LifeTyped' /\ TasksTyped'
    BY <1>5 DEF ForgetTasks, LifeTyped, TasksTyped, lifeVars
  <2>. QED
    BY <1>5, <2>1, GoIs, Zenon DEF ForgetTasks, OnlyCall, TearTyped
<1>6. CASE StoreStatus(k)
  <2>1. LifeTyped' /\ TasksTyped'
    BY <1>6, Zenon DEF StoreStatus, LifeTyped, TasksTyped, taskVars
  <2>. QED
    BY <1>6, <2>1, GoIs, Zenon DEF StoreStatus, OnlyCall, TearTyped
<1>7. CASE Swap(k)
  <2>1. LifeTyped' /\ TasksTyped'
    BY <1>7, Zenon DEF Swap, LifeTyped, TasksTyped, taskVars
  <2>. QED
    BY <1>7, <2>1, GoIs, ReturnIs, Zenon DEF Swap, OnlyCall, TearTyped
<1>8. CASE Cancel(k)
  <2>1. LifeTyped' /\ TasksTyped'
    BY <1>8, Zenon DEF Cancel, cancel, LifeTyped, TasksTyped, taskVars
  <2>. QED
    BY <1>8, <2>1, ReturnIs, Zenon DEF Cancel, OnlyCall, TearTyped
<1>9. CASE Ungraceful(k)
  <2>1. LifeTyped' /\ TasksTyped'
    BY <1>9, Zenon DEF Ungraceful, cancel, Interrupted, LifeTyped, TasksTyped, taskVars, Outcomes
  <2>. QED
    BY <1>9, <2>1, ReturnIs, Zenon DEF Ungraceful, OnlyCall, TearTyped
<1>. QED
  BY <1>1, <1>2, <1>3, <1>4, <1>5, <1>6, <1>7, <1>8, <1>9, Zenon DEF Cancelling

\* The steps of the teardown goroutine.
LEMMA TypedTearDown ==
    ASSUME TearTyped, NEW c \in Ctxs, TearDown(c)
    PROVE  TearTyped'
<1>. USE DEF TearTyped, LifeTyped, TasksTyped, TearGo
<1>1. CASE NoticeDone(c)
  BY <1>1, Zenon DEF NoticeDone, taskVars
<1>2. CASE ReadStatus(c)
  BY <1>2, Zenon DEF ReadStatus, taskVars
<1>3. CASE InterruptStatus(c)
  BY <1>3, Zenon DEF InterruptStatus, taskVars, Outcomes
<1>4. CASE LockAndDestroy(c)
  BY <1>4, LockDue, Zenon DEF LockAndDestroy, MicrosBecome
<1>5. CASE FinishDestroy(c)
  BY <1>5, Zenon DEF FinishDestroy, taskVars
<1>6. CASE Microtask(c)
  <2>1. micros[c] \in Seq(Nat) /\ micros[c] # <<>> /\ Tail(micros[c]) \in Seq(Nat)
    BY <1>6, HeadOrRest, Zenon DEF Microtask
  <2>2. micros' \in [Ctxs -> Seq(Nat)] /\ expired' \in [Ctxs -> BOOLEAN]
    <3>1. CASE micros' = [micros EXCEPT ![c] = Tail(@)] /\ UNCHANGED expired
      BY <2>1, <3>1, Zenon
    <3>2. CASE micros' = [micros EXCEPT ![c] = <<>>] /\ expired' = [expired EXCEPT ![c] = TRUE]
      BY <3>2
    <3>. QED
      BY <1>6, <3>1, <3>2, Zenon DEF Microtask
  <2>. QED
    BY <1>6, <2>2, MicroRan, Zenon DEF Microtask, MicrosBecome, lifeVars
<1>7. CASE EndTearDown(c)
  BY <1>7, Zenon DEF EndTearDown, taskVars
<1>8. CASE MarkTornDown(c)
  BY <1>8, Zenon DEF MarkTornDown, taskVars
<1>. QED
  BY <1>1, <1>2, <1>3, <1>4, <1>5, <1>6, <1>7, <1>8, Zenon DEF TearDown

\* Registrations, and the calls that begin.
LEMMA TypedEnvironment ==
    ASSUME TearTyped, NEW c \in Ctxs,
           \/ OnGracefulTearDown(c) \/ OnDone(c)
           \/ \E k \in Cancellers : CancelGracefully(k, c) \/ CancelUngracefully(k, c)
    PROVE  TearTyped'
<1>. USE DEF TearTyped, LifeTyped, TasksTyped
<1>. registered[c].tasks + 1 \in Nat /\ registered[c].micros + 1 \in Nat
  OBVIOUS
<1>1. CASE OnGracefulTearDown(c)
  <2>1. tasks' \in [Ctxs -> Seq(Nat)]
    BY <1>1 DEF OnGracefulTearDown
  <2>2. registered' \in [Ctxs -> [tasks : Nat, micros : Nat]]
    BY <1>1, ZenonT(60) DEF OnGracefulTearDown
  <2>. QED
    BY <1>1, <2>1, <2>2, Zenon DEF OnGracefulTearDown, lifeVars
<1>2. CASE OnDone(c)
  <2>1. micros' \in [Ctxs -> Seq(Nat)]
    BY <1>2 DEF OnDone
  <2>2. registered' \in [Ctxs -> [tasks : Nat, micros : Nat]]
    BY <1>2, ZenonT(60) DEF OnDone
  <2>. QED
    BY <1>2, <2>1, <2>2, Zenon DEF OnDone, lifeVars
<1>3. ASSUME NEW k \in Cancellers, CancelGracefully(k, c) PROVE TearTyped'
  <2>1. OnlyCall(k)
    BY <1>3, BeginIs, Zenon DEF CancelGracefully
  <2>. QED
    BY <1>3, <2>1, Zenon DEF CancelGracefully, lifeVars, taskVars, OnlyCall
<1>4. ASSUME NEW k \in Cancellers, CancelUngracefully(k, c) PROVE TearTyped'
  <2>1. OnlyCall(k)
    BY <1>4, BeginIs, Zenon DEF CancelUngracefully
  <2>. QED
    BY <1>4, <2>1, Zenon DEF CancelUngracefully, lifeVars, taskVars, OnlyCall
<1>. QED
  BY <1>1, <1>2, <1>3, <1>4, Zenon

-----------------------------------------------------------------------------
(* What a step leaves alone.                                               *)

\* A cancellation is not taken back.
Monotone ==
    \A x \in Ctxs : (goDone[x] => goDone'[x]) /\ (done[x] => done'[x])

LEMMA MonotoneNext ==
    ASSUME TearTyped, Next
    PROVE  Monotone
<1>. USE DEF Monotone, TearTyped, LifeTyped
<1>1. ASSUME NEW c \in Ctxs, TearDown(c) PROVE Monotone
  BY <1>1, Zenon
   DEF TearDown, NoticeDone, ReadStatus, InterruptStatus, LockAndDestroy, FinishDestroy,
              Microtask, EndTearDown, MarkTornDown, lifeVars
<1>2. ASSUME NEW k \in Cancellers, Cancelling(k) PROVE Monotone
  <2>1. CASE Cancel(k) \/ Ungraceful(k)
    BY <2>1, Zenon DEF Cancel, Ungraceful, cancel
  <2>2. CASE Swap(k)
    BY <2>2, CallTyped, Zenon DEF Swap
  <2>. QED
    BY <1>2, <2>1, <2>2, Zenon
     DEF Cancelling, Claim, RangeTasks, Loop, Task, ForgetTasks, StoreStatus,
                            lifeVars
<1>3. CASE Environment(Cancellers, Ctxs)
  BY <1>3, ZenonT(60)
   DEF Environment, OnGracefulTearDown, OnDone, CancelGracefully, CancelUngracefully, lifeVars
<1>. QED
  BY <1>1, <1>2, <1>3, Zenon DEF Next

\* What is known of the tasks of x stays.
SameTasks(x) ==
    failed'[x] = failed[x] /\ due'[x].tasks = due[x].tasks /\ ran'[x].tasks = ran[x].tasks

\* Only the call that tears a context down ranges over its tasks and runs them.
LEMMA TasksOfOthers ==
    ASSUME TearTyped, TasksCovered, NEW k \in Cancellers, Cancelling(k), NEW x \in Ctxs,
           Tearing(k) => Ctx(k) # x
    PROVE  SameTasks(x)
<1>1. CASE RangeTasks(k)
  <2>1. Tearing(k)
    BY <1>1, Zenon DEF RangeTasks, Tearing, At
  <2>2. TasksBecome(due, due', Ctx(k), Range(tasks[Ctx(k)]))
    BY <1>1, RangeDue, Zenon
  <2>. QED
    BY <1>1, <2>1, <2>2, Zenon DEF SameTasks, TasksBecome, RangeTasks
<1>2. ASSUME NEW ok \in BOOLEAN, Task(k, ok) PROVE SameTasks(x)
  <2>1. Tearing(k) /\ call[k].rest # <<>>
    BY <1>2, Zenon DEF Task, Tearing, At, TasksCovered, Covered
  <2>2. TasksBecome(ran, ran', Ctx(k), ran[Ctx(k)].tasks \cup {Head(call[k].rest)})
    BY <1>2, <2>1, TaskRan, Zenon
  <2>3. failed'[x] = failed[x]
    BY <1>2, <2>1, Zenon DEF Task, TearTyped, TasksTyped
  <2>. QED
    BY <1>2, <2>1, <2>2, <2>3, Zenon DEF SameTasks, TasksBecome, Task
<1>. QED
  BY <1>1, <1>2, Zenon
   DEF Cancelling, Claim, Loop, ForgetTasks, StoreStatus, Swap, Cancel, Ungraceful,
                    taskVars, SameTasks

\* The teardown goroutine, registrations and new calls do neither.
LEMMA TasksOfAll ==
    ASSUME TearTyped, NEW c \in Ctxs, NEW x \in Ctxs,
           \/ TearDown(c) \/ OnGracefulTearDown(c) \/ OnDone(c)
           \/ \E k \in Cancellers : CancelGracefully(k, c) \/ CancelUngracefully(k, c)
    PROVE  SameTasks(x)
<1>1. CASE LockAndDestroy(c)
  BY <1>1, LockDue, Zenon DEF LockAndDestroy, MicrosBecome, SameTasks
<1>2. CASE Microtask(c)
  BY <1>2, MicroRan, Zenon DEF Microtask, MicrosBecome, SameTasks
<1>. QED
  BY <1>1, <1>2, Zenon
   DEF TearDown, NoticeDone, ReadStatus, InterruptStatus, FinishDestroy, EndTearDown,
      MarkTornDown, OnGracefulTearDown, OnDone, CancelGracefully, CancelUngracefully, taskVars,
      SameTasks

-----------------------------------------------------------------------------
(* One call tears a context down.                                          *)

\* The calls stay, and so do the tasks; the status of a context is only made that of a
\* cancellation.
LEMMA OneTearingQuiet ==
    ASSUME OneTearing, UNCHANGED call, \A x \in Ctxs : SameTasks(x),
           TearTyped,
           \A x \in Ctxs : status'[x] = status[x] \/ status'[x] = "WithCancellation"
    PROVE  OneTearing'
<1>1. \A k \in Cancellers : Ctx(k) \in Ctxs
  BY CallTyped, Zenon
<1>. QED
  BY <1>1, ZenonT(60) DEF OneTearing, Tearing, Ctx, SameTasks

\* The call of k stays on its context, on which it does not begin a teardown; the status of other
\* contexts stays, and that of its own is neither the first one nor, if the call goes on with a
\* teardown, an outcome.
LEMMA OneTearingMoves ==
    ASSUME TearTyped, OneTearing, NEW k \in Cancellers, OnlyCall(k),
           Tearing(k)' => Tearing(k) /\ Ctx(k)' = Ctx(k),
           \A x \in Ctxs : x # Ctx(k) \/ ~Tearing(k) => SameTasks(x),
           \A x \in Ctxs : \/ status'[x] = status[x]
                           \/ status'[x] = "WithCancellation"
                           \/ x = Ctx(k) /\ Tearing(k) /\ ~Tearing(k)' /\ status'[x] # "NeverStarted"
    PROVE  OneTearing'
<1>1. \A j \in Cancellers : Ctx(j) \in Ctxs
  BY CallTyped, Zenon
<1>2. \A j \in Cancellers : j # k => (Tearing(j)' <=> Tearing(j)) /\ Ctx(j)' = Ctx(j)
  BY Zenon DEF OnlyCall, Tearing, Ctx
<1>3. \A j \in Cancellers : Tearing(j)' => Tearing(j) /\ Ctx(j)' = Ctx(j)
  BY <1>2, Zenon
<1>4. \A i, j \in Cancellers : Tearing(i)' /\ Tearing(j)' /\ Ctx(i)' = Ctx(j)' => i = j
  BY <1>3, Zenon DEF OneTearing
<1>5. ASSUME NEW j \in Cancellers, Tearing(j)'
      PROVE  status'[Ctx(j)'] \in {"TearingDown", "WithCancellation"}
  <2>1. Tearing(j) /\ Ctx(j)' = Ctx(j) /\ Ctx(j) \in Ctxs
    BY <1>1, <1>3, <1>5, Zenon
  <2>2. status[Ctx(j)] \in {"TearingDown", "WithCancellation"}
    BY <2>1, Zenon DEF OneTearing
  <2>3. ~(Ctx(j) = Ctx(k) /\ Tearing(k) /\ ~Tearing(k)')
    BY <1>5, <2>1, Zenon DEF OneTearing
  <2>. QED
    BY <2>1, <2>2, <2>3, Zenon
<1>6. ASSUME NEW x \in Ctxs, status'[x] = "NeverStarted" PROVE ~failed'[x]
  <2>1. status[x] = "NeverStarted" /\ ~failed[x]
    BY <1>6, Zenon DEF OneTearing
  <2>2. x # Ctx(k) \/ ~Tearing(k)
    BY <2>1, Zenon DEF OneTearing
  <2>. QED
    BY <2>1, <2>2, Zenon DEF SameTasks
<1>. QED
  BY <1>4, <1>5, <1>6, Zenon DEF OneTearing

\* Every step keeps it.
LEMMA OneTearingNext ==
    ASSUME TearTyped, OneTearing, TasksCovered, Next
    PROVE  OneTearing'
<1>1. ASSUME NEW c \in Ctxs, TearDown(c) PROVE OneTearing'
  <2>1. \A x \in Ctxs : SameTasks(x)
    BY <1>1, TasksOfAll, Zenon
  <2>2. UNCHANGED call /\ \A x \in Ctxs : status'[x] = status[x] \/ status'[x] = "WithCancellation"
    BY <1>1, Zenon
     DEF TearDown, NoticeDone, ReadStatus, InterruptStatus, LockAndDestroy, FinishDestroy,
                Microtask, EndTearDown, MarkTornDown, lifeVars, TearTyped, LifeTyped
  <2>. QED
    BY <2>1, <2>2, OneTearingQuiet, Zenon
<1>2. ASSUME NEW k \in Cancellers, Cancelling(k) PROVE OneTearing'
  <2>. Ctx(k) \in Ctxs /\ call[k].result \in Outcomes
    BY CallTyped, Zenon
  <2>0. \A x \in Ctxs : x # Ctx(k) \/ ~Tearing(k) => SameTasks(x)
    BY <1>2, TasksOfOthers, Zenon
  <2>1. CASE Claim(k) /\ status[Ctx(k)] = "NeverStarted"
    <3>1. OnlyCall(k) /\ Ctx(k)' = Ctx(k)
      BY <2>1, GoIs, Zenon DEF Claim, Ctx
    <3>2. /\ status'[Ctx(k)] = "TearingDown"
          /\ \A x \in Ctxs \ {Ctx(k)} : status'[x] = status[x]
      BY <2>1, Zenon DEF Claim, TearTyped, LifeTyped
    <3>3. \A j \in Cancellers : Tearing(j) => Ctx(j) # Ctx(k)
      BY <2>1, Zenon DEF OneTearing
    <3>4. \A j \in Cancellers \ {k} : (Tearing(j)' <=> Tearing(j)) /\ Ctx(j)' = Ctx(j)
      BY <3>1, Zenon DEF OnlyCall, Tearing, Ctx
    <3>5. \A j \in Cancellers : Ctx(j) \in Ctxs
      BY CallTyped, Zenon
    <3>6. \A x \in Ctxs : failed'[x] = failed[x]
      BY <2>1, Zenon DEF Claim, taskVars
    <3>7. \A i, j \in Cancellers : Tearing(i)' /\ Tearing(j)' /\ Ctx(i)' = Ctx(j)' => i = j
      BY <3>1, <3>3, <3>4, Zenon DEF OneTearing
    <3>8. \A j \in Cancellers : Tearing(j)' => status'[Ctx(j)'] \in {"TearingDown", "WithCancellation"}
      BY <3>1, <3>2, <3>3, <3>4, <3>5, Zenon DEF OneTearing
    <3>9. \A x \in Ctxs : status'[x] = "NeverStarted" => ~failed'[x]
      BY <3>2, <3>6, Zenon DEF OneTearing
    <3>. QED
      BY <3>7, <3>8, <3>9, Zenon DEF OneTearing
  <2>2. CASE Claim(k) /\ status[Ctx(k)] # "NeverStarted"
    <3>1. OnlyCall(k) /\ ~Tearing(k)' /\ UNCHANGED status
      BY <2>2, ReturnIs, Zenon DEF Claim, Tearing
    <3>. QED
      BY <2>0, <3>1, OneTearingMoves, Zenon
  <2>3. CASE RangeTasks(k)
    <3>1. OnlyCall(k) /\ Tearing(k) /\ Ctx(k)' = Ctx(k) /\ UNCHANGED status
      BY <2>3, RangeIs, Zenon DEF RangeTasks, At, Tearing, Ctx, lifeVars
    <3>. QED
      BY <2>0, <3>1, OneTearingMoves, Zenon
  <2>4. CASE Loop(k)
    <3>1. OnlyCall(k) /\ Tearing(k) /\ Ctx(k)' = Ctx(k) /\ UNCHANGED status
      BY <2>4, LoopIs, Zenon DEF Loop, At, Tearing, Ctx, lifeVars
    <3>. QED
      BY <2>0, <3>1, OneTearingMoves, ZenonT(60)
  <2>5. ASSUME NEW ok \in BOOLEAN, Task(k, ok) PROVE OneTearing'
    <3>1. call[k].rest # <<>>
      BY <2>5, Zenon DEF Task, TasksCovered, Covered
    <3>2. OnlyCall(k) /\ Tearing(k) /\ Ctx(k)' = Ctx(k) /\ UNCHANGED status
      BY <2>5, <3>1, TaskIs, Zenon DEF Task, At, Tearing, Ctx, lifeVars
    <3>. QED
      BY <2>0, <3>2, OneTearingMoves, Zenon
  <2>6. CASE ForgetTasks(k)
    <3>1. OnlyCall(k) /\ Tearing(k) /\ Ctx(k)' = Ctx(k) /\ UNCHANGED status
      BY <2>6, GoIs, Zenon DEF ForgetTasks, At, Tearing, Ctx, lifeVars
    <3>. QED
      BY <2>0, <3>1, OneTearingMoves, ZenonT(60)
  <2>7. CASE StoreStatus(k)
    <3>1. OnlyCall(k) /\ Tearing(k) /\ ~Tearing(k)'
      BY <2>7, GoIs DEF StoreStatus, At, Tearing
    <3>2. /\ status'[Ctx(k)] # "NeverStarted"
          /\ \A x \in Ctxs \ {Ctx(k)} : status'[x] = status[x]
      BY <2>7, Zenon DEF StoreStatus, Outcomes, TearTyped, LifeTyped
    <3>. QED
      BY <2>0, <3>1, <3>2, OneTearingMoves, Zenon
  <2>8. CASE Swap(k) \/ Cancel(k) \/ Ungraceful(k)
    <3>1. OnlyCall(k) /\ ~Tearing(k)'
      BY <2>8, GoIs, ReturnIs DEF Swap, Cancel, Ungraceful, Tearing
    <3>2. \A x \in Ctxs : status'[x] = status[x] \/ status'[x] = "WithCancellation"
      BY <2>8, Zenon DEF Swap, Cancel, Ungraceful, Interrupted, TearTyped, LifeTyped
    <3>. QED
      BY <2>0, <3>1, <3>2, OneTearingMoves, Zenon
  <2>. QED
    BY <1>2, <2>1, <2>2, <2>3, <2>4, <2>5, <2>6, <2>7, <2>8, Zenon DEF Cancelling, Claim
<1>3. ASSUME NEW c \in Ctxs, OnGracefulTearDown(c) \/ OnDone(c) PROVE OneTearing'
  <2>1. \A x \in Ctxs : SameTasks(x)
    BY <1>3, TasksOfAll, Zenon
  <2>. QED
    BY <1>3, <2>1, OneTearingQuiet, Zenon DEF OnGracefulTearDown, OnDone, lifeVars
<1>4. ASSUME NEW c \in Ctxs, NEW k \in Cancellers,
             CancelGracefully(k, c) \/ CancelUngracefully(k, c)
      PROVE  OneTearing'
  <2>1. \A x \in Ctxs : SameTasks(x)
    BY <1>4, TasksOfAll, Zenon
  <2>2. OnlyCall(k) /\ ~Tearing(k)' /\ UNCHANGED status
    BY <1>4, BeginIs, Zenon DEF CancelGracefully, CancelUngracefully, Tearing, lifeVars
  <2>. QED
    BY <2>1, <2>2, OneTearingMoves, Zenon
<1>. QED
  BY <1>1, <1>2, <1>3, <1>4, Zenon DEF Next, Environment

-----------------------------------------------------------------------------
(* The tasks of a range have run or are left.                              *)

\* What is known of a call that does not move stays known.
LEMMA CoveredStays ==
    ASSUME TearTyped, NEW j \in Cancellers, Covered(j), call'[j] = call[j], Monotone,
           Tearing(j) => SameTasks(Ctx(j))
    PROVE  Covered(j)'
<1>1. Ctx(j) \in Ctxs /\ Ctx(j)' = Ctx(j)
  BY CallTyped, Zenon DEF Ctx
<1>2. CASE Tearing(j)
  BY <1>1, <1>2, Zenon DEF Covered, At, SameTasks, Monotone
<1>3. CASE ~Tearing(j)
  BY <1>1, <1>3, Zenon DEF Covered, At, Tearing
<1>. QED
  BY <1>2, <1>3, Zenon

\* Every step keeps it.
LEMMA CoveredNext ==
    ASSUME TearTyped, OneTearing, TasksCovered, Next
    PROVE  TasksCovered'
<1>. Monotone
  BY MonotoneNext, Zenon
<1>1. ASSUME UNCHANGED call, \A x \in Ctxs : SameTasks(x) PROVE TasksCovered'
  BY <1>1, CallTyped, CoveredStays, Zenon DEF TasksCovered
<1>2. ASSUME NEW c \in Ctxs, TearDown(c) \/ OnGracefulTearDown(c) \/ OnDone(c) PROVE TasksCovered'
  <2>1. \A x \in Ctxs : SameTasks(x)
    BY <1>2, TasksOfAll, Zenon
  <2>2. UNCHANGED call
    BY <1>2, Zenon
     DEF TearDown, NoticeDone, ReadStatus, InterruptStatus, LockAndDestroy, FinishDestroy,
                Microtask, EndTearDown, MarkTornDown, OnGracefulTearDown, OnDone
  <2>. QED
    BY <1>1, <2>1, <2>2, Zenon
<1>3. ASSUME NEW c \in Ctxs, NEW k \in Cancellers,
             CancelGracefully(k, c) \/ CancelUngracefully(k, c)
      PROVE  TasksCovered'
  <2>1. \A x \in Ctxs : SameTasks(x)
    BY <1>3, TasksOfAll, Zenon
  <2>2. /\ OnlyCall(k) /\ call'[k].pc \in {"claim", "ungraceful"}
        /\ call'[k].result = "TearedDown"
    BY <1>3, BeginIs, Zenon DEF CancelGracefully, CancelUngracefully
  <2>3. \A j \in Cancellers \ {k} : Covered(j)'
    BY <2>1, <2>2, CallTyped, CoveredStays, Zenon DEF OnlyCall, TasksCovered
  <2>4. Covered(k)'
    BY <2>2, Zenon DEF Covered, At
  <2>. QED
    BY <2>3, <2>4, Zenon DEF TasksCovered
<1>4. ASSUME NEW k \in Cancellers, Cancelling(k) PROVE TasksCovered'
  <2>. Ctx(k) \in Ctxs /\ Covered(k)
    BY CallTyped, Zenon DEF TasksCovered
  <2>1. ASSUME NEW j \in Cancellers, j # k, call'[j] = call[j] PROVE Covered(j)'
    <3>1. Tearing(j) => SameTasks(Ctx(j))
      BY <1>4, <2>1, CallTyped, TasksOfOthers, Zenon DEF OneTearing
    <3>. QED
      BY <2>1, <3>1, CoveredStays, Zenon DEF TasksCovered
  <2>2. OnlyCall(k) /\ Covered(k)'
    <3>1. CASE Claim(k) /\ status[Ctx(k)] = "NeverStarted"
      <4>1. /\ OnlyCall(k) /\ call'[k].pc = "range" /\ Ctx(k)' = Ctx(k)
            /\ call'[k].result = call[k].result
        BY <3>1, GoIs, Zenon DEF Claim, Ctx
      <4>2. call[k].result = "TearedDown" /\ ~failed'[Ctx(k)]
        BY <3>1, Zenon DEF Claim, Covered, OneTearing, taskVars
      <4>. QED
        BY <4>1, <4>2, Zenon DEF Covered, At
    <3>2. CASE Return(k)
      BY <3>2, ReturnIs, Zenon DEF Covered, At
    <3>3. CASE RangeTasks(k)
      <4>1. TasksBecome(due, due', Ctx(k), Range(tasks[Ctx(k)]))
        BY <3>3, RangeDue, Zenon
      <4>2. /\ OnlyCall(k) /\ call'[k].pc = "loop" /\ Ctx(k)' = Ctx(k)
            /\ call'[k].rest = tasks[Ctx(k)] /\ call'[k].result = call[k].result
        BY <3>3, RangeIs, Zenon DEF Ctx
      <4>3. call[k].result = "TearedDown" /\ ~failed'[Ctx(k)] /\ failed'[Ctx(k)] \in BOOLEAN
        BY <3>3, Zenon DEF RangeTasks, Covered, TearTyped, TasksTyped
      <4>. QED
        BY <4>1, <4>2, <4>3, Zenon DEF Covered, At, TasksBecome
    <3>4. CASE Loop(k)
      <4>1. /\ OnlyCall(k) /\ Ctx(k)' = Ctx(k)
            /\ \/ /\ call[k].rest = <<>>
                  /\ call'[k].pc = "forget" /\ call'[k].result = call[k].result
               \/ /\ goDone[Ctx(k)]
                  /\ call'[k].pc = "forget" /\ call'[k].result = "WithCancellation"
               \/ /\ call[k].rest # <<>> /\ call'[k].rest = call[k].rest
                  /\ call'[k].pc = "task" /\ call'[k].result = call[k].result
        BY <3>4, LoopIs, Zenon DEF Ctx
      <4>2. UNCHANGED <<goDone, failed, due, ran>> /\ At(k, "loop")
        BY <3>4, Zenon DEF Loop, lifeVars, taskVars
      <4>. QED
        BY <4>1, <4>2, NoTask, Zenon DEF Covered, At
    <3>5. ASSUME NEW ok \in BOOLEAN, Task(k, ok) PROVE OnlyCall(k) /\ Covered(k)'
      <4>1. At(k, "task") /\ call[k].rest # <<>> /\ call[k].rest \in Seq(Nat)
        BY <3>5, CallTyped, Zenon DEF Task, Covered
      <4>2. /\ OnlyCall(k) /\ call'[k].pc = "loop" /\ Ctx(k)' = Ctx(k)
            /\ call'[k].rest = Tail(call[k].rest)
            /\ call'[k].result = IF ok THEN call[k].result ELSE "WithErrors"
        BY <3>5, <4>1, TaskIs, Zenon DEF Ctx
      <4>3. ran'[Ctx(k)].tasks = ran[Ctx(k)].tasks \cup {Head(call[k].rest)}
        BY <3>5, <4>1, TaskRan, Zenon DEF TasksBecome
      <4>4. Range(call[k].rest) \subseteq {Head(call[k].rest)} \cup Range(Tail(call[k].rest))
        BY <4>1, HeadOrRest, Zenon
      <4>5. due' = due /\ due[Ctx(k)].tasks \subseteq ran[Ctx(k)].tasks \cup Range(call[k].rest)
        BY <3>5, <4>1, Zenon DEF Task, Covered
      <4>6. due'[Ctx(k)].tasks \subseteq ran'[Ctx(k)].tasks \cup Range(call'[k].rest)
        BY <4>2, <4>3, <4>4, <4>5, Zenon
      <4>7. failed'[Ctx(k)] = (failed[Ctx(k)] \/ ~ok) /\ failed[Ctx(k)] \in BOOLEAN
        BY <3>5, Zenon DEF Task, TearTyped, TasksTyped
      <4>8. call[k].result # "WithCancellation" /\ (call[k].result = "WithErrors") = failed[Ctx(k)]
        BY <4>1, Zenon DEF Covered
      <4>9. /\ call'[k].result # "WithCancellation"
            /\ (call'[k].result = "WithErrors") = failed'[Ctx(k)]
        BY <4>2, <4>7, <4>8, Zenon
      <4>. QED
        BY <4>2, <4>6, <4>9, Zenon DEF Covered, At
    <3>6. CASE ForgetTasks(k)
      <4>1. /\ OnlyCall(k) /\ call'[k].pc = "store" /\ Ctx(k)' = Ctx(k)
            /\ call'[k].result = call[k].result
        BY <3>6, GoIs, Zenon DEF ForgetTasks, Ctx
      <4>2. UNCHANGED <<goDone, failed, due, ran>> /\ At(k, "forget")
        BY <3>6, Zenon DEF ForgetTasks, lifeVars
      <4>. QED
        BY <4>1, <4>2, Zenon DEF Covered, At
    <3>7. CASE Go(k, "swap") \/ Go(k, "cancel")
      BY <3>7, GoIs DEF Covered, At
    <3>. QED
      BY <1>4, <3>1, <3>2, <3>3, <3>4, <3>5, <3>6, <3>7, Zenon
      DEF Cancelling, Claim, StoreStatus, Swap, Cancel, Ungraceful
  <2>. QED
    BY <2>1, <2>2, Zenon DEF TasksCovered, OnlyCall
<1>. QED
  BY <1>2, <1>3, <1>4, Zenon DEF Next, Environment

-----------------------------------------------------------------------------
(* The cancellation a status reports was asked for.                        *)

\* Every step keeps it.
LEMMA AskedNext ==
    ASSUME TearTyped, TasksCovered, CancellationAsked, Next
    PROVE  CancellationAsked'
<1>. Monotone
  BY MonotoneNext, ZenonT(60)
<1>. \A k \in Cancellers : Ctx(k) \in Ctxs
  BY CallTyped, Zenon
<1>1. ASSUME NEW c \in Ctxs, TearDown(c) PROVE CancellationAsked'
  <2>1. UNCHANGED call
    BY <1>1, Zenon
     DEF TearDown, NoticeDone, ReadStatus, InterruptStatus, LockAndDestroy, FinishDestroy,
                Microtask, EndTearDown, MarkTornDown
  <2>2. \A x \in Ctxs : tear'[x] # "wait" => done'[x]
    <3>1. CASE NoticeDone(c)
      BY <3>1, ZenonT(60) DEF NoticeDone, TearGo, CancellationAsked, TearTyped, LifeTyped
    <3>2. \A x \in Ctxs : ~NoticeDone(c) => (tear'[x] # "wait" => tear[x] # "wait")
      BY <1>1, ZenonT(60)
       DEF TearDown, ReadStatus, InterruptStatus, LockAndDestroy, FinishDestroy, Microtask,
                  EndTearDown, MarkTornDown, TearGo, lifeVars, TearTyped, LifeTyped
    <3>. QED
      BY <3>1, <3>2, Zenon DEF CancellationAsked, Monotone
  <2>. QED
    BY <2>1, <2>2, Zenon DEF CancellationAsked, At, Ctx, Monotone
<1>2. ASSUME NEW k \in Cancellers, OnlyCall(k), UNCHANGED tear, ~At(k, "ungraceful")'
      PROVE  CancellationAsked'
  BY <1>2, ZenonT(60) DEF CancellationAsked, At, Ctx, OnlyCall, Monotone
<1>3. ASSUME NEW k \in Cancellers, Cancelling(k) PROVE CancellationAsked'
  <2>1. OnlyCall(k) /\ ~At(k, "ungraceful")'
    <3>1. CASE RangeTasks(k)
      BY <3>1, RangeIs, Zenon DEF At
    <3>2. CASE Loop(k)
      BY <3>2, LoopIs, Zenon DEF At
    <3>3. ASSUME NEW ok \in BOOLEAN, Task(k, ok) PROVE OnlyCall(k) /\ ~At(k, "ungraceful")'
      <4>1. call[k].rest # <<>>
        BY <3>3, Zenon DEF Task, TasksCovered, Covered
      <4>. QED
        BY <3>3, <4>1, TaskIs, Zenon DEF At
    <3>4. CASE Return(k)
      BY <3>4, ReturnIs, Zenon DEF At
    <3>5. CASE Go(k, "range") \/ Go(k, "store") \/ Go(k, "swap") \/ Go(k, "cancel")
      BY <3>5, GoIs DEF At
    <3>. QED
      BY <1>3, <3>1, <3>2, <3>3, <3>4, <3>5, Zenon
      DEF Cancelling, Claim, ForgetTasks, StoreStatus, Swap, Cancel, Ungraceful
  <2>2. UNCHANGED tear
    BY <1>3, Zenon
     DEF Cancelling, Claim, RangeTasks, Loop, Task, ForgetTasks, StoreStatus, Swap, Cancel,
                Ungraceful, lifeVars
  <2>. QED
    BY <1>2, <2>1, <2>2, Zenon
<1>4. ASSUME NEW c \in Ctxs, OnGracefulTearDown(c) \/ OnDone(c) PROVE CancellationAsked'
  BY <1>4, ZenonT(60) DEF OnGracefulTearDown, OnDone, lifeVars, CancellationAsked, At, Ctx
<1>5. ASSUME NEW c \in Ctxs, NEW k \in Cancellers, CancelGracefully(k, c)
      PROVE  CancellationAsked'
  BY <1>2, <1>5, BeginIs, Zenon DEF CancelGracefully, lifeVars, At
<1>6. ASSUME NEW c \in Ctxs, NEW k \in Cancellers, CancelUngracefully(k, c)
      PROVE  CancellationAsked'
  <2>1. OnlyCall(k) /\ Ctx(k)' = c
    BY <1>6, BeginIs, Zenon DEF CancelUngracefully, Ctx
  <2>2. UNCHANGED tear /\ done'[c]
    BY <1>6, Zenon DEF CancelUngracefully, TearTyped, LifeTyped
  <2>. QED
    BY <2>1, <2>2, ZenonT(60) DEF CancellationAsked, At, Ctx, OnlyCall, Monotone
<1>. QED
  BY <1>1, <1>3, <1>4, <1>5, <1>6, Zenon DEF Next, Environment

-----------------------------------------------------------------------------
(* The microtasks of a teardown have been called or are left.              *)

\* What is known of the microtasks of x stays.
SameMicros(x) ==
    /\ tornDown'[x] = tornDown[x] /\ tear'[x] = tear[x] /\ locked'[x] = locked[x]
    /\ expired'[x] = expired[x]
    /\ tear[x] \in {"destroy", "micros"} => micros'[x] = micros[x]
    /\ due'[x].micros = due[x].micros /\ ran'[x].micros = ran[x].micros

\* Only the teardown goroutine takes the lock and calls the microtasks, and only while it does not
\* hold the lock are others registered.
LEMMA MicrosOfOthers ==
    ASSUME TearTyped, MicrosCovered, NEW c \in Ctxs, NEW x \in Ctxs, x # c, TearDown(c)
    PROVE  SameMicros(x)
<1>1. CASE LockAndDestroy(c)
  BY <1>1, LockDue, ZenonT(60)
   DEF LockAndDestroy, MicrosBecome, SameMicros, TearGo, TearTyped, LifeTyped
<1>2. CASE Microtask(c)
  <2>1. ran'[x].micros = ran[x].micros
    BY <1>2, MicroRan, Zenon DEF MicrosBecome
  <2>2. micros'[x] = micros[x] /\ expired'[x] = expired[x]
    BY <1>2, Zenon DEF Microtask, TearTyped, TasksTyped
  <2>. QED
    BY <1>2, <2>1, <2>2, Zenon DEF Microtask, SameMicros, lifeVars
<1>. QED
  BY <1>1, <1>2, ZenonT(60)
   DEF TearDown, NoticeDone, ReadStatus, InterruptStatus, FinishDestroy, EndTearDown,
      MarkTornDown, TearGo, taskVars, SameMicros, TearTyped, LifeTyped

LEMMA MicrosOfCalls ==
    ASSUME TearTyped, TasksCovered, MicrosCovered, NEW k \in Cancellers, NEW x \in Ctxs, Cancelling(k)
    PROVE  SameMicros(x)
<1>1. CASE RangeTasks(k)
  BY <1>1, RangeDue, Zenon DEF RangeTasks, TasksBecome, SameMicros, lifeVars
<1>2. ASSUME NEW ok \in BOOLEAN, Task(k, ok) PROVE SameMicros(x)
  <2>1. call[k].rest # <<>>
    BY <1>2, Zenon DEF Task, TasksCovered, Covered
  <2>2. ran'[x].micros = ran[x].micros
    BY <1>2, <2>1, TaskRan, Zenon DEF TasksBecome
  <2>. QED
    BY <1>2, <2>2, Zenon DEF Task, SameMicros, lifeVars
<1>. QED
  BY <1>1, <1>2, Zenon
   DEF Cancelling, Claim, Loop, ForgetTasks, StoreStatus, Swap, Cancel, Ungraceful,
                    lifeVars, taskVars, SameMicros

LEMMA MicrosOfEnvironment ==
    ASSUME TearTyped, MicrosCovered, NEW c \in Ctxs, NEW x \in Ctxs,
           \/ OnGracefulTearDown(c) \/ OnDone(c)
           \/ \E k \in Cancellers : CancelGracefully(k, c) \/ CancelUngracefully(k, c)
    PROVE  SameMicros(x)
<1>1. CASE OnDone(c)
  <2>1. tear[x] \in {"destroy", "micros"} => micros'[x] = micros[x]
    BY <1>1, Zenon DEF OnDone, MicrosCovered, MicrosOf, TearTyped, TasksTyped
  <2>. QED
    BY <1>1, <2>1, Zenon DEF OnDone, SameMicros, lifeVars
<1>. QED
  BY <1>1, Zenon
   DEF OnGracefulTearDown, CancelGracefully, CancelUngracefully, lifeVars, taskVars, SameMicros

\* Every step keeps it.
LEMMA MicrosNext ==
    ASSUME TearTyped, TasksCovered, MicrosCovered, Next
    PROVE  MicrosCovered'
<1>1. ASSUME NEW x \in Ctxs, SameMicros(x) PROVE MicrosOf(x)'
  BY <1>1, Zenon DEF MicrosCovered, MicrosOf, SameMicros
<1>2. ASSUME NEW c \in Ctxs, TearDown(c) PROVE MicrosOf(c)'
  <2>. MicrosOf(c)
    BY Zenon DEF MicrosCovered
  <2>. USE DEF MicrosOf, TearGo, TearTyped, LifeTyped
  <2>1. CASE NoticeDone(c)
    BY <2>1, Zenon DEF NoticeDone
  <2>2. CASE ReadStatus(c)
    BY <2>2, Zenon DEF ReadStatus
  <2>3. CASE InterruptStatus(c)
    BY <2>3, Zenon DEF InterruptStatus
  <2>4. CASE LockAndDestroy(c)
    <3>1. due'[c].micros = Range(micros[c]) /\ UNCHANGED micros
      BY <2>4, LockDue, Zenon DEF LockAndDestroy, MicrosBecome
    <3>2. tear'[c] = "destroy" /\ locked'[c] /\ ~tornDown'[c]
      BY <2>4, Zenon DEF LockAndDestroy
    <3>. QED
      BY <3>1, <3>2, Zenon
  <2>5. CASE FinishDestroy(c)
    BY <2>5, Zenon DEF FinishDestroy, taskVars
  <2>6. CASE Microtask(c)
    <3>1. ran'[c].micros = ran[c].micros \cup {Head(micros[c])}
      BY <2>6, MicroRan, Zenon DEF MicrosBecome
    <3>2. micros[c] \in Seq(Nat) /\ micros[c] # <<>> /\ expired \in [Ctxs -> BOOLEAN]
      BY <2>6, Zenon DEF Microtask, TasksTyped
    <3>3. Range(micros[c]) \subseteq {Head(micros[c])} \cup Range(Tail(micros[c]))
      BY <3>2, HeadOrRest, Zenon
    <3>4. (micros'[c] = Tail(micros[c]) /\ expired'[c] = expired[c]) \/ expired'[c] = TRUE
      BY <2>6, <3>2, ZenonT(60) DEF Microtask, TasksTyped
    <3>5. due' = due /\ tear'[c] = "micros" /\ UNCHANGED <<tornDown, locked>> /\ tear[c] = "micros"
      BY <2>6, Zenon DEF Microtask, lifeVars
    <3>6. ~expired'[c] => due'[c].micros \subseteq ran'[c].micros \cup Range(micros'[c])
      BY <3>1, <3>3, <3>4, <3>5, Zenon
    <3>. QED
      BY <3>5, <3>6, Zenon
  <2>7. CASE EndTearDown(c)
    BY <2>7, NoTask, Zenon DEF EndTearDown, taskVars
  <2>8. CASE MarkTornDown(c)
    BY <2>8, Zenon DEF MarkTornDown, taskVars
  <2>. QED
    BY <1>2, <2>1, <2>2, <2>3, <2>4, <2>5, <2>6, <2>7, <2>8, ZenonT(60) DEF TearDown
<1>3. ASSUME NEW c \in Ctxs, TearDown(c) PROVE MicrosCovered'
  BY <1>1, <1>2, <1>3, MicrosOfOthers, Zenon DEF MicrosCovered
<1>4. ASSUME NEW k \in Cancellers, Cancelling(k) PROVE MicrosCovered'
  BY <1>1, <1>4, MicrosOfCalls, Zenon DEF MicrosCovered
<1>5. CASE Environment(Cancellers, Ctxs)
  BY <1>1, <1>5, MicrosOfEnvironment, Zenon DEF MicrosCovered, Environment
<1>. QED
  BY <1>3, <1>4, <1>5, Zenon DEF Next

-----------------------------------------------------------------------------
(* The status is true.                                                     *)

\* Every step keeps it.
LEMMA StatusNext ==
    ASSUME TearTyped, OneTearing, TasksCovered, CancellationAsked, StatusTrue, Next
    PROVE  StatusTrue'
<1>. Monotone
  BY MonotoneNext, Zenon
<1>. DEFINE T(c) == /\ status[c] \in {"TearedDown", "WithErrors"} =>
                         /\ due[c].tasks \subseteq ran[c].tasks
                         /\ (status[c] = "WithErrors") = failed[c]
                    /\ status[c] = "WithCancellation" => done[c] \/ goDone[c]
<1>0. \A x \in Ctxs : T(x)
  BY Zenon DEF StatusTrue
<1>1. ASSUME NEW x \in Ctxs, SameTasks(x), status'[x] = status[x] PROVE T(x)'
  BY <1>0, <1>1, Zenon DEF SameTasks, Monotone
<1>2. ASSUME NEW x \in Ctxs, status'[x] = "TearingDown" PROVE T(x)'
  BY <1>2, Zenon
<1>3. ASSUME NEW x \in Ctxs, status'[x] = "WithCancellation",
             status[x] = "WithCancellation" \/ done[x] PROVE T(x)'
  BY <1>0, <1>3, Zenon DEF Monotone
<1>4. ASSUME NEW c \in Ctxs, TearDown(c), NEW x \in Ctxs PROVE T(x)'
  <2>1. SameTasks(x)
    BY <1>4, TasksOfAll, Zenon
  <2>2. CASE InterruptStatus(c) /\ x = c
    BY <1>3, <2>2, Zenon DEF InterruptStatus, CancellationAsked, TearTyped, LifeTyped
  <2>3. ~(InterruptStatus(c) /\ x = c) => status'[x] = status[x]
    BY <1>4, Zenon
     DEF TearDown, NoticeDone, ReadStatus, InterruptStatus, LockAndDestroy, FinishDestroy,
                Microtask, EndTearDown, MarkTornDown, lifeVars, TearTyped, LifeTyped
  <2>. QED
    BY <1>1, <2>1, <2>2, <2>3, Zenon
<1>5. ASSUME NEW k \in Cancellers, Cancelling(k), NEW x \in Ctxs PROVE T(x)'
  <2>1. Ctx(k) \in Ctxs /\ call[k].result \in Outcomes
    BY CallTyped, Zenon
  <2>2. CASE StoreStatus(k) /\ x = Ctx(k)
    <3>1. status'[x] = call[k].result /\ UNCHANGED <<due, ran, failed, done, goDone>>
      BY <2>2, Zenon DEF StoreStatus, taskVars, TearTyped, LifeTyped
    <3>2. \/ call[k].result = "WithCancellation" /\ goDone[x]
          \/ /\ call[k].result # "WithCancellation"
             /\ (call[k].result = "WithErrors") = failed[x]
             /\ due[x].tasks \subseteq ran[x].tasks
      BY <2>2, Zenon DEF StoreStatus, TasksCovered, Covered
    <3>. QED
      BY <3>1, <3>2, Zenon
  <2>3. CASE Ungraceful(k) /\ status'[x] # status[x]
    <3>1. x = Ctx(k) /\ status'[x] = "WithCancellation" /\ done[x]
      BY <2>1, <2>3, ZenonT(60) DEF Ungraceful, Interrupted, CancellationAsked, TearTyped, LifeTyped
    <3>. QED
      BY <1>3, <3>1, Zenon
  <2>4. CASE Claim(k) /\ status'[x] # status[x]
    BY <1>2, <2>1, <2>4, Zenon DEF Claim, TearTyped, LifeTyped
  <2>5. CASE status'[x] = status[x] /\ ~(Tearing(k) /\ Ctx(k) = x)
    BY <1>1, <1>5, <2>5, TasksOfOthers, Zenon
  <2>6. CASE status'[x] = status[x] /\ Tearing(k) /\ Ctx(k) = x
    <3>1. status[x] \in {"TearingDown", "WithCancellation"}
      BY <2>6, Zenon DEF OneTearing
    <3>. QED
      BY <1>2, <1>3, <2>6, <3>1, Zenon
  <2>7. \/ StoreStatus(k) /\ x = Ctx(k)
        \/ Ungraceful(k) \/ Claim(k)
        \/ status'[x] = status[x]
    BY <1>5, <2>1, Zenon
     DEF Cancelling, RangeTasks, Loop, Task, ForgetTasks, StoreStatus, Swap, Cancel,
                      lifeVars, TearTyped, LifeTyped
  <2>. QED
    BY <2>2, <2>3, <2>4, <2>5, <2>6, <2>7, Zenon
<1>6. ASSUME NEW c \in Ctxs, NEW x \in Ctxs,
             \/ OnGracefulTearDown(c) \/ OnDone(c)
             \/ \E k \in Cancellers : CancelGracefully(k, c) \/ CancelUngracefully(k, c)
      PROVE  T(x)'
  <2>1. SameTasks(x)
    BY <1>6, TasksOfAll, Zenon
  <2>2. UNCHANGED status
    BY <1>6, Zenon DEF OnGracefulTearDown, OnDone, CancelGracefully, CancelUngracefully, lifeVars
  <2>. QED
    BY <1>1, <2>1, <2>2, Zenon
<1>. HIDE DEF T
<1>7. \A x \in Ctxs : T(x)'
  BY <1>4, <1>5, <1>6, Zenon DEF Next, Environment
<1>. QED
  BY <1>7, Zenon DEF StatusTrue, T

-----------------------------------------------------------------------------
(* Teardowns.                                                              *)

\* The invariant holds at first.
LEMMA TearInit == ContextInit => TearInv
<1>. SUFFICES ASSUME ContextInit PROVE TearInv
  BY Zenon
<1>1. Idle \in Calls /\ Idle.pc = "idle"
  BY RootAssumption DEF Idle, Calls, Outcomes
<1>2. \A k \in Cancellers : call[k].pc = "idle"
  BY <1>1, Zenon DEF ContextInit
<1>3. TearTyped
  BY <1>1 DEF ContextInit, TearTyped, LifeTyped, TasksTyped, Lists, Outcomes
<1>4. OneTearing /\ TasksCovered /\ CancellationAsked
  BY <1>2, Zenon DEF ContextInit, OneTearing, TasksCovered, Covered, CancellationAsked, Tearing, At
<1>5. MicrosCovered /\ StatusTrue
  BY Zenon DEF ContextInit, MicrosCovered, MicrosOf, StatusTrue
<1>. QED
  BY <1>3, <1>4, <1>5, Zenon DEF TearInv

\* Every step keeps it, whatever the step does to the rest of the state.
LEMMA TearNext ==
    ASSUME TearInv, Next \/ UNCHANGED tearVars
    PROVE  TearInv'
<1>. USE DEF TearInv
<1>1. CASE Next
  <2>1. TearTyped'
    BY <1>1, TypedTearDown, TypedCancelling, TypedEnvironment, Zenon DEF Next, Environment
  <2>. QED
    BY <1>1, <2>1, OneTearingNext, CoveredNext, AskedNext, MicrosNext, StatusNext, Zenon
<1>2. CASE UNCHANGED tearVars
  BY <1>2, ZenonT(60)
   DEF tearVars, lifeVars, taskVars, TearTyped, LifeTyped, TasksTyped, OneTearing, Tearing,
      TasksCovered, Covered, CancellationAsked, MicrosCovered, MicrosOf, StatusTrue, At, Ctx
<1>. QED
  BY <1>1, <1>2, Zenon

\* The invariant says more than that a teardown is complete.
LEMMA TearComplete == TearInv => TearDownComplete
BY Zenon DEF TearInv, MicrosCovered, MicrosOf, TearDownComplete, MicrotasksCalled

\* What a teardown says and does is complete, on contexts cancelled by any goroutines, gracefully
\* or not, with their parents or alone: the status stored by gracefullyTearDown is true of the
\* tasks, and the microtasks were called unless their deadline passed.
THEOREM ContextsTearDown == Spec => []TearDownComplete
<1>1. Spec => []TearInv
  <2>1. TearInv /\ [Next]_ctxVars => TearInv'
    BY TearNext, Zenon DEF ctxVars, tearVars
  <2>. QED
    BY <2>1, TearInit, PTL DEF Spec
<1>. QED
  BY <1>1, TearComplete, PTL
==============================================================================
