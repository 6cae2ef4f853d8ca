---------------------------- MODULE Transaction ----------------------------
(***************************************************************************)
(* Transactions of an execution context (internal/core/transaction.go).    *)
(*                                                                         *)
(* A transaction is started on its context, collects effects and end       *)
(* callbacks, and is finished once, by Commit or by Rollback.  The methods *)
(* may be called by any goroutine holding the transaction (Callers); Start *)
(* spawns a goroutine that rolls the transaction back when the context is  *)
(* done or the timeout elapses (the actor is the transaction itself), and  *)
(* the teardown goroutine of the context rolls back the current            *)
(* transaction (the actor Ctx).                                            *)
(*                                                                         *)
(* pc is the point where an actor's call stands; on, op and arg are the    *)
(* transaction, the finishing operation and the argument of the call.  A   *)
(* step is what a goroutine does between two points where another one can  *)
(* observe or change the same state: reads of the atomics `finished` and   *)
(* `finishing` are not protected by tx.lock, everything else is.           *)
(***************************************************************************)
EXTENDS Naturals, Sequences, FiniteSets

CONSTANTS
    Callers,    \* goroutines calling the methods of the transactions
    Starters,   \* the callers that start transactions
    Txs,        \* transactions created on the context
    ReadonlyTxs, \* the readonly ones
    Keys,       \* keys of end callbacks
    Effects,    \* effects (FS changes, ...)
    Ctx,        \* the teardown goroutine of the context
    None        \* nil pointer, unlocked mutex, absent argument

Actors == Callers \cup Txs \cup {Ctx}

ASSUME ActorsAssumption ==
    /\ Starters \subseteq Callers
    /\ ReadonlyTxs \subseteq Txs
    /\ Callers \cap Txs = {}
    /\ Ctx \notin Callers \cup Txs
    /\ None \notin Actors \cup Keys \cup Effects
    /\ Keys \cap Effects = {}

VARIABLES
    started,         \* [Txs -> BOOLEAN]: startTime is set
    finishing,       \* [Txs -> BOOLEAN]: atomic flag
    finished,        \* [Txs -> BOOLEAN]: the Finished() channel is closed
    lock,            \* [Txs -> Actors \cup {None}]: holder of tx.lock
    effects,         \* [Txs -> Seq(Effects)]
    endCallbackFns,  \* [Txs -> SUBSET Keys]: registered keys
    fnsNil,          \* [Txs -> BOOLEAN]: the map endCallbackFns is nil
    todo,            \* [Txs -> SUBSET Keys]: callbacks the finisher's loop has left
    idx,             \* [Txs -> Nat]: effects the finisher's loop has passed
    currentTx,       \* ctx.currentTx
    ctxDone,         \* the context is done
    applied,         \* SUBSET Effects: effects whose `applied` flag is set
    pc, on, op, arg, \* functions of Actors: the call every goroutine has in progress
    \* what callers observed
    accepted,        \* [Txs -> SUBSET Keys]: OnEnd returned nil
    due,             \* [Txs -> SUBSET Keys]: registered when the finisher took the lock
    calls            \* [Txs -> [Keys -> Seq(Outcomes)]]: outcomes passed to the callbacks

txVars == <<started, finishing, finished, lock, effects, endCallbackFns, fnsNil, todo, idx>>
ctxVars == <<currentTx, ctxDone>>
obsVars == <<accepted, due, calls>>
callVars == <<pc, on, op, arg>>
vars == <<txVars, ctxVars, applied, callVars, obsVars>>

Outcomes == {"success", "failure"}

\* The success argument Commit and Rollback pass to the end callbacks.
Outcome(operation) == IF operation = "commit" THEN "success" ELSE "failure"

Invoke(a, point, t, operation, argument) ==
    /\ pc' = [pc EXCEPT ![a] = point]
    /\ on' = [on EXCEPT ![a] = t]
    /\ op' = [op EXCEPT ![a] = operation]
    /\ arg' = [arg EXCEPT ![a] = argument]

Goto(a, point) ==
    /\ pc' = [pc EXCEPT ![a] = point]
    /\ UNCHANGED <<on, op, arg>>

\* A caller's method returned; the goroutines of the runtime end with their call.
Return(a) == Invoke(a, IF a \in Callers THEN "idle" ELSE "done", None, None, None)

Init ==
    /\ started = [t \in Txs |-> FALSE]
    /\ finishing = [t \in Txs |-> FALSE]
    /\ finished = [t \in Txs |-> FALSE]
    /\ lock = [t \in Txs |-> None]
    /\ effects = [t \in Txs |-> <<>>]
    /\ endCallbackFns = [t \in Txs |-> {}]
    /\ fnsNil = [t \in Txs |-> FALSE]
    /\ todo = [t \in Txs |-> {}]
    /\ idx = [t \in Txs |-> 0]
    /\ currentTx = None
    /\ ctxDone = FALSE
    /\ applied = {}
    /\ pc = [a \in Actors |-> IF a \in Txs THEN "unborn" ELSE "idle"]
    /\ on = [a \in Actors |-> None]
    /\ op = [a \in Actors |-> None]
    /\ arg = [a \in Actors |-> None]
    /\ accepted = [t \in Txs |-> {}]
    /\ due = [t \in Txs |-> {}]
    /\ calls = [t \in Txs |-> [k \in Keys |-> <<>>]]

-----------------------------------------------------------------------------
(* Start.  The callers that pass the unprotected checks take tx.lock; the  *)
(* check of ctx.currentTx and its assignment by setTx are separate steps   *)
(* because tx.lock does not protect the context's field.                   *)

StartCheck(p, t) ==
    /\ p \in Starters
    /\ pc[p] = "idle"
    /\ ~finishing[t]
    /\ Invoke(p, "startLock", t, None, None)
    /\ UNCHANGED <<txVars, ctxVars, applied, obsVars>>

\* Both tests panic: ErrTransactionAlreadyStarted, ErrCtxAlreadyHasTransaction.
StartLocked(p) ==
    LET t == on[p] IN
    /\ pc[p] = "startLock"
    /\ lock[t] = None
    /\ IF started[t] \/ currentTx # None
       THEN /\ Return(p)
            /\ UNCHANGED lock
       ELSE /\ Goto(p, "attach")
            /\ lock' = [lock EXCEPT ![t] = p]
    /\ UNCHANGED <<started, finishing, finished, effects, endCallbackFns, fnsNil, todo, idx,
                   ctxVars, applied, obsVars>>

StartAttach(p) ==
    LET t == on[p] IN
    /\ pc[p] = "attach"
    /\ started' = [started EXCEPT ![t] = TRUE]
    /\ currentTx' = t
    /\ lock' = [lock EXCEPT ![t] = None]
    /\ pc' = [pc EXCEPT ![p] = "idle", ![t] = "watch"]
    /\ on' = [on EXCEPT ![p] = None]
    /\ UNCHANGED <<op, arg, finishing, finished, effects, endCallbackFns, fnsNil, todo, idx,
                   ctxDone, applied, obsVars>>

-----------------------------------------------------------------------------
(* OnEnd and AddEffect: the state is checked before tx.lock is taken and   *)
(* not again after.                                                        *)

OnEndCheck(p, t, k) ==
    /\ p \in Callers
    /\ pc[p] = "idle"
    /\ started[t]
    /\ ~finishing[t]
    /\ Invoke(p, "onEndLock", t, None, k)
    /\ UNCHANGED <<txVars, ctxVars, applied, obsVars>>

\* A write to the nil map panics; a second registration of k is refused.
OnEndLocked(p) ==
    LET t == on[p]
        k == arg[p]
    IN
    /\ pc[p] = "onEndLock"
    /\ lock[t] = None
    /\ Return(p)
    /\ IF fnsNil[t] \/ k \in endCallbackFns[t]
       THEN UNCHANGED <<endCallbackFns, accepted>>
       ELSE /\ endCallbackFns' = [endCallbackFns EXCEPT ![t] = @ \cup {k}]
            /\ accepted' = [accepted EXCEPT ![t] = @ \cup {k}]
    /\ UNCHANGED <<started, finishing, finished, lock, effects, fnsNil, todo, idx,
                   ctxVars, applied, due, calls>>

\* The enumerated effects are fresh and reversible: an irreversible one is refused.
AddEffectCheck(p, t, e) ==
    /\ p \in Callers
    /\ pc[p] = "idle"
    /\ started[t]
    /\ ~finishing[t]
    /\ t \notin ReadonlyTxs
    /\ \A u \in Txs : \A i \in 1..Len(effects[u]) : effects[u][i] # e
    /\ \A q \in Actors : arg[q] # e
    /\ Invoke(p, "addEffectLock", t, None, e)
    /\ UNCHANGED <<txVars, ctxVars, applied, obsVars>>

AddEffectLocked(p) ==
    LET t == on[p] IN
    /\ pc[p] = "addEffectLock"
    /\ lock[t] = None
    /\ effects' = [effects EXCEPT ![t] = Append(@, arg[p])]
    /\ Return(p)
    /\ UNCHANGED <<started, finishing, finished, lock, endCallbackFns, fnsNil, todo, idx,
                   ctxVars, applied, obsVars>>

-----------------------------------------------------------------------------
(* Commit and Rollback.                                                    *)

\* Mutant: the flag is stored, not compared and swapped.
CompareAndSwapAlways(a, t, operation) ==
    /\ finishing' = [finishing EXCEPT ![t] = TRUE]
    /\ Invoke(a, "finishLock", t, operation, None)

\* finishing.CompareAndSwap(false, true) by actor a; a finished transaction has
\* `finishing` set, so both early returns of the code are the other outcome.
CompareAndSwap(a, t, operation) ==
    /\ ~finishing[t]
    /\ finishing' = [finishing EXCEPT ![t] = TRUE]
    /\ Invoke(a, "finishLock", t, operation, None)

CallCommit(p, t) ==
    /\ p \in Callers
    /\ pc[p] = "idle"
    /\ started[t]
    /\ CompareAndSwap(p, t, "commit")
    /\ UNCHANGED <<started, finished, lock, effects, endCallbackFns, fnsNil, todo, idx,
                   ctxVars, applied, obsVars>>

CallRollback(p, t) ==
    /\ p \in Callers
    /\ pc[p] = "idle"
    /\ started[t]
    /\ CompareAndSwap(p, t, "rollback")
    /\ UNCHANGED <<started, finished, lock, effects, endCallbackFns, fnsNil, todo, idx,
                   ctxVars, applied, obsVars>>

\* Mutant: the goroutine has no timeout.
WatchNoTimeout(t) ==
    /\ pc[t] = "watch"
    /\ ctxDone
    /\ \/ CompareAndSwap(t, t, "rollback")
       \/ /\ finishing[t]
          /\ Return(t)
          /\ UNCHANGED finishing
    /\ UNCHANGED <<started, finished, lock, effects, endCallbackFns, fnsNil, todo, idx,
                   ctxVars, applied, obsVars>>

\* The goroutine spawned by Start: context done, or timeout (which may elapse at
\* any time).  The rollback of a transaction that is already finishing is refused.
Watch(t) ==
    /\ pc[t] = "watch"
    /\ \/ CompareAndSwap(t, t, "rollback")
       \/ /\ finishing[t]
          /\ Return(t)
          /\ UNCHANGED finishing
    /\ UNCHANGED <<started, finished, lock, effects, endCallbackFns, fnsNil, todo, idx,
                   ctxVars, applied, obsVars>>

CtxCancel ==
    /\ ~ctxDone
    /\ ctxDone' = TRUE
    /\ UNCHANGED <<txVars, currentTx, applied, callVars, obsVars>>

\* The teardown goroutine reads ctx.currentTx, then rolls it back.
TearDownReadTx ==
    /\ pc[Ctx] = "idle"
    /\ ctxDone
    /\ IF currentTx = None
       THEN Return(Ctx)
       ELSE Invoke(Ctx, "tearDown", currentTx, None, None)
    /\ UNCHANGED <<txVars, ctxVars, applied, obsVars>>

TearDownRollback ==
    LET t == on[Ctx] IN
    /\ pc[Ctx] = "tearDown"
    /\ \/ CompareAndSwap(Ctx, t, "rollback")
       \/ /\ finishing[t]
          /\ Return(Ctx)
          /\ UNCHANGED finishing
    /\ UNCHANGED <<started, finished, lock, effects, endCallbackFns, fnsNil, todo, idx,
                   ctxVars, applied, obsVars>>

FinishLock(a) ==
    LET t == on[a] IN
    /\ pc[a] = "finishLock"
    /\ lock[t] = None
    /\ lock' = [lock EXCEPT ![t] = a]
    /\ todo' = [todo EXCEPT ![t] = endCallbackFns[t]]
    /\ due' = [due EXCEPT ![t] = todo'[t]]
    /\ idx' = [idx EXCEPT ![t] = 0]
    /\ Goto(a, IF op[a] = "commit" THEN "apply" ELSE "callbacks")
    /\ UNCHANGED <<started, finishing, finished, effects, endCallbackFns, fnsNil,
                   ctxVars, applied, accepted, calls>>

\* Commit applies the effects in order; at the first error it leaves for the loop
\* that calls the callbacks without recovering.
ApplyEffect(a) ==
    LET t == on[a] IN
    /\ pc[a] = "apply"
    /\ idx[t] < Len(effects[t])
    /\ \/ /\ applied' = applied \cup {effects[t][idx[t] + 1]}
          /\ idx' = [idx EXCEPT ![t] = @ + 1]
          /\ UNCHANGED callVars
       \/ /\ Goto(a, "errCallbacks")
          /\ UNCHANGED <<applied, idx>>
    /\ UNCHANGED <<started, finishing, finished, lock, effects, endCallbackFns, fnsNil, todo,
                   ctxVars, obsVars>>

EffectsApplied(a) ==
    LET t == on[a] IN
    /\ pc[a] = "apply"
    /\ idx[t] = Len(effects[t])
    /\ Goto(a, "callbacks")
    /\ UNCHANGED <<txVars, ctxVars, applied, obsVars>>

\* Mutant: a panic of a callback ends the loop.
CallEndCallbackNoRecover(a, k) ==
    LET t == on[a] IN
    /\ pc[a] = "callbacks"
    /\ k \in todo[t]
    /\ \E rest \in {todo[t] \ {k}, {}} : todo' = [todo EXCEPT ![t] = rest]
    /\ calls' = [calls EXCEPT ![t][k] = Append(@, Outcome(op[a]))]
    /\ UNCHANGED <<started, finishing, finished, lock, effects, endCallbackFns, fnsNil, idx,
                   ctxVars, applied, callVars, accepted, due>>

\* One iteration over the map, in any order.  A panic of the callback is recovered.
CallEndCallback(a, k) ==
    LET t == on[a] IN
    /\ pc[a] = "callbacks"
    /\ k \in todo[t]
    /\ todo' = [todo EXCEPT ![t] = @ \ {k}]
    /\ calls' = [calls EXCEPT ![t][k] = Append(@, Outcome(op[a]))]
    /\ UNCHANGED <<started, finishing, finished, lock, effects, endCallbackFns, fnsNil, idx,
                   ctxVars, applied, callVars, accepted, due>>

CallbacksCalled(a) ==
    LET t == on[a] IN
    /\ pc[a] = "callbacks"
    /\ todo[t] = {}
    /\ endCallbackFns' = [endCallbackFns EXCEPT ![t] = {}]
    /\ fnsNil' = [fnsNil EXCEPT ![t] = TRUE]
    /\ Goto(a, IF op[a] = "commit" THEN "detach" ELSE "reverse")
    /\ UNCHANGED <<started, finishing, finished, lock, effects, todo, idx,
                   ctxVars, applied, obsVars>>

\* The loop of the error path: success is true, and a panic leaves the loop.
CallErrCallback(a, k) ==
    LET t == on[a] IN
    /\ pc[a] = "errCallbacks"
    /\ k \in todo[t]
    /\ calls' = [calls EXCEPT ![t][k] = Append(@, "success")]
    /\ \/ /\ todo' = [todo EXCEPT ![t] = @ \ {k}]
          /\ UNCHANGED callVars
       \/ /\ todo' = [todo EXCEPT ![t] = {}]
          /\ Goto(a, "detach")
    /\ UNCHANGED <<started, finishing, finished, lock, effects, endCallbackFns, fnsNil, idx,
                   ctxVars, applied, accepted, due>>

ErrCallbacksCalled(a) ==
    LET t == on[a] IN
    /\ pc[a] = "errCallbacks"
    /\ todo[t] = {}
    /\ Goto(a, "detach")
    /\ UNCHANGED <<txVars, ctxVars, applied, obsVars>>

\* Rollback reverses the effects in order and stops at the first error.
ReverseEffect(a) ==
    LET t == on[a] IN
    /\ pc[a] = "reverse"
    /\ idx[t] < Len(effects[t])
    /\ \/ /\ applied' = applied \ {effects[t][idx[t] + 1]}
          /\ idx' = [idx EXCEPT ![t] = @ + 1]
          /\ UNCHANGED callVars
       \/ /\ Goto(a, "detach")
          /\ UNCHANGED <<applied, idx>>
    /\ UNCHANGED <<started, finishing, finished, lock, effects, endCallbackFns, fnsNil, todo,
                   ctxVars, obsVars>>

EffectsReversed(a) ==
    LET t == on[a] IN
    /\ pc[a] = "reverse"
    /\ idx[t] = Len(effects[t])
    /\ Goto(a, "detach")
    /\ UNCHANGED <<txVars, ctxVars, applied, obsVars>>

\* Mutant: the context keeps its reference to the transaction.
FinishDetachNoSetTx(a) ==
    /\ pc[a] = "detach"
    /\ Goto(a, "close")
    /\ UNCHANGED <<txVars, ctxVars, applied, obsVars>>

\* The deferred function: setTx(nil), then the channel is closed and the lock released.
FinishDetach(a) ==
    /\ pc[a] = "detach"
    /\ currentTx' = None
    /\ Goto(a, "close")
    /\ UNCHANGED <<txVars, ctxDone, applied, obsVars>>

FinishClose(a) ==
    LET t == on[a] IN
    /\ pc[a] = "close"
    /\ finished' = [finished EXCEPT ![t] = TRUE]
    /\ lock' = [lock EXCEPT ![t] = None]
    /\ Return(a)
    /\ UNCHANGED <<started, finishing, effects, endCallbackFns, fnsNil, todo, idx,
                   ctxVars, applied, obsVars>>

-----------------------------------------------------------------------------
Finish(a) ==
    \/ FinishLock(a)
    \/ ApplyEffect(a)
    \/ EffectsApplied(a)
    \/ \E k \in Keys : CallEndCallback(a, k)
    \/ CallbacksCalled(a)
    \/ \E k \in Keys : CallErrCallback(a, k)
    \/ ErrCallbacksCalled(a)
    \/ ReverseEffect(a)
    \/ EffectsReversed(a)
    \/ FinishDetach(a)
    \/ FinishClose(a)

\* The rest of a method call that a caller has begun.
Proceed(p) ==
    \/ StartLocked(p)
    \/ StartAttach(p)
    \/ OnEndLocked(p)
    \/ AddEffectLocked(p)

CallMethod(p, t) ==
    \/ StartCheck(p, t)
    \/ \E k \in Keys : OnEndCheck(p, t, k)
    \/ \E e \in Effects : AddEffectCheck(p, t, e)
    \/ CallCommit(p, t)
    \/ CallRollback(p, t)

Next ==
    \/ \E p \in Callers, t \in Txs : CallMethod(p, t)
    \/ \E p \in Callers : Proceed(p)
    \/ \E t \in Txs : Watch(t)
    \/ CtxCancel
    \/ TearDownReadTx
    \/ TearDownRollback
    \/ \E a \in Actors : Finish(a)

Spec == Init /\ [][Next]_vars

\* Goroutines that can run do run, effects and callbacks return, and the timer of
\* the goroutine spawned by Start fires.  No caller has to commit or roll back.
Fairness ==
    /\ \A p \in Callers : WF_vars(Proceed(p))
    /\ \A t \in Txs : WF_vars(Watch(t))
    /\ \A a \in Actors : WF_vars(Finish(a))

FairSpec == Spec /\ Fairness

-----------------------------------------------------------------------------
(* Properties.                                                             *)

FinishPcs == {"finishLock", "apply", "callbacks", "errCallbacks", "reverse", "detach", "close"}

CallPcs == {"startLock", "attach", "onEndLock", "addEffectLock", "tearDown"}

Pcs == FinishPcs \cup CallPcs \cup {"idle", "unborn", "watch", "done"}

CallsTyped ==
    /\ pc \in [Actors -> Pcs]
    /\ on \in [Actors -> Txs \cup {None}]
    /\ op \in [Actors -> {"commit", "rollback", None}]
    /\ arg \in [Actors -> Keys \cup Effects \cup {None}]
    /\ \A a \in Actors :
        /\ pc[a] \in FinishPcs \cup CallPcs => on[a] \in Txs
        /\ pc[a] \in FinishPcs => op[a] \in {"commit", "rollback"}
        /\ pc[a] = "onEndLock" => arg[a] \in Keys
        /\ pc[a] = "addEffectLock" => arg[a] \in Effects

\* Type correctness of the state; no method runs on a nil transaction.
TypeOK ==
    /\ started \in [Txs -> BOOLEAN]
    /\ finishing \in [Txs -> BOOLEAN]
    /\ finished \in [Txs -> BOOLEAN]
    /\ lock \in [Txs -> Actors \cup {None}]
    /\ effects \in [Txs -> Seq(Effects)]
    /\ endCallbackFns \in [Txs -> SUBSET Keys]
    /\ fnsNil \in [Txs -> BOOLEAN]
    /\ todo \in [Txs -> SUBSET Keys]
    /\ idx \in [Txs -> Nat]
    /\ currentTx \in Txs \cup {None}
    /\ ctxDone \in BOOLEAN
    /\ applied \in SUBSET Effects
    /\ CallsTyped
    /\ accepted \in [Txs -> SUBSET Keys]
    /\ due \in [Txs -> SUBSET Keys]
    /\ calls \in [Txs -> [Keys -> Seq(Outcomes)]]

\* However Commit, Rollback, the timeout and the teardown of the context race, every
\* end callback is called at most once and all the callbacks of a transaction are
\* given the same success value.
EndCallbacksAgree ==
    \A t \in Txs : \A k \in Keys :
        /\ Len(calls[t][k]) <= 1
        /\ \A l \in Keys : calls[t][k] # <<>> /\ calls[t][l] # <<>> => calls[t][k] = calls[t][l]

\* Once Finished() is closed no end callback is called any more and no effect is
\* applied or reversed: waiters of Finished() see the final state.
FinishedIsFinal ==
    [][\A t \in Txs : finished[t] =>
         /\ calls'[t] = calls[t]
         /\ \A i \in 1..Len(effects[t]) : effects[t][i] \in applied <=> effects[t][i] \in applied'
         /\ finished'[t]]_vars

\* When the end of the transaction went through the recovering loop, every callback
\* registered when the finisher took the lock has been called, panics or not.
DueCallbacksCalled ==
    \A t \in Txs : finished[t] /\ fnsNil[t] =>
        \A k \in due[t] : calls[t][k] # <<>>

\* With one goroutine starting transactions, a running transaction is the one the
\* context returns, and the context never returns a finished one.
CurrentTxIsRunning ==
    /\ \A t \in Txs : started[t] /\ ~finishing[t] => currentTx = t
    /\ currentTx # None => started[currentTx] /\ ~finished[currentTx]

\* A started transaction ends, by its timeout if nobody finishes it (Start).
StartedFinishes == \A t \in Txs : started[t] ~> finished[t]

\* OnEnd: the callback "will be called on the end of the transacion".
AcceptedCallbacksCalled ==
    \A t \in Txs : finished[t] => \A k \in accepted[t] : calls[t][k] # <<>>

\* A panic in a callback function does not prevent other callbacks to be called.
PanicSparesOtherCallbacks ==
    \A t \in Txs : finished[t] => \A k \in due[t] : calls[t][k] # <<>>

\* A callback is told "success" only by a commit that applied all the effects.
SuccessMeansEffectsApplied ==
    \A t \in Txs : ~finished[t] /\ (\E k \in Keys : calls[t][k] = <<"success">>) =>
        \A i \in 1..Len(effects[t]) : effects[t][i] \in applied

\* Calling OnEnd or AddEffect once the transaction is finishing is invalid.
RefusedOnceFinishing ==
    [][\A t \in Txs : finishing[t] => effects'[t] = effects[t] /\ accepted'[t] = accepted[t]]_vars

\* Start panics with ErrCtxAlreadyHasTransaction: a context has at most one
\* running transaction.
OneTxPerContext ==
    \A t, u \in Txs : started[t] /\ ~finishing[t] /\ started[u] /\ ~finishing[u] => t = u

-----------------------------------------------------------------------------
(* What a transaction promises to its users, and the refinement mapping.   *)

\* The decision taken on t, once a compare-and-swap succeeded.
Status(t) ==
    IF finished[t] THEN "ended"
    ELSE IF \E a \in Actors : pc[a] \in FinishPcs /\ on[a] = t
         THEN op[CHOOSE a \in Actors : pc[a] \in FinishPcs /\ on[a] = t]
         ELSE IF started[t] THEN "running" ELSE "created"

Abs == INSTANCE AbstractTransaction
         WITH status <- [t \in Txs |-> Status(t)],
              told <- [t \in Txs |-> [k \in Keys |-> IF calls[t][k] = <<>> THEN "nothing" ELSE calls[t][k][1]]]

\* The interleaved methods implement atomic decisions: running, then committing or
\* rolling back once and for all, each callback told at most once and in agreement
\* with the decision, then ended.
ImplementsAbstract == Abs!Spec
=============================================================================
