----------------------------- MODULE SmartLock -----------------------------
(***************************************************************************)
(* SmartLock (internal/core/locks.go): the lock of shareable values.  A    *)
(* module (global state) that holds it for too long is cancelled by the    *)
(* next one that wants it, which takes the lock over at once.              *)
(*                                                                         *)
(* Several goroutines may run on behalf of one state, for example its      *)
(* interpreter and the end callbacks of its transactions.  lockLock is     *)
(* held only inside a step.  Calls made inside a synchronized block on the *)
(* value do nothing (state.lockedValues) and are not represented.          *)
(***************************************************************************)
EXTENDS Naturals

CONSTANTS
    Goroutines, States, StateOf,
    Owner,      \* the goroutine that has the value before it is shared
    MaxCalls,   \* bound on the calls of Lock of a goroutine
    None

ASSUME StatesAssumption ==
    /\ StateOf \in [Goroutines -> States]
    /\ Owner \in Goroutines
    /\ None \notin States
    /\ MaxCalls \in Nat

VARIABLES
    isValueShared,
    holderState, takeover,
    expired,    \* the hold has lasted SMART_LOCK_HOLD_TIMEOUT
    ctxDone,    \* [States -> BOOLEAN]
    pc,         \* [Goroutines -> ...]: the place of each goroutine
    prevHolder, \* [Goroutines -> States \cup {None}]: state being cancelled
    calls

vars == <<isValueShared, holderState, takeover, expired, ctxDone, pc, prevHolder, calls>>

Init ==
    /\ isValueShared = FALSE
    /\ holderState = None
    /\ takeover = FALSE
    /\ expired = FALSE
    /\ ctxDone = [s \in States |-> FALSE]
    /\ pc = [g \in Goroutines |-> "idle"]
    /\ prevHolder = [g \in Goroutines |-> None]
    /\ calls = [g \in Goroutines |-> 0]

Goto(g, place) == pc' = [pc EXCEPT ![g] = place]

-----------------------------------------------------------------------------
(* The environment: sharing, the clock, cancellations.                     *)

\* The value is shared by the only goroutine that uses it so far.
Share ==
    /\ ~isValueShared /\ pc[Owner] = "idle"
    /\ isValueShared' = TRUE
    /\ UNCHANGED <<holderState, takeover, expired, ctxDone, pc, prevHolder, calls>>

HoldTimeout ==
    /\ holderState # None /\ ~expired
    /\ expired' = TRUE
    /\ UNCHANGED <<isValueShared, holderState, takeover, ctxDone, pc, prevHolder, calls>>

CtxCancel(s) ==
    /\ ~ctxDone[s]
    /\ ctxDone' = [ctxDone EXCEPT ![s] = TRUE]
    /\ UNCHANGED <<isValueShared, holderState, takeover, expired, pc, prevHolder, calls>>

-----------------------------------------------------------------------------
(* Lock                                                                    *)

\* holderState, takeover and holdStart are set together.
Acquire(g, taking) ==
    /\ holderState' = StateOf[g]
    /\ takeover' = taking
    /\ expired' = FALSE

CallLock(g) ==
    /\ pc[g] = "idle"
    /\ calls[g] < MaxCalls
    /\ isValueShared \/ g = Owner
    /\ calls' = [calls EXCEPT ![g] = @ + 1]
    /\ Goto(g, IF isValueShared THEN "fast" ELSE "unshared")
    /\ UNCHANGED <<isValueShared, holderState, takeover, expired, ctxDone, prevHolder>>

\* tryLockIfNoPressure
TryLock(g) ==
    /\ pc[g] = "fast"
    /\ IF holderState = None
       THEN Acquire(g, FALSE) /\ Goto(g, "inside")
       ELSE /\ Goto(g, IF holderState = StateOf[g] THEN "panicked" ELSE "slow")
            /\ UNCHANGED <<holderState, takeover, expired>>
    /\ UNCHANGED <<isValueShared, ctxDone, prevHolder, calls>>

\* The select on state.Ctx.Done() at the head of the loop.
SlowCheckDone(g) ==
    /\ pc[g] = "slow"
    /\ Goto(g, IF ctxDone[StateOf[g]] THEN "panicked" ELSE "poll")
    /\ UNCHANGED <<isValueShared, holderState, takeover, expired, ctxDone, prevHolder, calls>>

PollReEntry(g) ==
    /\ pc[g] = "poll"
    /\ holderState = StateOf[g]
    /\ Goto(g, "panicked")
    /\ UNCHANGED <<isValueShared, holderState, takeover, expired, ctxDone, prevHolder, calls>>

\* There is no holder, or it is not running.
PollAcquire(g) ==
    /\ pc[g] = "poll"
    /\ holderState # StateOf[g]
    /\ holderState \in {None} \cup {s \in States : ctxDone[s]}
    /\ Acquire(g, FALSE)
    /\ Goto(g, "inside")
    /\ UNCHANGED <<isValueShared, ctxDone, prevHolder, calls>>

PollHeld(g) ==
    /\ pc[g] = "poll"
    /\ holderState \notin {None, StateOf[g]}
    /\ ~ctxDone[holderState]

\* Mutant: holders are never cancelled.
PollTakeoverNever(g) ==
    /\ PollHeld(g) /\ expired
    /\ Goto(g, "slow")
    /\ UNCHANGED <<isValueShared, holderState, takeover, expired, ctxDone, prevHolder, calls>>

\* The holder has held the lock for too long; CancelGracefully is called after lockLock
\* is released.
PollTakeover(g) ==
    /\ PollHeld(g) /\ expired
    /\ prevHolder' = [prevHolder EXCEPT ![g] = holderState]
    /\ Acquire(g, TRUE)
    /\ Goto(g, "cancel")
    /\ UNCHANGED <<isValueShared, ctxDone, calls>>

PollAgain(g) ==
    /\ PollHeld(g) /\ ~expired
    /\ Goto(g, "slow")
    /\ UNCHANGED <<isValueShared, holderState, takeover, expired, ctxDone, prevHolder, calls>>

CancelReturns(g) ==
    /\ Goto(g, "inside")
    /\ prevHolder' = [prevHolder EXCEPT ![g] = None]
    /\ UNCHANGED <<isValueShared, holderState, takeover, expired, calls>>

\* CancelGracefully runs the teardown tasks, then the context is done.
CancelGracefully(g) ==
    /\ pc[g] = "cancel"
    /\ ctxDone' = [ctxDone EXCEPT ![prevHolder[g]] = TRUE]
    /\ CancelReturns(g)

\* Another goroutine is already tearing the context down: the call returns at once.
CancelIgnored(g) ==
    /\ pc[g] = "cancel"
    /\ \E h \in Goroutines \ {g} : pc[h] = "cancel" /\ prevHolder[h] = prevHolder[g]
    /\ CancelReturns(g)
    /\ UNCHANGED ctxDone

-----------------------------------------------------------------------------
(* Unlock                                                                  *)

UnlockUnshared(g) ==
    /\ pc[g] = "unshared"
    /\ Goto(g, "idle")
    /\ UNCHANGED <<isValueShared, holderState, takeover, expired, ctxDone, prevHolder, calls>>

\* Mutant: whoever unlocks releases the lock.
UnlockAnyHolder(g) ==
    /\ pc[g] = "inside"
    /\ takeover' = FALSE
    /\ holderState' = None
    /\ Goto(g, "idle")
    /\ UNCHANGED <<isValueShared, expired, ctxDone, prevHolder, calls>>

\* During a takeover the first Unlock is taken for the previous holder's; the Unlock of
\* a state that is not the holder is ignored.
Unlock(g) ==
    /\ pc[g] = "inside"
    /\ takeover' = FALSE
    /\ holderState' = IF ~takeover /\ holderState = StateOf[g] THEN None ELSE holderState
    /\ Goto(g, "idle")
    /\ UNCHANGED <<isValueShared, expired, ctxDone, prevHolder, calls>>

-----------------------------------------------------------------------------
LockStep(g) ==
    \/ TryLock(g)
    \/ SlowCheckDone(g)
    \/ PollReEntry(g)
    \/ PollAcquire(g)
    \/ PollTakeover(g)
    \/ PollAgain(g)
    \/ CancelGracefully(g)
    \/ CancelIgnored(g)

Next ==
    \/ Share
    \/ HoldTimeout
    \/ \E s \in States : CtxCancel(s)
    \/ \E g \in Goroutines : CallLock(g) \/ LockStep(g) \/ UnlockUnshared(g) \/ Unlock(g)

Spec == Init /\ [][Next]_vars

\* Goroutines inside Lock run and the clock advances; a holder may never unlock.
FairSpec ==
    /\ Spec
    /\ \A g \in Goroutines : WF_vars(LockStep(g))
    /\ WF_vars(HoldTimeout)

-----------------------------------------------------------------------------
(* Properties.                                                             *)

TypeOK ==
    /\ isValueShared \in BOOLEAN
    /\ holderState \in States \cup {None}
    /\ takeover \in BOOLEAN /\ expired \in BOOLEAN
    /\ ctxDone \in [States -> BOOLEAN]
    /\ pc \in [Goroutines -> {"idle", "fast", "unshared", "slow", "poll", "cancel", "inside",
                              "panicked"}]
    /\ prevHolder \in [Goroutines -> States \cup {None}]
    /\ \A g \in Goroutines : pc[g] = "cancel" <=> prevHolder[g] # None
    /\ calls \in [Goroutines -> 0..MaxCalls]

HasLock(g) == pc[g] \in {"inside", "cancel"}

\* The context of the state is cancelled, or a goroutine that took the lock over is
\* cancelling it.
Ousted(s) == ctxDone[s] \/ \E g \in Goroutines : prevHolder[g] = s

\* Of two goroutines between Lock and Unlock, at least one runs for a module that is
\* cancelled because it held the lock: two live modules never both use the value.
LiveExclusion ==
    \A g, h \in Goroutines :
        g # h /\ HasLock(g) /\ HasLock(h) => Ousted(StateOf[g]) \/ Ousted(StateOf[h])

\* Lock returns or panics, even if the holder never unlocks.
LockReturns ==
    \A g \in Goroutines : pc[g] = "fast" ~> pc[g] \in {"inside", "panicked"}

\* "IsHeld tells whether the lock is held": the state recorded as the holder, if it is
\* not cancelled, has a goroutine between Lock and Unlock.
HolderHolds ==
    holderState # None /\ ~Ousted(holderState)
        => \E g \in Goroutines : HasLock(g) /\ StateOf[g] = holderState
=============================================================================
