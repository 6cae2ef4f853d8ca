-------------------------- MODULE SmartLockProofs --------------------------
(***************************************************************************)
(* SmartLock keeps live modules apart, for any number of modules and       *)
(* goroutines.  The exclusion is strengthened by what the lock records: a  *)
(* goroutine between Lock and Unlock runs for the recorded holder, or for  *)
(* a module that is ousted; and an ousted module stays ousted.             *)
(***************************************************************************)
EXTENDS SmartLock, TLAPS

Places == {"idle", "fast", "unshared", "slow", "poll", "cancel", "inside", "panicked"}

Types ==
    /\ holderState \in States \cup {None}
    /\ ctxDone \in [States -> BOOLEAN]
    /\ pc \in [Goroutines -> Places]
    /\ prevHolder \in [Goroutines -> States \cup {None}]
    /\ \A g \in Goroutines : prevHolder[g] # None => pc[g] = "cancel"

HoldersRecorded ==
    \A g \in Goroutines : HasLock(g) => holderState = StateOf[g] \/ Ousted(StateOf[g])

IInv == Types /\ HoldersRecorded /\ LiveExclusion

-----------------------------------------------------------------------------
\* A step that takes no lock keeps the invariant if modules stay ousted and the
\* recorded holder stays, or no goroutine of a live module relied on it.
LEMMA NobodyEnters ==
    ASSUME IInv, Types',
           \A s \in States : Ousted(s) => Ousted(s)',
           \A g \in Goroutines : HasLock(g)' => HasLock(g),
           \A g \in Goroutines : HasLock(g)' /\ holderState = StateOf[g]
                                    => holderState' = holderState \/ Ousted(StateOf[g])
    PROVE  IInv'
<1>1. \A g \in Goroutines : StateOf[g] \in States
  BY StatesAssumption, Zenon
<1>2. HoldersRecorded'
  <2>. SUFFICES ASSUME NEW g \in Goroutines, HasLock(g)'
                PROVE  holderState' = StateOf[g] \/ Ousted(StateOf[g])'
    BY Zenon DEF HoldersRecorded
  <2>1. holderState = StateOf[g] \/ Ousted(StateOf[g])
    BY Zenon DEF IInv, HoldersRecorded
  <2>2. Ousted(StateOf[g]) => Ousted(StateOf[g])'
    BY <1>1, Zenon
  <2>. QED BY <2>1, <2>2, Zenon
<1>3. LiveExclusion'
  <2>. SUFFICES ASSUME NEW g \in Goroutines, NEW h \in Goroutines, g # h, HasLock(g)', HasLock(h)'
                PROVE  Ousted(StateOf[g])' \/ Ousted(StateOf[h])'
    BY Zenon DEF LiveExclusion
  <2>1. Ousted(StateOf[g]) \/ Ousted(StateOf[h])
    BY Zenon DEF IInv, LiveExclusion
  <2>. QED BY <1>1, <2>1, Zenon
<1>. QED BY <1>2, <1>3, Zenon DEF IInv

\* A goroutine takes the lock: keeps the invariant if the module it takes it from, if
\* any, is ousted.
LEMMA Enters ==
    ASSUME IInv, Types', NEW g \in Goroutines, NEW old \in States \cup {None},
           holderState = old, old # StateOf[g], holderState' = StateOf[g],
           old # None => Ousted(old)',
           \A s \in States : Ousted(s) => Ousted(s)',
           \A h \in Goroutines \ {g} : HasLock(h)' => HasLock(h)
    PROVE  IInv'
<1>1. \A h \in Goroutines : StateOf[h] \in States
  BY StatesAssumption, Zenon
<1>2. ASSUME NEW h \in Goroutines \ {g}, HasLock(h)'
      PROVE  Ousted(StateOf[h])'
  <2>1. holderState = StateOf[h] \/ Ousted(StateOf[h])
    BY <1>2, Zenon DEF IInv, HoldersRecorded
  <2>2. CASE holderState = StateOf[h]
    BY <1>1, <2>2, StatesAssumption, Zenon
  <2>3. CASE Ousted(StateOf[h])
    BY <1>1, <2>3, Zenon
  <2>. QED BY <2>1, <2>2, <2>3, Zenon
<1>3. HoldersRecorded'
  BY <1>2, Zenon DEF HoldersRecorded
<1>4. LiveExclusion'
  BY <1>2, Zenon DEF LiveExclusion
<1>. QED BY <1>3, <1>4, Zenon DEF IInv

\* While the contexts and the modules being cancelled are left alone, the same modules
\* are ousted.
LEMMA SameOusted ==
    ASSUME UNCHANGED <<ctxDone, prevHolder>>
    PROVE  \A s \in States : Ousted(s) => Ousted(s)'
BY Zenon DEF Ousted

\* Moving a goroutine that is not cancelling anybody keeps the types.
LEMMA GotoTyped ==
    ASSUME Types, NEW g \in Goroutines, NEW place \in Places, Goto(g, place),
           pc[g] # "cancel", UNCHANGED <<ctxDone, prevHolder>>,
           holderState' \in States \cup {None}
    PROVE  /\ Types'
           /\ pc'[g] = place
           /\ \A h \in Goroutines \ {g} : pc'[h] = pc[h]
<1>1. /\ pc' \in [Goroutines -> Places]
      /\ pc'[g] = place
      /\ \A h \in Goroutines \ {g} : pc'[h] = pc[h]
  BY Zenon DEF Types, Goto
<1>2. \A h \in Goroutines : prevHolder'[h] # None => pc'[h] = "cancel"
  BY <1>1, Zenon DEF Types
<1>. QED BY <1>1, <1>2, Zenon DEF Types

-----------------------------------------------------------------------------
\* A step that only moves one goroutine to a place outside the lock.
LEMMA MoveKeeps ==
    ASSUME IInv, NEW g \in Goroutines, NEW place \in Places \ {"inside", "cancel"}, Goto(g, place),
           pc[g] # "cancel", UNCHANGED <<holderState, ctxDone, prevHolder>>
    PROVE  IInv'
<1>1. Types' /\ pc'[g] = place /\ \A h \in Goroutines \ {g} : pc'[h] = pc[h]
  BY GotoTyped, Zenon DEF IInv, Types
<1>2. \A h \in Goroutines : HasLock(h)' => HasLock(h)
  BY <1>1, Zenon DEF HasLock
<1>. QED BY <1>1, <1>2, SameOusted, NobodyEnters, Zenon

\* A goroutine acquires a lock that nobody holds, or whose holder is done.
LEMMA AcquireKeeps ==
    ASSUME IInv, NEW g \in Goroutines, Goto(g, "inside"), pc[g] # "cancel",
           Acquire(g, FALSE), UNCHANGED <<ctxDone, prevHolder>>,
           holderState # StateOf[g],
           holderState \in {None} \cup {s \in States : ctxDone[s]}
    PROVE  IInv'
<1>1. holderState' = StateOf[g] /\ StateOf[g] \in States
  BY StatesAssumption, Zenon DEF Acquire
<1>2. Types' /\ \A h \in Goroutines \ {g} : pc'[h] = pc[h]
  BY <1>1, GotoTyped, Zenon DEF IInv, Places
<1>3. \A h \in Goroutines \ {g} : HasLock(h)' => HasLock(h)
  BY <1>2, Zenon DEF HasLock
<1>4. PICK old \in {None} \cup {s \in States : ctxDone[s]} : old = holderState
  BY Zenon
<1>5. old # None => Ousted(old)'
  BY <1>4, Zenon DEF Ousted
<1>. QED BY <1>1, <1>2, <1>3, <1>4, <1>5, SameOusted, Enters, Zenon

\* A goroutine takes the lock over: the previous holder is being cancelled.
LEMMA TakeoverKeeps ==
    ASSUME IInv, NEW g \in Goroutines, PollTakeover(g)
    PROVE  IInv'
<1>1. /\ holderState \in States /\ holderState # StateOf[g] /\ pc[g] = "poll"
      /\ holderState' = StateOf[g] /\ ctxDone' = ctxDone
      /\ prevHolder' = [prevHolder EXCEPT ![g] = holderState]
      /\ pc' = [pc EXCEPT ![g] = "cancel"]
  BY Zenon DEF PollTakeover, PollHeld, Acquire, Goto, IInv, Types
<1>2. prevHolder[g] = None
  BY <1>1, Zenon DEF IInv, Types
<1>3. Types'
  <2>1. holderState' \in States
    BY <1>1, StatesAssumption, Zenon
  <2>2. prevHolder' \in [Goroutines -> States \cup {None}] /\ pc' \in [Goroutines -> Places]
    BY <1>1, Zenon DEF IInv, Types, Places
  <2>3. \A h \in Goroutines : prevHolder'[h] # None => pc'[h] = "cancel"
    BY <1>1, Zenon DEF IInv, Types
  <2>. QED BY <1>1, <2>1, <2>2, <2>3, Zenon DEF IInv, Types
<1>4. \A s \in States : Ousted(s) => Ousted(s)'
  <2>1. \A h \in Goroutines \ {g} : prevHolder'[h] = prevHolder[h]
    BY <1>1, Zenon DEF IInv, Types
  <2>. QED BY <1>1, <1>2, <2>1, StatesAssumption, Zenon DEF Ousted
<1>5. PICK old \in States : old = holderState
  BY <1>1, Zenon
<1>6. Ousted(old)'
  <2>1. prevHolder'[g] = old
    BY <1>1, <1>5, Zenon DEF IInv, Types
  <2>. QED BY <2>1, Zenon DEF Ousted
<1>7. \A h \in Goroutines \ {g} : HasLock(h)' => HasLock(h)
  BY <1>1, Zenon DEF HasLock, IInv, Types
<1>. QED BY <1>1, <1>3, <1>4, <1>5, <1>6, <1>7, Enters, Zenon

\* The end of a cancellation: the module stays ousted.
LEMMA CancelKeeps ==
    ASSUME IInv, NEW g \in Goroutines, CancelGracefully(g) \/ CancelIgnored(g)
    PROVE  IInv'
<1>1. /\ pc[g] = "cancel" /\ holderState' = holderState
      /\ pc' = [pc EXCEPT ![g] = "inside"]
      /\ prevHolder' = [prevHolder EXCEPT ![g] = None]
  BY Zenon DEF CancelGracefully, CancelIgnored, CancelReturns, Goto
<1>2. \/ ctxDone' = [ctxDone EXCEPT ![prevHolder[g]] = TRUE]
      \/ /\ ctxDone' = ctxDone
         /\ \E h \in Goroutines \ {g} : prevHolder[h] = prevHolder[g]
  BY Zenon DEF CancelGracefully, CancelIgnored
<1>3. Types'
  <2>1. prevHolder' \in [Goroutines -> States \cup {None}] /\ pc' \in [Goroutines -> Places]
    BY <1>1, Zenon DEF IInv, Types, Places
  <2>2. \A h \in Goroutines : prevHolder'[h] # None => pc'[h] = "cancel"
    BY <1>1, Zenon DEF IInv, Types
  <2>3. ctxDone' \in [States -> BOOLEAN]
    BY <1>2, Zenon DEF IInv, Types
  <2>. QED BY <1>1, <2>1, <2>2, <2>3, Zenon DEF IInv, Types
<1>4. ASSUME NEW s \in States, Ousted(s)
      PROVE  Ousted(s)'
  <2>1. \A h \in Goroutines \ {g} : prevHolder'[h] = prevHolder[h]
    BY <1>1, Zenon DEF IInv, Types
  <2>2. ctxDone[s] => ctxDone'[s]
    BY <1>2, Zenon DEF IInv, Types
  <2>3. ctxDone'[s] \/ \E h \in Goroutines \ {g} : prevHolder'[h] = s
    BY <1>2, <1>4, <2>1, <2>2, Zenon DEF Ousted, IInv, Types
  <2>. QED BY <2>3, Zenon DEF Ousted
<1>5. \A h \in Goroutines : HasLock(h)' => HasLock(h)
  BY <1>1, Zenon DEF HasLock, IInv, Types
<1>. QED BY <1>1, <1>3, <1>4, <1>5, NobodyEnters, Zenon

\* Unlock releases the lock only if it is recorded for the module of the goroutine: no
\* other goroutine of a live module relies on it.
LEMMA UnlockKeeps ==
    ASSUME IInv, NEW g \in Goroutines, Unlock(g)
    PROVE  IInv'
<1>1. /\ pc[g] = "inside" /\ Goto(g, "idle") /\ UNCHANGED <<ctxDone, prevHolder>>
      /\ holderState' = holderState \/ (holderState' = None /\ holderState = StateOf[g])
  BY Zenon DEF Unlock
<1>2. holderState' \in States \cup {None}
  BY <1>1, Zenon DEF IInv, Types
<1>3. Types' /\ pc'[g] = "idle" /\ \A h \in Goroutines \ {g} : pc'[h] = pc[h]
  BY <1>1, <1>2, GotoTyped, Zenon DEF IInv, Places
<1>4. \A h \in Goroutines : HasLock(h)' => HasLock(h) /\ h # g
  BY <1>3, Zenon DEF HasLock
<1>5. ASSUME NEW h \in Goroutines, HasLock(h)', holderState = StateOf[h],
             holderState' # holderState
      PROVE  Ousted(StateOf[h])
  <2>1. StateOf[g] = StateOf[h] /\ h # g /\ HasLock(g) /\ HasLock(h)
    BY <1>1, <1>4, <1>5, Zenon DEF HasLock
  <2>. QED BY <2>1, Zenon DEF IInv, LiveExclusion
<1>. QED BY <1>1, <1>3, <1>4, <1>5, SameOusted, NobodyEnters, Zenon

-----------------------------------------------------------------------------
\* Every step of a goroutine keeps the invariant.
LEMMA GoroutineKeeps ==
    ASSUME IInv, NEW g \in Goroutines,
           CallLock(g) \/ LockStep(g) \/ UnlockUnshared(g) \/ Unlock(g)
    PROVE  IInv'
<1>1. CASE CallLock(g)
  <2>1. PICK place \in {"fast", "unshared"} : Goto(g, place)
    BY <1>1, Zenon DEF CallLock
  <2>. QED BY <1>1, <2>1, MoveKeeps, Zenon DEF CallLock, Places
<1>2. CASE TryLock(g)
  <2>1. CASE holderState = None
    <3>1. /\ Goto(g, "inside") /\ pc[g] # "cancel" /\ Acquire(g, FALSE)
          /\ UNCHANGED <<ctxDone, prevHolder>>
      BY <1>2, <2>1, Zenon DEF TryLock
    <3>2. holderState # StateOf[g]
      BY <2>1, StatesAssumption, Zenon
    <3>. QED BY <2>1, <3>1, <3>2, AcquireKeeps, Zenon
  <2>2. CASE holderState # None
    <3>1. PICK place \in {"panicked", "slow"} : Goto(g, place)
      BY <1>2, <2>2, Zenon DEF TryLock
    <3>. QED BY <1>2, <2>2, <3>1, MoveKeeps, Zenon DEF TryLock, Places
  <2>. QED BY <2>1, <2>2, Zenon
<1>3. CASE SlowCheckDone(g)
  <2>1. PICK place \in {"panicked", "poll"} : Goto(g, place)
    BY <1>3, Zenon DEF SlowCheckDone
  <2>. QED BY <1>3, <2>1, MoveKeeps, Zenon DEF SlowCheckDone, Places
<1>4. CASE PollReEntry(g)
  BY <1>4, MoveKeeps, Zenon DEF PollReEntry, Places
<1>5. CASE PollAcquire(g)
  BY <1>5, AcquireKeeps, Zenon DEF PollAcquire
<1>6. CASE PollTakeover(g)
  BY <1>6, TakeoverKeeps, Zenon
<1>7. CASE PollAgain(g)
  BY <1>7, MoveKeeps, Zenon DEF PollAgain, PollHeld, Places
<1>8. CASE CancelGracefully(g) \/ CancelIgnored(g)
  BY <1>8, CancelKeeps, Zenon
<1>9. CASE UnlockUnshared(g)
  BY <1>9, MoveKeeps, Zenon DEF UnlockUnshared, Places
<1>10. CASE Unlock(g)
  BY <1>10, UnlockKeeps, Zenon
<1>. QED BY <1>1, <1>2, <1>3, <1>4, <1>5, <1>6, <1>7, <1>8, <1>9, <1>10, Zenon DEF LockStep

\* Steps of the environment move no goroutine.
LEMMA EnvironmentKeeps ==
    ASSUME IInv, UNCHANGED <<holderState, pc, prevHolder>>,
           ctxDone' \in [States -> BOOLEAN], \A s \in States : ctxDone[s] => ctxDone'[s]
    PROVE  IInv'
<1>1. Types'
  BY Zenon DEF IInv, Types
<1>2. \A s \in States : Ousted(s) => Ousted(s)'
  BY Zenon DEF Ousted
<1>3. \A g \in Goroutines : HasLock(g)' => HasLock(g)
  BY Zenon DEF HasLock
<1>. QED BY <1>1, <1>2, <1>3, NobodyEnters, Zenon

\* Two live modules are never both between Lock and Unlock, for any number of modules,
\* goroutines, takeovers and cancellations.
THEOREM LiveModulesExcluded == Spec => []LiveExclusion
<1>1. Init => IInv
  <2>. SUFFICES ASSUME Init PROVE IInv
    BY Zenon
  <2>1. Types
    BY Zenon DEF Init, Types, Places
  <2>2. \A g \in Goroutines : ~HasLock(g)
    BY Zenon DEF Init, HasLock
  <2>. QED BY <2>1, <2>2, Zenon DEF IInv, HoldersRecorded, LiveExclusion
<1>2. IInv /\ [Next]_vars => IInv'
  <2>. SUFFICES ASSUME IInv, [Next]_vars PROVE IInv'
    BY Zenon
  <2>1. CASE Share \/ HoldTimeout \/ UNCHANGED vars
    <3>1. UNCHANGED <<holderState, pc, prevHolder, ctxDone>>
      BY <2>1, Zenon DEF Share, HoldTimeout, vars
    <3>. QED BY <3>1, EnvironmentKeeps, Zenon DEF IInv, Types
  <2>2. ASSUME NEW s \in States, CtxCancel(s)
        PROVE  IInv'
    <3>1. UNCHANGED <<holderState, pc, prevHolder>> /\ ctxDone' = [ctxDone EXCEPT ![s] = TRUE]
      BY <2>2, Zenon DEF CtxCancel
    <3>2. ctxDone' \in [States -> BOOLEAN] /\ \A t \in States : ctxDone[t] => ctxDone'[t]
      BY <3>1, Zenon DEF IInv, Types
    <3>. QED BY <3>1, <3>2, EnvironmentKeeps, Zenon
  <2>3. CASE \E g \in Goroutines : CallLock(g) \/ LockStep(g) \/ UnlockUnshared(g) \/ Unlock(g)
    BY <2>3, GoroutineKeeps, Zenon
  <2>. QED BY <2>1, <2>2, <2>3, Zenon DEF Next
<1>3. IInv => LiveExclusion
  BY Zenon DEF IInv
<1>. QED BY <1>1, <1>2, <1>3, PTL DEF Spec
=============================================================================
