------------------------- MODULE TransactionProofs -------------------------
(***************************************************************************)
(* The state of Transaction stays typed, a transaction is started before   *)
(* anything else happens to it and locked by one goroutine, and its        *)
(* callbacks agree, for any number of goroutines, transactions, callbacks  *)
(* and effects.                                                            *)
(***************************************************************************)
EXTENDS Transaction, TLAPS

Typed == TypeOK /\ CallsTyped

-----------------------------------------------------------------------------
\* The actors are the callers, the goroutines of the transactions and the teardown.
LEMMA ActorsFacts == Callers \subseteq Actors /\ Txs \subseteq Actors /\ Ctx \in Actors
  BY Zenon DEF Actors

\* Invoke keeps the calls typed when its arguments are proper.
LEMMA InvokeTyped ==
  ASSUME CallsTyped, NEW a \in Actors, NEW point \in Pcs, NEW t \in Txs \cup {None},
         NEW o \in {"commit", "rollback", None}, NEW x \in Keys \cup Effects \cup {None},
         Invoke(a, point, t, o, x),
         point \in FinishPcs \cup CallPcs => t \in Txs,
         point \in FinishPcs => o \in {"commit", "rollback"},
         point = "onEndLock" => x \in Keys,
         point = "addEffectLock" => x \in Effects
  PROVE  CallsTyped'
  BY Zenon DEF CallsTyped, Invoke

\* Returning from a call keeps the calls typed.
LEMMA ReturnTyped ==
  ASSUME CallsTyped, NEW a \in Actors, Return(a)
  PROVE  CallsTyped'
<1> DEFINE point == IF a \in Callers THEN "idle" ELSE "done"
<1>1. point \in Pcs /\ point \notin FinishPcs \cup CallPcs
  BY Zenon DEF Pcs, FinishPcs, CallPcs
<1>2. point # "onEndLock" /\ point # "addEffectLock"
  BY Zenon
<1>3. Invoke(a, point, None, None, None)
  BY Zenon DEF Return
<1> HIDE DEF point
<1> QED BY <1>1, <1>2, <1>3, InvokeTyped, Zenon

\* Moving on inside a finishing call, or inside Start, keeps the calls typed.
LEMMA GotoTyped ==
  ASSUME CallsTyped, NEW a \in Actors, NEW point, Goto(a, point),
         \/ pc[a] \in FinishPcs /\ point \in FinishPcs
         \/ pc[a] = "startLock" /\ point = "attach"
  PROVE  CallsTyped'
  BY ZenonT(60) DEF CallsTyped, Goto, FinishPcs, CallPcs, Pcs

\* A compare-and-swap that succeeds begins a finishing call.
LEMMA SwapTyped ==
  ASSUME Typed, NEW a \in Actors, NEW t \in Txs, NEW o \in {"commit", "rollback"},
         CompareAndSwap(a, t, o)
  PROVE  CallsTyped' /\ finishing' \in [Txs -> BOOLEAN]
<1>1. "finishLock" \in Pcs
  BY Zenon DEF Pcs, FinishPcs
<1>2. Invoke(a, "finishLock", t, o, None) /\ CallsTyped
  BY Zenon DEF CompareAndSwap, Typed
<1>3. CallsTyped'
  BY <1>1, <1>2, InvokeTyped, Zenon
<1>4. finishing' \in [Txs -> BOOLEAN]
  BY Zenon DEF CompareAndSwap, Typed, TypeOK
<1> QED BY <1>3, <1>4, Zenon

-----------------------------------------------------------------------------
\* The state created by newTransaction is typed.
LEMMA TypedInit == Init => Typed
<1> SUFFICES ASSUME Init PROVE Typed
  BY Zenon
<1>1. CallsTyped
  BY Zenon DEF Init, CallsTyped, Pcs, FinishPcs, CallPcs
<1>2. effects \in [Txs -> Seq(Effects)] /\ calls \in [Txs -> [Keys -> Seq(Outcomes)]]
  BY DEF Init
<1>3. /\ lock \in [Txs -> Actors \cup {None}] /\ idx \in [Txs -> Nat]
      /\ currentTx \in Txs \cup {None} /\ ctxDone \in BOOLEAN
  BY Zenon DEF Init
<1> QED BY <1>1, <1>2, <1>3, Zenon DEF Init, Typed, TypeOK, CallsTyped

\* A call of a method by a caller keeps the state typed.
LEMMA TypedCallMethod ==
  ASSUME Typed, NEW p \in Callers, NEW t \in Txs, CallMethod(p, t)
  PROVE  Typed'
<1> USE ActorsFacts
<1>0. CallsTyped
  BY Zenon DEF Typed
<1>1. CASE StartCheck(p, t)
  <2>1. Invoke(p, "startLock", t, None, None)
    BY <1>1, Zenon DEF StartCheck
  <2>2. CallsTyped'
    BY <1>0, <2>1, InvokeTyped, Zenon DEF Pcs, CallPcs, FinishPcs
  <2> QED BY <1>1, <2>2, Zenon DEF StartCheck, Typed, TypeOK, CallsTyped, txVars, ctxVars, obsVars
<1>2. ASSUME NEW k \in Keys, OnEndCheck(p, t, k) PROVE Typed'
  <2>1. Invoke(p, "onEndLock", t, None, k)
    BY <1>2, Zenon DEF OnEndCheck
  <2>2. CallsTyped'
    BY <1>0, <2>1, InvokeTyped, Zenon DEF Pcs, CallPcs, FinishPcs
  <2> QED BY <1>2, <2>2, Zenon DEF OnEndCheck, Typed, TypeOK, CallsTyped, txVars, ctxVars, obsVars
<1>3. ASSUME NEW e \in Effects, AddEffectCheck(p, t, e) PROVE Typed'
  <2>1. Invoke(p, "addEffectLock", t, None, e)
    BY <1>3, Zenon DEF AddEffectCheck
  <2>2. CallsTyped'
    BY <1>0, <2>1, InvokeTyped, Zenon DEF Pcs, CallPcs, FinishPcs
  <2> QED BY <1>3, <2>2, Zenon
           DEF AddEffectCheck, Typed, TypeOK, CallsTyped, txVars, ctxVars, obsVars
<1>4. CASE CallCommit(p, t)
  <2>1. CallsTyped' /\ finishing' \in [Txs -> BOOLEAN]
    BY <1>4, SwapTyped, Zenon DEF CallCommit
  <2> QED BY <1>4, <2>1, Zenon DEF CallCommit, Typed, TypeOK, CallsTyped, ctxVars, obsVars
<1>5. CASE CallRollback(p, t)
  <2>1. CallsTyped' /\ finishing' \in [Txs -> BOOLEAN]
    BY <1>5, SwapTyped, Zenon DEF CallRollback
  <2> QED BY <1>5, <2>1, Zenon DEF CallRollback, Typed, TypeOK, CallsTyped, ctxVars, obsVars
<1> QED BY <1>1, <1>2, <1>3, <1>4, <1>5, Zenon DEF CallMethod

\* The locked part of Start, OnEnd and AddEffect keeps the state typed.
LEMMA TypedProceed ==
  ASSUME Typed, NEW p \in Callers, Proceed(p)
  PROVE  Typed'
<1> USE ActorsFacts
<1>0. CallsTyped
  BY Zenon DEF Typed
<1>1. CASE StartLocked(p)
  <2>1. CallsTyped'
    <3>1. Return(p) \/ (pc[p] = "startLock" /\ Goto(p, "attach"))
      BY <1>1, Zenon DEF StartLocked
    <3>2. CASE Return(p)
      BY <1>0, <3>2, ReturnTyped, Zenon
    <3>3. CASE pc[p] = "startLock" /\ Goto(p, "attach")
      BY <1>0, <3>3, GotoTyped, Zenon
    <3> QED BY <3>1, <3>2, <3>3, Zenon
  <2>2. lock' \in [Txs -> Actors \cup {None}]
    <3>1. lock' = [lock EXCEPT ![on[p]] = p] \/ lock' = lock
      BY <1>1, Zenon DEF StartLocked
    <3>2. lock \in [Txs -> Actors \cup {None}]
      BY Zenon DEF Typed, TypeOK
    <3> QED BY <3>1, <3>2, Zenon
  <2> QED BY <1>1, <2>1, <2>2, Zenon DEF StartLocked, Typed, TypeOK, CallsTyped, ctxVars, obsVars
<1>2. CASE StartAttach(p)
  <2>1. on[p] \in Txs
    BY <1>0, <1>2, Zenon DEF StartAttach, CallsTyped, CallPcs
  <2>2. CallsTyped'
    BY <1>0, <1>2, <2>1, ActorsAssumption, ZenonT(60)
     DEF StartAttach, CallsTyped, Pcs, FinishPcs, CallPcs
  <2>3. /\ lock' \in [Txs -> Actors \cup {None}] /\ started' \in [Txs -> BOOLEAN]
        /\ currentTx' \in Txs \cup {None}
    BY <1>2, <2>1, Zenon DEF StartAttach, Typed, TypeOK
  <2> QED BY <1>2, <2>2, <2>3, Zenon DEF StartAttach, Typed, TypeOK, CallsTyped, obsVars
<1>3. CASE OnEndLocked(p)
  <2>0. Return(p) /\ arg[p] \in Keys
    BY <1>0, <1>3, Zenon DEF OnEndLocked, CallsTyped
  <2>1. CallsTyped'
    BY <1>0, <2>0, ReturnTyped, Zenon
  <2>2. endCallbackFns' \in [Txs -> SUBSET Keys] /\ accepted' \in [Txs -> SUBSET Keys]
    <3>1. /\ \/ endCallbackFns' = [endCallbackFns EXCEPT ![on[p]] = @ \cup {arg[p]}]
             \/ endCallbackFns' = endCallbackFns
          /\ \/ accepted' = [accepted EXCEPT ![on[p]] = @ \cup {arg[p]}]
             \/ accepted' = accepted
      BY <1>3, Zenon DEF OnEndLocked
    <3>2. endCallbackFns \in [Txs -> SUBSET Keys] /\ accepted \in [Txs -> SUBSET Keys]
      BY Zenon DEF Typed, TypeOK
    <3> QED BY <2>0, <3>1, <3>2, SMTT(30)
  <2> QED BY <1>3, <2>1, <2>2, Zenon DEF OnEndLocked, Typed, TypeOK, CallsTyped, ctxVars
<1>4. CASE AddEffectLocked(p)
  <2>0. Return(p) /\ arg[p] \in Effects
    BY <1>0, <1>4, Zenon DEF AddEffectLocked, CallsTyped
  <2>1. CallsTyped'
    BY <1>0, <2>0, ReturnTyped, ZenonT(60)
  <2>2. effects' \in [Txs -> Seq(Effects)]
    <3>1. effects' = [effects EXCEPT ![on[p]] = Append(@, arg[p])]
      BY <1>4, Zenon DEF AddEffectLocked
    <3>2. effects \in [Txs -> Seq(Effects)]
      BY Zenon DEF Typed, TypeOK
    <3>3. \A t \in Txs : Append(effects[t], arg[p]) \in Seq(Effects)
      BY <2>0, <3>2
    <3> QED BY <3>1, <3>2, <3>3, Zenon
  <2> QED BY <1>4, <2>1, <2>2, Zenon
           DEF AddEffectLocked, Typed, TypeOK, CallsTyped, ctxVars, obsVars
<1> QED BY <1>1, <1>2, <1>3, <1>4, Zenon DEF Proceed

\* The rollback by the timeout goroutine or by the teardown keeps the state typed.
LEMMA TypedRuntime ==
  ASSUME Typed, \/ \E t \in Txs : Watch(t)
                \/ CtxCancel \/ TearDownReadTx \/ TearDownRollback
  PROVE  Typed'
<1> USE ActorsFacts
<1>0. CallsTyped
  BY Zenon DEF Typed
<1>1. ASSUME NEW t \in Txs, Watch(t) PROVE Typed'
  <2>1. CallsTyped' /\ finishing' \in [Txs -> BOOLEAN]
    <3>1. CASE CompareAndSwap(t, t, "rollback")
      BY <3>1, SwapTyped, Zenon
    <3>2. CASE Return(t) /\ UNCHANGED finishing
      BY <1>0, <3>2, ReturnTyped, Zenon DEF Typed, TypeOK
    <3> QED BY <1>1, <3>1, <3>2, Zenon DEF Watch
  <2> QED BY <1>1, <2>1, Zenon DEF Watch, Typed, TypeOK, CallsTyped, ctxVars, obsVars
<1>2. CASE CtxCancel
  BY <1>2, Zenon DEF CtxCancel, Typed, TypeOK, CallsTyped, txVars, obsVars, callVars
<1>3. CASE TearDownReadTx
  <2>1. CallsTyped'
    <3>1. CASE currentTx = None
      <4>1. Return(Ctx)
        BY <1>3, <3>1, Zenon DEF TearDownReadTx
      <4> QED BY <1>0, <4>1, ReturnTyped, Zenon
    <3>2. CASE currentTx # None
      <4>1. Invoke(Ctx, "tearDown", currentTx, None, None) /\ currentTx \in Txs
        BY <1>3, <3>2, Zenon DEF TearDownReadTx, Typed, TypeOK
      <4> QED BY <1>0, <4>1, InvokeTyped, Zenon DEF Pcs, CallPcs, FinishPcs
    <3> QED BY <3>1, <3>2, Zenon
  <2> QED BY <1>3, <2>1, Zenon
           DEF TearDownReadTx, Typed, TypeOK, CallsTyped, txVars, ctxVars, obsVars
<1>4. CASE TearDownRollback
  <2>0. on[Ctx] \in Txs
    BY <1>0, <1>4, Zenon DEF TearDownRollback, CallsTyped, CallPcs
  <2>1. CallsTyped' /\ finishing' \in [Txs -> BOOLEAN]
    <3>1. CASE CompareAndSwap(Ctx, on[Ctx], "rollback")
      BY <2>0, <3>1, SwapTyped, Zenon
    <3>2. CASE Return(Ctx) /\ UNCHANGED finishing
      BY <1>0, <3>2, ReturnTyped, Zenon DEF Typed, TypeOK
    <3> QED BY <1>4, <3>1, <3>2, Zenon DEF TearDownRollback
  <2> QED BY <1>4, <2>1, Zenon DEF TearDownRollback, Typed, TypeOK, CallsTyped, ctxVars, obsVars
<1> QED BY <1>1, <1>2, <1>3, <1>4, Zenon

\* A step of a finisher keeps the state typed.
LEMMA TypedFinish ==
  ASSUME Typed, NEW a \in Actors, Finish(a)
  PROVE  Typed'
<1>0. CallsTyped
  BY Zenon DEF Typed
<1>m. ASSUME NEW point \in FinishPcs, pc[a] \in FinishPcs, Goto(a, point) PROVE CallsTyped'
  BY <1>0, <1>m, GotoTyped, Zenon
<1>u. ASSUME UNCHANGED callVars PROVE CallsTyped'
  BY <1>0, <1>u, Zenon DEF CallsTyped, callVars
<1>c. ASSUME NEW k \in Keys, NEW o \in Outcomes, calls' = [calls EXCEPT ![on[a]][k] = Append(@, o)]
      PROVE  calls' \in [Txs -> [Keys -> Seq(Outcomes)]]
  <2>1. calls \in [Txs -> [Keys -> Seq(Outcomes)]]
    BY Zenon DEF Typed, TypeOK
  <2>2. \A t \in Txs : Append(calls[t][k], o) \in Seq(Outcomes)
    BY <2>1
  <2>3. \A t \in Txs : [calls[t] EXCEPT ![k] = Append(@, o)] \in [Keys -> Seq(Outcomes)]
    BY <2>1, <2>2, Zenon
  <2> QED BY <1>c, <2>1, <2>3, Zenon
<1>1. CASE FinishLock(a)
  <2>1. CallsTyped'
    BY <1>1, <1>m, Zenon DEF FinishLock, FinishPcs
  <2>2. /\ lock' \in [Txs -> Actors \cup {None}] /\ todo' \in [Txs -> SUBSET Keys]
        /\ idx' \in [Txs -> Nat]
    BY <1>1, Zenon DEF FinishLock, Typed, TypeOK
  <2>3. due' \in [Txs -> SUBSET Keys]
    <3>1. due' = [due EXCEPT ![on[a]] = todo'[on[a]]] /\ on[a] \in Txs
      BY <1>0, <1>1, Zenon DEF FinishLock, CallsTyped, FinishPcs
    <3>2. due \in [Txs -> SUBSET Keys]
      BY Zenon DEF Typed, TypeOK
    <3> QED BY <2>2, <3>1, <3>2, Zenon
  <2> QED BY <1>1, <2>1, <2>2, <2>3, Zenon DEF FinishLock, Typed, TypeOK, CallsTyped, ctxVars
<1>2. CASE ApplyEffect(a)
  <2>1. CallsTyped'
    BY <1>2, <1>m, <1>u, Zenon DEF ApplyEffect, FinishPcs
  <2>2. on[a] \in Txs
    BY <1>0, <1>2, Zenon DEF ApplyEffect, CallsTyped, FinishPcs
  <2>3. idx' \in [Txs -> Nat] /\ applied' \in SUBSET Effects
    <3>1. /\ idx' = [idx EXCEPT ![on[a]] = @ + 1] \/ idx' = idx
          /\ applied' = applied \cup {effects[on[a]][idx[on[a]] + 1]} \/ applied' = applied
          /\ idx[on[a]] < Len(effects[on[a]])
      BY <1>2, Zenon DEF ApplyEffect
    <3>2. idx \in [Txs -> Nat] /\ applied \in SUBSET Effects /\ effects[on[a]] \in Seq(Effects)
      BY <2>2, Zenon DEF Typed, TypeOK
    <3>3. idx[on[a]] + 1 \in 1..Len(effects[on[a]])
      BY <2>2, <3>1, <3>2, SMTT(30)
    <3>4. effects[on[a]][idx[on[a]] + 1] \in Effects
      <4> DEFINE s == effects[on[a]]  i == idx[on[a]] + 1
      <4>1. s \in Seq(Effects) /\ i \in 1..Len(s)
        BY <3>2, <3>3, Zenon
      <4> HIDE DEF s, i
      <4>2. s[i] \in Effects
        BY <4>1, SMTT(30)
      <4> QED BY <4>2, Zenon DEF s, i
    <3> QED BY <3>1, <3>2, <3>4, SMTT(30)
  <2> QED BY <1>2, <2>1, <2>3, Zenon DEF ApplyEffect, Typed, TypeOK, CallsTyped, ctxVars, obsVars
<1>3. CASE EffectsApplied(a)
  <2>1. CallsTyped'
    BY <1>3, <1>m, Zenon DEF EffectsApplied, FinishPcs
  <2> QED BY <1>3, <2>1, Zenon
          DEF EffectsApplied, Typed, TypeOK, CallsTyped, txVars, ctxVars, obsVars
<1>4. ASSUME NEW k \in Keys, CallEndCallback(a, k) PROVE Typed'
  <2>1. CallsTyped'
    BY <1>4, <1>u, Zenon DEF CallEndCallback
  <2>2. todo' \in [Txs -> SUBSET Keys]
    BY <1>4, Zenon DEF CallEndCallback, Typed, TypeOK
  <2>3. calls' \in [Txs -> [Keys -> Seq(Outcomes)]]
    BY <1>4, <1>c, Zenon DEF CallEndCallback, Outcome, Outcomes
  <2> QED BY <1>4, <2>1, <2>2, <2>3, Zenon DEF CallEndCallback, Typed, TypeOK, CallsTyped, ctxVars
<1>5. CASE CallbacksCalled(a)
  <2>1. CallsTyped'
    BY <1>5, <1>m, Zenon DEF CallbacksCalled, FinishPcs
  <2>2. endCallbackFns' \in [Txs -> SUBSET Keys] /\ fnsNil' \in [Txs -> BOOLEAN]
    BY <1>5, Zenon DEF CallbacksCalled, Typed, TypeOK
  <2> QED BY <1>5, <2>1, <2>2, Zenon
           DEF CallbacksCalled, Typed, TypeOK, CallsTyped, ctxVars, obsVars
<1>6. ASSUME NEW k \in Keys, CallErrCallback(a, k) PROVE Typed'
  <2>1. CallsTyped'
    BY <1>6, <1>m, <1>u, Zenon DEF CallErrCallback, FinishPcs
  <2>2. todo' \in [Txs -> SUBSET Keys]
    <3>1. todo' = [todo EXCEPT ![on[a]] = @ \ {k}] \/ todo' = [todo EXCEPT ![on[a]] = {}]
      BY <1>6, Zenon DEF CallErrCallback
    <3>2. todo \in [Txs -> SUBSET Keys]
      BY Zenon DEF Typed, TypeOK
    <3> QED BY <3>1, <3>2, Zenon
  <2>3. calls' \in [Txs -> [Keys -> Seq(Outcomes)]]
    BY <1>6, <1>c, Zenon DEF CallErrCallback, Outcomes
  <2> QED BY <1>6, <2>1, <2>2, <2>3, Zenon DEF CallErrCallback, Typed, TypeOK, CallsTyped, ctxVars
<1>7. CASE ErrCallbacksCalled(a)
  <2>1. CallsTyped'
    BY <1>7, <1>m, Zenon DEF ErrCallbacksCalled, FinishPcs
  <2> QED BY <1>7, <2>1, Zenon
      DEF ErrCallbacksCalled, Typed, TypeOK, CallsTyped, txVars, ctxVars, obsVars
<1>8. CASE ReverseEffect(a)
  <2>1. CallsTyped'
    BY <1>8, <1>m, <1>u, Zenon DEF ReverseEffect, FinishPcs
  <2>2. idx' \in [Txs -> Nat] /\ applied' \in SUBSET Effects
    <3>1. /\ idx' = [idx EXCEPT ![on[a]] = @ + 1] \/ idx' = idx
          /\ applied' = applied \ {effects[on[a]][idx[on[a]] + 1]} \/ applied' = applied
      BY <1>8, Zenon DEF ReverseEffect
    <3>2. idx \in [Txs -> Nat] /\ applied \in SUBSET Effects
      BY Zenon DEF Typed, TypeOK
    <3> QED BY <3>1, <3>2
  <2> QED BY <1>8, <2>1, <2>2, Zenon DEF ReverseEffect, Typed, TypeOK, CallsTyped, ctxVars, obsVars
<1>9. CASE EffectsReversed(a)
  <2>1. CallsTyped'
    BY <1>9, <1>m, Zenon DEF EffectsReversed, FinishPcs
  <2> QED BY <1>9, <2>1, Zenon
          DEF EffectsReversed, Typed, TypeOK, CallsTyped, txVars, ctxVars, obsVars
<1>10. CASE FinishDetach(a)
  <2>1. CallsTyped'
    BY <1>10, <1>m, Zenon DEF FinishDetach, FinishPcs
  <2> QED BY <1>10, <2>1, Zenon DEF FinishDetach, Typed, TypeOK, CallsTyped, txVars, obsVars
<1>11. CASE FinishClose(a)
  <2>1. CallsTyped'
    BY <1>0, <1>11, ReturnTyped, Zenon DEF FinishClose
  <2>2. finished' \in [Txs -> BOOLEAN] /\ lock' \in [Txs -> Actors \cup {None}]
    BY <1>11, Zenon DEF FinishClose, Typed, TypeOK
  <2> QED BY <1>11, <2>1, <2>2, Zenon DEF FinishClose, Typed, TypeOK, CallsTyped, ctxVars, obsVars
<1> QED BY <1>1, <1>2, <1>3, <1>4, <1>5, <1>6, <1>7, <1>8, <1>9, <1>10, <1>11, Zenon DEF Finish

\* Every step of every goroutine keeps the state typed.
LEMMA TypedNext == Typed /\ [Next]_vars => Typed'
<1> SUFFICES ASSUME Typed, [Next]_vars PROVE Typed'
  BY Zenon
<1>1. CASE UNCHANGED vars
  BY <1>1, Zenon DEF vars, txVars, ctxVars, obsVars, callVars, Typed, TypeOK, CallsTyped
<1> QED BY <1>1, TypedCallMethod, TypedProceed, TypedRuntime, TypedFinish, Zenon DEF Next

\* The state of the transactions stays typed, whatever the interleaving of the
\* callers, the timeout goroutines and the teardown of the context.
THEOREM TypeCorrect == Spec => []TypeOK
<1>1. Spec => []Typed
  BY TypedInit, TypedNext, PTL DEF Spec
<1>2. Typed => TypeOK
  BY Zenon DEF Typed
<1> QED BY <1>1, <1>2, PTL

-----------------------------------------------------------------------------
(* The order of the calls, and tx.lock.                                    *)

Holding == {"attach"} \cup (FinishPcs \ {"finishLock"})

\* A transaction is started before anything else happens to it, and started once
\* because its lock is held from the test of startTime to its assignment.
Ordered ==
    /\ \A t \in Txs : finishing[t] => started[t]
    /\ \A t \in Txs : ~started[t] => pc[t] = "unborn"
    /\ pc[Ctx] = "tearDown" => started[on[Ctx]]
    /\ currentTx # None => started[currentTx]
    /\ \A a \in Actors : pc[a] = "attach" => ~started[on[a]]
    /\ \A a \in Actors : pc[a] \in Holding => lock[on[a]] = a

\* In a step of goroutine a the calls of the others stay where they are.
OthersStay(a) ==
    \A b \in Actors \ {a} :
        pc'[b] = pc[b] /\ on'[b] = on[b] /\ op'[b] = op[b] /\ arg'[b] = arg[b]

LEMMA InvokeIs ==
  ASSUME Typed, NEW a \in Actors, NEW point, NEW t, NEW o, NEW x, Invoke(a, point, t, o, x)
  PROVE  pc'[a] = point /\ on'[a] = t /\ op'[a] = o /\ arg'[a] = x /\ OthersStay(a)
  BY Zenon DEF Typed, CallsTyped, Invoke, OthersStay

LEMMA ReturnIs ==
  ASSUME Typed, NEW a \in Actors, Return(a)
  PROVE  /\ pc'[a] = (IF a \in Callers THEN "idle" ELSE "done")
         /\ on'[a] = None /\ op'[a] = None /\ arg'[a] = None /\ OthersStay(a)
  BY InvokeIs, Zenon DEF Return

LEMMA GotoIs ==
  ASSUME Typed, NEW a \in Actors, NEW point, Goto(a, point)
  PROVE  /\ pc'[a] = point /\ on'[a] = on[a] /\ op'[a] = op[a] /\ arg'[a] = arg[a]
         /\ OthersStay(a)
  BY Zenon DEF Typed, CallsTyped, Goto, OthersStay

\* A step that starts no transaction and takes or releases no lock another one holds.
LEMMA OrderedMoves ==
  ASSUME Ordered, NEW a \in Actors, OthersStay(a), UNCHANGED started, pc[a] # "unborn",
         \A t \in Txs : finishing'[t] => finishing[t] \/ started[t],
         currentTx' \in {currentTx, None},
         \A b \in Actors \ {a} : pc[b] \in Holding => lock'[on[b]] = lock[on[b]],
         pc'[a] = "tearDown" => started[on'[a]],
         pc'[a] = "attach" => ~started[on'[a]],
         pc'[a] \in Holding => lock'[on'[a]] = a
  PROVE  Ordered'
<1>1. Txs \subseteq Actors /\ Ctx \in Actors
  BY ActorsFacts, Zenon
<1>2. \A t \in Txs : ~started'[t] => pc'[t] = "unborn"
  BY <1>1 DEF Ordered, OthersStay
<1>3. pc'[Ctx] = "tearDown" => started'[on'[Ctx]]
  BY <1>1, Zenon DEF Ordered, OthersStay
<1>4. \A b \in Actors : /\ pc'[b] = "attach" => ~started'[on'[b]]
                        /\ pc'[b] \in Holding => lock'[on'[b]] = b
  BY ZenonT(60) DEF Ordered, OthersStay
<1>. QED BY <1>2, <1>3, <1>4, Zenon DEF Ordered

\* A compare-and-swap is done on a started transaction.
LEMMA OrderedSwap ==
  ASSUME Typed, Ordered, NEW a \in Actors, pc[a] # "unborn", NEW t \in Txs, started[t],
         NEW o, CompareAndSwap(a, t, o), UNCHANGED <<started, lock, currentTx>>
  PROVE  Ordered'
<1>1. pc'[a] = "finishLock" /\ OthersStay(a) /\ "finishLock" \notin Holding
  BY InvokeIs, Zenon DEF CompareAndSwap, Holding
<1>2. \A u \in Txs : finishing'[u] <=> finishing[u] \/ u = t
  BY Zenon DEF CompareAndSwap, Typed, TypeOK
<1>. QED BY <1>1, <1>2, OrderedMoves, Zenon

\* Outside of the critical sections no lock is held.
LEMMA OrderedReturn ==
  ASSUME Typed, Ordered, NEW a \in Actors, pc[a] # "unborn", Return(a),
         UNCHANGED <<started, finishing, lock, currentTx>>
  PROVE  Ordered'
<1>1. pc'[a] \in {"idle", "done"} /\ OthersStay(a)
  BY ReturnIs, Zenon
<1>2. pc'[a] \notin Holding
  BY <1>1, Zenon DEF Holding, FinishPcs
<1>. QED BY <1>1, <1>2, OrderedMoves, Zenon

LEMMA OrderedCallMethod ==
  ASSUME Typed, Ordered, NEW p \in Callers, NEW t \in Txs, CallMethod(p, t)
  PROVE  Ordered'
<1>0. p \in Actors
  BY ActorsFacts, Zenon
<1>1. CASE StartCheck(p, t) \/ (\E k \in Keys : OnEndCheck(p, t, k))
           \/ (\E e \in Effects : AddEffectCheck(p, t, e))
  <2>1. /\ \E x : \/ Invoke(p, "startLock", t, None, x)
                  \/ Invoke(p, "onEndLock", t, None, x)
                  \/ Invoke(p, "addEffectLock", t, None, x)
        /\ pc[p] = "idle" /\ UNCHANGED <<started, finishing, lock, currentTx>>
    BY <1>1, Zenon DEF StartCheck, OnEndCheck, AddEffectCheck, txVars, ctxVars
  <2>2. OthersStay(p) /\ pc'[p] \in {"startLock", "onEndLock", "addEffectLock"}
    BY <1>0, <2>1, InvokeIs, Zenon
  <2>3. pc'[p] \notin Holding
    BY <2>2, Zenon DEF Holding, FinishPcs
  <2>. QED BY <1>0, <2>1, <2>2, <2>3, OrderedMoves, Zenon
<1>2. CASE CallCommit(p, t) \/ CallRollback(p, t)
  <2>1. /\ pc[p] # "unborn" /\ started[t] /\ \E o : CompareAndSwap(p, t, o)
        /\ UNCHANGED <<started, lock, currentTx>>
    BY <1>2, Zenon DEF CallCommit, CallRollback, ctxVars
  <2>. QED BY <1>0, <2>1, OrderedSwap, Zenon
<1>. QED BY <1>1, <1>2, Zenon DEF CallMethod

LEMMA OrderedProceed ==
  ASSUME Typed, Ordered, NEW p \in Callers, Proceed(p)
  PROVE  Ordered'
<1>0. p \in Actors /\ p \notin Txs /\ p # Ctx /\ Txs \subseteq Actors /\ None \notin Actors
  BY ActorsFacts, ActorsAssumption, Zenon
<1>1. CASE StartLocked(p) /\ ~Return(p)
  <2>0. on[p] \in Txs /\ pc[p] = "startLock" /\ lock[on[p]] = None
    BY <1>0, <1>1, Zenon DEF StartLocked, Typed, CallsTyped, CallPcs
  <2>1. /\ Goto(p, "attach") /\ lock' = [lock EXCEPT ![on[p]] = p] /\ ~started[on[p]]
        /\ UNCHANGED <<started, finishing, currentTx>>
    BY <1>1, Zenon DEF StartLocked, ctxVars
  <2>2. pc'[p] = "attach" /\ on'[p] = on[p] /\ OthersStay(p)
    BY <1>0, <2>1, GotoIs, Zenon
  <2>3. lock'[on[p]] = p /\ \A u \in Txs \ {on[p]} : lock'[u] = lock[u]
    BY <2>0, <2>1, Zenon DEF Typed, TypeOK
  <2>4. \A b \in Actors \ {p} : pc[b] \in Holding => on[b] \in Txs \ {on[p]}
    BY <1>0, <2>0, SMTT(30) DEF Ordered, Holding, Typed, CallsTyped, CallPcs
  <2>. QED BY <1>0, <2>0, <2>1, <2>2, <2>3, <2>4, OrderedMoves, Zenon
<1>2. CASE StartAttach(p)
  <2> DEFINE t == on[p]
  <2>0. t \in Txs /\ pc[p] = "attach" /\ ~started[t] /\ lock[t] = p
    BY <1>0, <1>2, Zenon DEF StartAttach, Typed, CallsTyped, CallPcs, Ordered, Holding
  <2>1. /\ t \in Actors /\ t # p /\ t # Ctx
        /\ pc'[p] = "idle" /\ pc'[t] = "watch"
        /\ \A b \in Actors \ {p} : on'[b] = on[b]
        /\ \A b \in Actors \ {p, t} : pc'[b] = pc[b]
    BY <1>0, <1>2, <2>0, ActorsAssumption, ZenonT(60) DEF StartAttach, Typed, CallsTyped
  <2>2. /\ started'[t] /\ \A u \in Txs \ {t} : started'[u] = started[u] /\ lock'[u] = lock[u]
        /\ currentTx' = t /\ UNCHANGED finishing
    BY <1>2, <2>0, Zenon DEF StartAttach, Typed, TypeOK
  <2> HIDE DEF t
  <2>3. \A b \in Actors : pc'[b] \in Holding =>
            b # p /\ b # t /\ pc'[b] = pc[b] /\ on'[b] = on[b] /\ on[b] \in Txs \ {t}
    BY <2>0, <2>1, SMTT(30) DEF Ordered, Holding, FinishPcs, Typed, CallsTyped, CallPcs
  <2>4. \A u \in Txs : (finishing'[u] => started'[u]) /\ (~started'[u] => pc'[u] = "unborn")
    <3>1. \A u \in Txs : u # t => pc'[u] = pc[u] /\ started'[u] = started[u]
      BY <1>0, <2>1, <2>2, Zenon
    <3>2. \A u \in Txs : finishing[u] => started'[u]
      BY <2>2, <3>1, Zenon DEF Ordered
    <3>3. \A u \in Txs : ~started'[u] => pc'[u] = "unborn"
      BY <2>2, <3>1, Zenon DEF Ordered
    <3>. QED BY <2>2, <3>2, <3>3, Zenon
  <2>5. pc'[Ctx] = "tearDown" => started'[on'[Ctx]]
    <3>1. Ctx \in Actors \ {p, t} /\ (pc[Ctx] = "tearDown" => on[Ctx] \in Txs)
      BY <1>0, <2>1, ActorsFacts, Zenon DEF Typed, CallsTyped, CallPcs
    <3>. QED BY <2>1, <2>2, <3>1 DEF Ordered
  <2>6. \A b \in Actors : /\ pc'[b] = "attach" => ~started'[on'[b]]
                          /\ pc'[b] \in Holding => lock'[on'[b]] = b
    <3>1. \A b \in Actors : pc'[b] = "attach" => pc'[b] \in Holding
      BY Zenon DEF Holding
    <3>. QED BY <2>2, <2>3, <3>1 DEF Ordered
  <2>. QED BY <2>2, <2>4, <2>5, <2>6, Zenon DEF Ordered
<1>3. CASE Return(p)
  <2>1. /\ pc[p] \in {"startLock", "onEndLock", "addEffectLock"} \/ StartAttach(p)
        /\ StartAttach(p) \/ UNCHANGED <<started, finishing, currentTx>>
    BY Zenon DEF Proceed, StartLocked, OnEndLocked, AddEffectLocked, ctxVars
  <2>2. ~StartAttach(p) => UNCHANGED lock
    <3>1. StartLocked(p) => UNCHANGED lock \/ Goto(p, "attach")
      BY Zenon DEF StartLocked
    <3>2. pc'[p] = "idle" /\ (Goto(p, "attach") => pc'[p] = "attach")
      BY <1>0, <1>3, ReturnIs, GotoIs, Zenon
    <3>. QED BY <3>1, <3>2, Zenon DEF Proceed, OnEndLocked, AddEffectLocked
  <2>. QED BY <1>0, <1>2, <1>3, <2>1, <2>2, OrderedReturn, Zenon
<1>. QED BY <1>1, <1>2, <1>3, Zenon DEF Proceed, OnEndLocked, AddEffectLocked

LEMMA OrderedRuntime ==
  ASSUME Typed, Ordered, \/ \E t \in Txs : Watch(t)
                         \/ CtxCancel \/ TearDownReadTx \/ TearDownRollback
  PROVE  Ordered'
<1>0. Txs \subseteq Actors /\ Ctx \in Actors
  BY ActorsFacts, Zenon
<1>1. ASSUME NEW a \in Actors, NEW t \in Txs, started[t], pc[a] # "unborn",
             CompareAndSwap(a, t, "rollback") \/ (Return(a) /\ UNCHANGED finishing),
             UNCHANGED <<started, lock, currentTx>>
      PROVE  Ordered'
  BY <1>1, OrderedSwap, OrderedReturn, Zenon
<1>2. ASSUME NEW t \in Txs, Watch(t) PROVE Ordered'
  <2>1. t \in Actors /\ pc[t] # "unborn" /\ started[t] /\ UNCHANGED <<started, lock, currentTx>>
    BY <1>0, <1>2, Zenon DEF Watch, Ordered, ctxVars
  <2>. QED BY <1>1, <1>2, <2>1, Zenon DEF Watch
<1>3. CASE CtxCancel
  BY <1>3, Zenon DEF CtxCancel, Ordered, txVars, callVars
<1>4. CASE TearDownReadTx
  <2>0. pc[Ctx] = "idle" /\ UNCHANGED <<started, finishing, lock, currentTx>>
    BY <1>4, Zenon DEF TearDownReadTx, txVars, ctxVars
  <2>1. CASE Return(Ctx)
    BY <1>0, <2>0, <2>1, OrderedReturn, Zenon
  <2>2. CASE currentTx # None /\ Invoke(Ctx, "tearDown", currentTx, None, None)
    <3>1. /\ pc'[Ctx] = "tearDown" /\ on'[Ctx] = currentTx /\ OthersStay(Ctx)
      BY <1>0, <2>2, InvokeIs, Zenon
    <3>2. started[currentTx] /\ "tearDown" \notin Holding
      BY <2>2, Zenon DEF Ordered, Holding, FinishPcs
    <3>. QED BY <1>0, <2>0, <3>1, <3>2, OrderedMoves, Zenon
  <2>. QED BY <1>4, <2>1, <2>2, Zenon DEF TearDownReadTx
<1>5. CASE TearDownRollback
  <2>1. /\ pc[Ctx] # "unborn" /\ started[on[Ctx]] /\ on[Ctx] \in Txs
        /\ UNCHANGED <<started, lock, currentTx>>
    BY <1>0, <1>5, Zenon DEF TearDownRollback, Ordered, Typed, CallsTyped, CallPcs, ctxVars
  <2>. QED BY <1>0, <1>1, <1>5, <2>1, Zenon DEF TearDownRollback
<1>. QED BY <1>2, <1>3, <1>4, <1>5, Zenon

LEMMA OrderedFinish ==
  ASSUME Typed, Ordered, NEW a \in Actors, Finish(a)
  PROVE  Ordered'
<1>0. pc[a] \in FinishPcs /\ on[a] \in Txs /\ pc[a] # "unborn"
  BY Zenon DEF Finish, FinishLock, ApplyEffect, EffectsApplied, CallEndCallback, CallbacksCalled,
         CallErrCallback, ErrCallbacksCalled, ReverseEffect, EffectsReversed, FinishDetach,
         FinishClose, FinishPcs, Typed, CallsTyped
<1>1. CASE FinishLock(a)
  <2>1. /\ lock[on[a]] = None /\ None \notin Actors
        /\ \E point \in {"apply", "callbacks"} : Goto(a, point)
        /\ lock'[on[a]] = a /\ \A u \in Txs \ {on[a]} : lock'[u] = lock[u]
        /\ UNCHANGED <<started, finishing, currentTx>>
    BY <1>0, <1>1, ActorsAssumption, ZenonT(60) DEF FinishLock, Typed, TypeOK, ctxVars
  <2>2. on'[a] = on[a] /\ OthersStay(a) /\ pc'[a] \in {"apply", "callbacks"}
    BY <2>1, GotoIs, Zenon
  <2>3. \A b \in Actors \ {a} : pc[b] \in Holding => on[b] \in Txs \ {on[a]}
    BY <2>1, SMTT(30) DEF Ordered, Holding, Typed, CallsTyped, CallPcs
  <2>. QED BY <1>0, <2>1, <2>2, <2>3, OrderedMoves, Zenon
<1>2. CASE FinishClose(a)
  <2>1. /\ pc[a] = "close" /\ Return(a) /\ UNCHANGED <<started, finishing, currentTx>>
        /\ \A u \in Txs \ {on[a]} : lock'[u] = lock[u]
    BY <1>0, <1>2, Zenon DEF FinishClose, Typed, TypeOK, ctxVars
  <2>2. OthersStay(a) /\ pc'[a] \in {"idle", "done"} /\ pc[a] \in Holding
    BY <2>1, ReturnIs, Zenon DEF Holding, FinishPcs
  <2>3. \A b \in Actors \ {a} : pc[b] \in Holding => on[b] \in Txs \ {on[a]}
    BY <2>2, SMTT(30) DEF Ordered, Holding, Typed, CallsTyped, CallPcs
  <2>4. pc'[a] \notin Holding
    BY <2>2, Zenon DEF Holding, FinishPcs
  <2>. QED BY <1>0, <2>1, <2>2, <2>3, <2>4, OrderedMoves, Zenon
<1>3. CASE ~FinishLock(a) /\ ~FinishClose(a)
  <2>1. /\ pc[a] # "finishLock"
        /\ UNCHANGED callVars \/ \E point \in FinishPcs \ {"finishLock"} : Goto(a, point)
        /\ UNCHANGED <<started, finishing, lock>> /\ currentTx' \in {currentTx, None}
    BY <1>3, Zenon DEF Finish, ApplyEffect, EffectsApplied, CallEndCallback, CallbacksCalled,
         CallErrCallback, ErrCallbacksCalled, ReverseEffect, EffectsReversed, FinishDetach,
         FinishPcs, txVars, ctxVars
  <2>2. OthersStay(a) /\ on'[a] = on[a] /\ pc'[a] \in FinishPcs \ {"finishLock"}
    BY <1>0, <2>1, GotoIs, ZenonT(60) DEF callVars, OthersStay
  <2>3. lock[on[a]] = a /\ pc'[a] # "attach" /\ pc'[a] # "tearDown"
    BY <1>0, <2>1, <2>2, Zenon DEF Ordered, Holding, FinishPcs
  <2>. QED BY <1>0, <2>1, <2>2, <2>3, OrderedMoves, Zenon
<1>. QED BY <1>1, <1>2, <1>3, Zenon

\* Every step keeps the calls in order.
LEMMA OrderedNext == Typed /\ Ordered /\ [Next]_vars => Ordered'
<1> SUFFICES ASSUME Typed, Ordered, [Next]_vars PROVE Ordered'
  BY Zenon
<1>1. CASE UNCHANGED vars
  BY <1>1, Zenon DEF vars, txVars, ctxVars, callVars, Ordered
<1>. QED BY <1>1, OrderedCallMethod, OrderedProceed, OrderedRuntime, OrderedFinish, Zenon DEF Next

LEMMA OrderedInit == Init => Ordered
<1> SUFFICES ASSUME Init PROVE Ordered
  BY ZenonT(60)
<1>1. /\ \A t \in Txs : ~started[t] /\ ~finishing[t] /\ pc[t] = "unborn"
      /\ \A a \in Actors : pc[a] \in {"unborn", "idle"}
      /\ currentTx = None /\ Ctx \in Actors
  BY ActorsFacts, Zenon DEF Init
<1>. QED BY <1>1, Zenon DEF Ordered, Holding, FinishPcs

-----------------------------------------------------------------------------
(* The safety invariant.  Agreement of the callbacks rests on the          *)
(* compare-and-swap: a transaction has at most one finisher, and none      *)
(* before `finishing` is set or after `finished`.                          *)

Called(t, o) == \A k \in Keys : calls[t][k] \in {<<>>, <<o>>}

FinisherAlone ==
    /\ \A t \in Txs : finished[t] => finishing[t]
    /\ \A a \in Actors : pc[a] \in FinishPcs => finishing[on[a]] /\ ~finished[on[a]]
    /\ \A a, b \in Actors : pc[a] \in FinishPcs /\ pc[b] \in FinishPcs /\ on[a] = on[b] => a = b

Silent(t) == \A k \in Keys : calls[t][k] = <<>>

FinisherOK(a) ==
    /\ pc[a] = "finishLock" => Silent(on[a])
    /\ pc[a] \in FinishPcs \ {"finishLock"} =>
          /\ Called(on[a], Outcome(op[a]))
          /\ \A k \in todo[on[a]] : calls[on[a]][k] = <<>>
    /\ pc[a] \in {"apply", "errCallbacks"} => op[a] = "commit"

CallsDecided ==
    /\ \A t \in Txs : ~finishing[t] => Silent(t)
    /\ \A t \in Txs : \E o \in Outcomes : Called(t, o)

Safe ==
    /\ FinisherAlone
    /\ CallsDecided
    /\ \A a \in Actors : FinisherOK(a)

Inv == Typed /\ Safe

\* The fields of the state the safety invariant depends on, besides the calls.
safeVars == <<finishing, finished, calls, todo>>

\* The calls that are finishing in the next state were so before.
NoNewFinisher ==
    \A a \in Actors : pc'[a] \in FinishPcs => pc'[a] = pc[a] /\ on'[a] = on[a] /\ op'[a] = op[a]

\* An actor whose call, and the state of whose transaction, a step leaves alone.
LEMMA FinisherFrame ==
  ASSUME NEW a \in Actors, FinisherOK(a),
         pc'[a] \in FinishPcs => /\ pc'[a] = pc[a] /\ on'[a] = on[a] /\ op'[a] = op[a]
                                 /\ calls'[on[a]] = calls[on[a]] /\ todo'[on[a]] = todo[on[a]]
  PROVE  FinisherOK(a)'
<1>1. CASE pc'[a] \notin FinishPcs
  BY <1>1, Zenon DEF FinisherOK, FinishPcs
<1>2. CASE pc'[a] \in FinishPcs
  <2>1. Silent(on[a])' <=> Silent(on[a])
    BY <1>2, Zenon DEF Silent
  <2>2. Called(on[a], Outcome(op[a]))' <=> Called(on[a], Outcome(op[a]))
    BY <1>2, Zenon DEF Called, Outcome
  <2> QED BY <1>2, <2>1, <2>2, Zenon DEF FinisherOK
<1> QED BY <1>1, <1>2, Zenon

\* A step that begins no finishing call and calls nothing is safe.
LEMMA QuietSafe ==
  ASSUME Inv, NoNewFinisher, UNCHANGED safeVars
  PROVE  Safe'
<1>1. FinisherAlone'
  BY ZenonT(60) DEF Inv, Safe, FinisherAlone, NoNewFinisher, safeVars
<1>2. CallsDecided'
  BY Zenon DEF Inv, Safe, CallsDecided, safeVars, Called, Silent
<1>3. ASSUME NEW a \in Actors PROVE FinisherOK(a)'
  BY FinisherFrame, Zenon DEF Inv, Safe, NoNewFinisher, safeVars
<1> QED BY <1>1, <1>2, <1>3, Zenon DEF Safe

\* Returning, or beginning a call that is not a finishing one, begins no finishing call.
LEMMA InvokeQuiet ==
  ASSUME Inv, NEW a \in Actors, NEW point, NEW t, NEW o, NEW x, Invoke(a, point, t, o, x),
         point \notin FinishPcs
  PROVE  NoNewFinisher
  BY Zenon DEF Inv, Typed, CallsTyped, Invoke, NoNewFinisher

LEMMA ReturnQuiet ==
  ASSUME Inv, NEW a \in Actors, Return(a)
  PROVE  NoNewFinisher
<1> DEFINE point == IF a \in Callers THEN "idle" ELSE "done"
<1>1. point \notin FinishPcs
  BY Zenon DEF FinishPcs
<1>2. Invoke(a, point, None, None, None)
  BY Zenon DEF Return
<1> HIDE DEF point
<1> QED BY <1>1, <1>2, InvokeQuiet, Zenon

\* The compare-and-swap makes its caller the only finisher.
LEMMA SwapSafe ==
  ASSUME Inv, NEW a \in Actors, NEW t \in Txs, NEW o \in {"commit", "rollback"},
         CompareAndSwap(a, t, o), UNCHANGED <<finished, calls, todo>>
  PROVE  Safe'
<1>1. /\ pc' = [pc EXCEPT ![a] = "finishLock"] /\ on' = [on EXCEPT ![a] = t]
      /\ op' = [op EXCEPT ![a] = o] /\ finishing' = [finishing EXCEPT ![t] = TRUE]
      /\ ~finishing[t]
  BY Zenon DEF CompareAndSwap, Invoke
<1>2. /\ pc \in [Actors -> Pcs] /\ on \in [Actors -> Txs \cup {None}]
      /\ op \in [Actors -> {"commit", "rollback", None}] /\ finishing \in [Txs -> BOOLEAN]
      /\ \A b \in Actors : pc[b] \in FinishPcs => on[b] \in Txs
  BY Zenon DEF Inv, Typed, TypeOK, CallsTyped
<1>3. /\ pc'[a] = "finishLock" /\ on'[a] = t /\ op'[a] = o
      /\ \A b \in Actors \ {a} : pc'[b] = pc[b] /\ on'[b] = on[b] /\ op'[b] = op[b]
      /\ \A u \in Txs : finishing'[u] <=> (u = t \/ finishing[u])
  BY <1>1, <1>2, Zenon
<1>4. \A b \in Actors : pc[b] \in FinishPcs => on[b] # t
  BY <1>1, Zenon DEF Inv, Safe, FinisherAlone
<1>5. FinisherAlone'
  BY <1>1, <1>2, <1>3, <1>4 DEF Inv, Safe, FinisherAlone
<1>6. Silent(t)
  BY <1>1, Zenon DEF Inv, Safe, CallsDecided
<1>7. CallsDecided'
  BY <1>3 DEF Inv, Safe, CallsDecided, Called, Silent
<1>8. ASSUME NEW b \in Actors PROVE FinisherOK(b)'
  <2>1. CASE b = a
    BY <1>3, <1>6, <2>1, Zenon DEF FinisherOK, Silent, FinishPcs
  <2>2. CASE b # a
    BY <1>3, <2>2, FinisherFrame, Zenon DEF Inv, Safe
  <2> QED BY <2>1, <2>2, Zenon
<1> QED BY <1>5, <1>7, <1>8, Zenon DEF Safe

\* A finisher that holds the lock moves on without calling anything.
LEMMA GotoSafe ==
  ASSUME Inv, NEW a \in Actors, NEW point \in FinishPcs \ {"finishLock"}, Goto(a, point),
         pc[a] \in FinishPcs \ {"finishLock"},
         point \in {"apply", "errCallbacks"} => op[a] = "commit",
         UNCHANGED safeVars
  PROVE  Safe'
<1>1. /\ pc'[a] = point /\ UNCHANGED <<on, op>>
      /\ \A b \in Actors \ {a} : pc'[b] = pc[b]
  BY Zenon DEF Goto, Inv, Typed, CallsTyped
<1>2. FinisherAlone'
  BY <1>1, Zenon DEF Inv, Safe, FinisherAlone, safeVars
<1>3. CallsDecided'
  BY Zenon DEF Inv, Safe, CallsDecided, safeVars, Called, Silent
<1>4. ASSUME NEW b \in Actors PROVE FinisherOK(b)'
  <2>1. CASE b = a
    <3>1. FinisherOK(a)
      BY Zenon DEF Inv, Safe
    <3>2. Called(on[a], Outcome(op[a]))'
      BY <1>1, <3>1, Zenon DEF FinisherOK, Called, Outcome, safeVars
    <3> QED BY <1>1, <2>1, <3>1, <3>2, Zenon DEF FinisherOK, safeVars
  <2>2. CASE b # a
    BY <1>1, <2>2, FinisherFrame, Zenon DEF Inv, Safe, safeVars
  <2> QED BY <2>1, <2>2, Zenon
<1> QED BY <1>2, <1>3, <1>4, Zenon DEF Safe

\* One more callback is told the finisher's outcome.
LEMMA TellSafe ==
  ASSUME Inv, NEW a \in Actors, NEW k \in Keys, pc[a] \in {"callbacks", "errCallbacks"},
         k \in todo[on[a]], NEW rest \in SUBSET (todo[on[a]] \ {k}),
         calls' = [calls EXCEPT ![on[a]][k] = Append(@, Outcome(op[a]))],
         todo' = [todo EXCEPT ![on[a]] = rest],
         UNCHANGED <<finishing, finished, on, op>>,
         pc' = pc \/ pc' = [pc EXCEPT ![a] = "detach"]
  PROVE  Safe'
<1> DEFINE t == on[a]  o == Outcome(op[a])
<1>1. /\ t \in Txs /\ o \in Outcomes /\ pc \in [Actors -> Pcs]
      /\ calls \in [Txs -> [Keys -> Seq(Outcomes)]] /\ todo \in [Txs -> SUBSET Keys]
      /\ \A b \in Actors : pc[b] \in FinishPcs => on[b] \in Txs
  BY Zenon DEF Inv, Typed, TypeOK, CallsTyped, FinishPcs, Outcome, Outcomes
<1>2. /\ \A b \in Actors : pc'[b] \in FinishPcs <=> pc[b] \in FinishPcs
      /\ \A b \in Actors \ {a} : pc'[b] = pc[b]
      /\ pc'[a] \in {"callbacks", "errCallbacks", "detach"}
      /\ (pc'[a] = "errCallbacks" => pc'[a] = pc[a])
  BY <1>1, Zenon DEF FinishPcs
<1>3. /\ pc[a] \in FinishPcs \ {"finishLock"}
      /\ \A b \in Actors : pc[b] \in FinishPcs /\ on[b] = t => b = a
  BY Zenon DEF Inv, Safe, FinisherAlone, FinishPcs
<1>4. FinisherOK(a) /\ finishing[t]
  BY <1>3, Zenon DEF Inv, Safe, FinisherAlone
<1>5. Called(t, o) /\ \A l \in todo[t] : calls[t][l] = <<>>
  BY <1>3, <1>4, Zenon DEF FinisherOK
<1>6. calls'[t] = [calls[t] EXCEPT ![k] = Append(@, o)] /\ todo'[t] = rest
  BY <1>1, Zenon
<1>7. \A u \in Txs \ {t} : calls'[u] = calls[u] /\ todo'[u] = todo[u]
  BY <1>1, Zenon
<1>8. calls'[t][k] = <<o>> /\ \A l \in Keys \ {k} : calls'[t][l] = calls[t][l]
  <2>1. calls'[t][k] = Append(<<>>, o)
    BY <1>1, <1>5, <1>6, ZenonT(60)
  <2>2. Append(<<>>, o) = <<o>>
    OBVIOUS
  <2> QED BY <1>1, <1>6, <2>1, <2>2, ZenonT(60)
<1> HIDE DEF o
<1>9. \A l \in Keys : calls'[t][l] = <<>> \/ calls'[t][l] = <<o>>
  BY <1>5, <1>8, Zenon DEF Called
<1>10. FinisherAlone'
  BY <1>2, Zenon DEF Inv, Safe, FinisherAlone
<1>11. CallsDecided'
  <2>1. ASSUME NEW u \in Txs PROVE ~finishing'[u] => Silent(u)'
    <3>1. CASE u = t
      BY <1>4, <3>1, ZenonT(60)
    <3>2. CASE u # t
      BY <1>7, <3>2 DEF Inv, Safe, CallsDecided, Silent
    <3> QED BY <3>1, <3>2, Zenon
  <2>2. ASSUME NEW u \in Txs PROVE \E q \in Outcomes : Called(u, q)'
    <3>1. CASE u = t
      BY <1>1, <1>9, <3>1, Zenon DEF Called
    <3>2. CASE u # t
      <4>1. PICK q \in Outcomes : Called(u, q)
        BY Zenon DEF Inv, Safe, CallsDecided
      <4> QED BY <1>7, <3>2, <4>1, Zenon DEF Called
    <3> QED BY <3>1, <3>2, Zenon
  <2> QED BY <2>1, <2>2, Zenon DEF CallsDecided
<1>12. ASSUME NEW b \in Actors PROVE FinisherOK(b)'
  <2>1. CASE b = a
    <3>1. Called(on[a], Outcome(op[a]))'
      BY <1>9, Zenon DEF Called, o
    <3>2. \A l \in todo'[t] : calls'[t][l] = <<>>
      BY <1>1, <1>5, <1>6, <1>8, Zenon
    <3>3. pc'[a] \in {"apply", "errCallbacks"} => op'[a] = "commit"
      BY <1>2, <1>4, Zenon DEF FinisherOK
    <3> QED BY <1>2, <2>1, <3>1, <3>2, <3>3, Zenon DEF FinisherOK
  <2>2. CASE b # a
    <3>1. pc[b] \in FinishPcs => on[b] \in Txs \ {t}
      BY <1>1, <1>3, <2>2, Zenon
    <3> QED BY <1>2, <1>7, <2>2, <3>1, FinisherFrame, Zenon DEF Inv, Safe
  <2> QED BY <2>1, <2>2, Zenon
<1> QED BY <1>10, <1>11, <1>12, Zenon DEF Safe

-----------------------------------------------------------------------------
\* Before any transaction is started nothing is finishing.
LEMMA SafeInit == Init => Safe
<1> SUFFICES ASSUME Init PROVE Safe
  BY Zenon
<1>1. \A a \in Actors : pc[a] \notin FinishPcs
  BY Zenon DEF Init, FinishPcs
<1>2. FinisherAlone
  BY <1>1, Zenon DEF Init, FinisherAlone
<1>3. \A t \in Txs, k \in Keys : calls[t][k] = <<>>
  BY Zenon DEF Init
<1>4. CallsDecided
  BY <1>3, Zenon DEF CallsDecided, Called, Silent, Outcomes
<1>5. \A a \in Actors : FinisherOK(a)
  BY <1>1, Zenon DEF FinisherOK, FinishPcs
<1> QED BY <1>2, <1>4, <1>5, Zenon DEF Safe

\* A call of a method by a caller is safe.
LEMMA SafeCallMethod ==
  ASSUME Inv, NEW p \in Callers, NEW t \in Txs, CallMethod(p, t)
  PROVE  Safe'
<1> USE ActorsFacts
<1>1. CASE StartCheck(p, t)
  <2>1. Invoke(p, "startLock", t, None, None) /\ UNCHANGED safeVars
    BY <1>1, Zenon DEF StartCheck, txVars, obsVars, safeVars
  <2>2. NoNewFinisher
    BY <2>1, InvokeQuiet, Zenon DEF FinishPcs
  <2> QED BY <2>1, <2>2, QuietSafe, Zenon
<1>2. ASSUME NEW k \in Keys, OnEndCheck(p, t, k) PROVE Safe'
  <2>1. Invoke(p, "onEndLock", t, None, k) /\ UNCHANGED safeVars
    BY <1>2, Zenon DEF OnEndCheck, txVars, obsVars, safeVars
  <2>2. NoNewFinisher
    BY <2>1, InvokeQuiet, Zenon DEF FinishPcs
  <2> QED BY <2>1, <2>2, QuietSafe, Zenon
<1>3. ASSUME NEW e \in Effects, AddEffectCheck(p, t, e) PROVE Safe'
  <2>1. Invoke(p, "addEffectLock", t, None, e) /\ UNCHANGED safeVars
    BY <1>3, Zenon DEF AddEffectCheck, txVars, obsVars, safeVars
  <2>2. NoNewFinisher
    BY <2>1, InvokeQuiet, Zenon DEF FinishPcs
  <2> QED BY <2>1, <2>2, QuietSafe, Zenon
<1>4. CASE CallCommit(p, t)
  BY <1>4, SwapSafe, Zenon DEF CallCommit, obsVars
<1>5. CASE CallRollback(p, t)
  BY <1>5, SwapSafe, Zenon DEF CallRollback, obsVars
<1> QED BY <1>1, <1>2, <1>3, <1>4, <1>5, Zenon DEF CallMethod

\* The locked part of Start, OnEnd and AddEffect is safe.
LEMMA SafeProceed ==
  ASSUME Inv, NEW p \in Callers, Proceed(p)
  PROVE  Safe'
<1> USE ActorsFacts
<1>0. UNCHANGED safeVars
  BY Zenon DEF Proceed, StartLocked, StartAttach, OnEndLocked, AddEffectLocked, obsVars, safeVars
<1>1. CASE StartLocked(p)
  <2>1. CASE Return(p)
    BY <1>0, <2>1, ReturnQuiet, QuietSafe, Zenon
  <2>2. CASE Goto(p, "attach")
    <3>1. NoNewFinisher
      BY <2>2, Zenon DEF Goto, NoNewFinisher, FinishPcs, Inv, Typed, CallsTyped
    <3> QED BY <1>0, <3>1, QuietSafe, Zenon
  <2> QED BY <1>1, <2>1, <2>2, Zenon DEF StartLocked
<1>2. CASE StartAttach(p)
  <2>1. NoNewFinisher
    BY <1>2, ZenonT(60) DEF StartAttach, NoNewFinisher, FinishPcs, Inv, Typed, CallsTyped
  <2> QED BY <1>0, <2>1, QuietSafe, ZenonT(60)
<1>3. CASE OnEndLocked(p)
  BY <1>0, <1>3, ReturnQuiet, QuietSafe, Zenon DEF OnEndLocked
<1>4. CASE AddEffectLocked(p)
  BY <1>0, <1>4, ReturnQuiet, QuietSafe, Zenon DEF AddEffectLocked
<1> QED BY <1>1, <1>2, <1>3, <1>4, Zenon DEF Proceed

\* The rollbacks by the timeout goroutine and by the teardown are safe.
LEMMA SafeRuntime ==
  ASSUME Inv, \/ \E t \in Txs : Watch(t)
              \/ CtxCancel \/ TearDownReadTx \/ TearDownRollback
  PROVE  Safe'
<1> USE ActorsFacts
<1>1. ASSUME NEW t \in Txs, Watch(t) PROVE Safe'
  <2>0. UNCHANGED <<finished, calls, todo>>
    BY <1>1, Zenon DEF Watch, obsVars
  <2>1. CASE CompareAndSwap(t, t, "rollback")
    BY <2>0, <2>1, SwapSafe, Zenon
  <2>2. CASE Return(t) /\ UNCHANGED finishing
    <3>1. NoNewFinisher
      BY <2>2, ReturnQuiet, Zenon
    <3> QED BY <2>0, <2>2, <3>1, QuietSafe, Zenon DEF safeVars
  <2> QED BY <1>1, <2>1, <2>2, Zenon DEF Watch
<1>2. CASE CtxCancel
  <2>1. NoNewFinisher /\ UNCHANGED safeVars
    BY <1>2, Zenon DEF CtxCancel, NoNewFinisher, txVars, callVars, obsVars, safeVars
  <2> QED BY <2>1, QuietSafe, Zenon
<1>3. CASE TearDownReadTx
  <2>1. UNCHANGED safeVars
    BY <1>3, Zenon DEF TearDownReadTx, txVars, obsVars, safeVars
  <2>2. CASE Return(Ctx)
    BY <2>1, <2>2, ReturnQuiet, QuietSafe, Zenon
  <2>3. CASE Invoke(Ctx, "tearDown", currentTx, None, None)
    <3>1. NoNewFinisher
      BY <2>3, InvokeQuiet, Zenon DEF FinishPcs
    <3> QED BY <2>1, <3>1, QuietSafe, Zenon
  <2> QED BY <1>3, <2>2, <2>3, Zenon DEF TearDownReadTx
<1>4. CASE TearDownRollback
  <2>0. UNCHANGED <<finished, calls, todo>> /\ on[Ctx] \in Txs
    BY <1>4, Zenon DEF TearDownRollback, obsVars, Inv, Typed, CallsTyped, CallPcs
  <2>1. CASE CompareAndSwap(Ctx, on[Ctx], "rollback")
    BY <2>0, <2>1, SwapSafe, Zenon
  <2>2. CASE Return(Ctx) /\ UNCHANGED finishing
    <3>1. NoNewFinisher
      BY <2>2, ReturnQuiet, Zenon
    <3> QED BY <2>0, <2>2, <3>1, QuietSafe, Zenon DEF safeVars
  <2> QED BY <1>4, <2>1, <2>2, Zenon DEF TearDownRollback
<1> QED BY <1>1, <1>2, <1>3, <1>4, Zenon

\* A step of a finisher is safe.
LEMMA SafeFinish ==
  ASSUME Inv, NEW a \in Actors, Finish(a)
  PROVE  Safe'
<1>m. ASSUME NEW point \in {"callbacks", "detach", "reverse", "close"}, Goto(a, point),
             pc[a] \in FinishPcs \ {"finishLock"}, UNCHANGED safeVars
      PROVE  Safe'
  BY <1>m, GotoSafe, Zenon DEF FinishPcs
<1>u. ASSUME UNCHANGED callVars, UNCHANGED safeVars PROVE Safe'
  BY <1>u, QuietSafe, Zenon DEF NoNewFinisher, callVars
<1>1. CASE FinishLock(a)
  <2>1. /\ pc[a] = "finishLock" /\ on[a] \in Txs /\ op[a] \in {"commit", "rollback"}
        /\ pc'[a] = IF op[a] = "commit" THEN "apply" ELSE "callbacks"
        /\ \A b \in Actors \ {a} : pc'[b] = pc[b]
        /\ UNCHANGED <<on, op, finishing, finished, calls>>
        /\ todo' = [todo EXCEPT ![on[a]] = endCallbackFns[on[a]]]
        /\ endCallbackFns[on[a]] \in SUBSET Keys
    BY <1>1, Zenon DEF FinishLock, Goto, Inv, Typed, TypeOK, CallsTyped, FinishPcs
  <2>2. pc'[a] \in FinishPcs \ {"finishLock", "errCallbacks"} /\ pc[a] \in FinishPcs
    BY <2>1, Zenon DEF FinishPcs
  <2>3. FinisherAlone'
    BY <2>1, <2>2, Zenon DEF Inv, Safe, FinisherAlone
  <2>4. Silent(on[a])
    BY <2>1, Zenon DEF Inv, Safe, FinisherOK
  <2>5. CallsDecided'
    BY <2>1, Zenon DEF Inv, Safe, CallsDecided, Called, Silent
  <2>6. ASSUME NEW b \in Actors PROVE FinisherOK(b)'
    <3>1. CASE b = a
      <4>1. todo'[on[a]] \in SUBSET Keys
        BY <2>1, Zenon DEF Inv, Typed, TypeOK
      <4>2. Called(on[a], Outcome(op[a]))' /\ \A k \in todo'[on[a]] : calls'[on[a]][k] = <<>>
        BY <2>1, <2>4, <4>1, Zenon DEF Called, Silent
      <4> QED BY <2>1, <2>2, <3>1, <4>2, Zenon DEF FinisherOK
    <3>2. CASE b # a
      <4>1. pc[b] \in FinishPcs => on[b] \in Txs /\ on[b] # on[a]
        BY <2>1, <2>2, <3>2, Zenon DEF Inv, Safe, FinisherAlone, Typed, CallsTyped
      <4>2. pc[b] \in FinishPcs => todo'[on[b]] = todo[on[b]]
        BY <2>1, <4>1, Zenon DEF Inv, Typed, TypeOK
      <4> QED BY <2>1, <3>2, <4>2, FinisherFrame, Zenon DEF Inv, Safe
    <3> QED BY <3>1, <3>2, Zenon
  <2> QED BY <2>3, <2>5, <2>6, Zenon DEF Safe
<1>2. CASE ApplyEffect(a)
  <2>1. UNCHANGED safeVars /\ pc[a] = "apply"
    BY <1>2, Zenon DEF ApplyEffect, obsVars, safeVars
  <2>2. CASE Goto(a, "errCallbacks")
    BY <2>1, <2>2, GotoSafe, Zenon DEF FinishPcs, Inv, Safe, FinisherOK
  <2> QED BY <1>2, <1>u, <2>1, <2>2, Zenon DEF ApplyEffect
<1>3. CASE EffectsApplied(a)
  BY <1>3, <1>m, Zenon DEF EffectsApplied, FinishPcs, txVars, obsVars, safeVars
<1>4. ASSUME NEW k \in Keys, CallEndCallback(a, k) PROVE Safe'
  <2>1. todo[on[a]] \ {k} \in SUBSET (todo[on[a]] \ {k})
    BY Zenon
  <2> QED BY <1>4, <2>1, TellSafe, Zenon DEF CallEndCallback, callVars
<1>5. CASE CallbacksCalled(a)
  <2>1. UNCHANGED safeVars /\ pc[a] = "callbacks"
    BY <1>5, Zenon DEF CallbacksCalled, obsVars, safeVars
  <2> QED BY <1>5, <1>m, <2>1, Zenon DEF CallbacksCalled, FinishPcs
<1>6. ASSUME NEW k \in Keys, CallErrCallback(a, k) PROVE Safe'
  <2>1. Outcome(op[a]) = "success"
    BY <1>6, Zenon DEF CallErrCallback, Inv, Safe, FinisherOK, Outcome
  <2>2. CASE UNCHANGED callVars /\ todo' = [todo EXCEPT ![on[a]] = @ \ {k}]
    <3>1. todo[on[a]] \ {k} \in SUBSET (todo[on[a]] \ {k})
      BY ZenonT(60)
    <3> QED BY <1>6, <2>1, <2>2, <3>1, TellSafe, Zenon DEF CallErrCallback, callVars
  <2>3. CASE Goto(a, "detach") /\ todo' = [todo EXCEPT ![on[a]] = {}]
    <3>1. {} \in SUBSET (todo[on[a]] \ {k})
      BY Zenon
    <3> QED BY <1>6, <2>1, <2>3, <3>1, TellSafe, Zenon DEF CallErrCallback, Goto
  <2> QED BY <1>6, <2>2, <2>3, Zenon DEF CallErrCallback
<1>7. CASE ErrCallbacksCalled(a)
  BY <1>7, <1>m, Zenon DEF ErrCallbacksCalled, FinishPcs, txVars, obsVars, safeVars
<1>8. CASE ReverseEffect(a)
  <2>1. UNCHANGED safeVars /\ pc[a] = "reverse"
    BY <1>8, Zenon DEF ReverseEffect, obsVars, safeVars
  <2> QED BY <1>8, <1>m, <1>u, <2>1, Zenon DEF ReverseEffect, FinishPcs
<1>9. CASE EffectsReversed(a)
  BY <1>9, <1>m, Zenon DEF EffectsReversed, FinishPcs, txVars, obsVars, safeVars
<1>10. CASE FinishDetach(a)
  BY <1>10, <1>m, Zenon DEF FinishDetach, FinishPcs, txVars, obsVars, safeVars
<1>11. CASE FinishClose(a)
  <2>1. /\ NoNewFinisher /\ pc'[a] \notin FinishPcs /\ pc[a] \in FinishPcs
        /\ UNCHANGED <<finishing, calls, todo>> /\ on[a] \in Txs
        /\ finished' = [finished EXCEPT ![on[a]] = TRUE]
    <3>1. Return(a) /\ pc[a] \in FinishPcs
      BY <1>11, Zenon DEF FinishClose, FinishPcs
    <3>2. NoNewFinisher
      BY <3>1, ReturnQuiet, Zenon
    <3>3. pc'[a] \notin FinishPcs /\ on[a] \in Txs
      BY <3>1, Zenon DEF Return, Invoke, FinishPcs, Inv, Typed, CallsTyped
    <3> QED BY <1>11, <3>1, <3>2, <3>3, Zenon DEF FinishClose, obsVars
  <2>2. FinisherAlone'
    <3>1. \A t \in Txs : finished'[t] <=> finished[t] \/ t = on[a]
      BY <2>1, Zenon DEF Inv, Typed, TypeOK
    <3>2. \A b \in Actors : pc'[b] \in FinishPcs =>
                              pc[b] \in FinishPcs /\ on'[b] = on[b] /\ on[b] # on[a]
      BY <2>1, Zenon DEF NoNewFinisher, Inv, Safe, FinisherAlone
    <3>3. \A b \in Actors : pc[b] \in FinishPcs => on[b] \in Txs
      BY Zenon DEF Inv, Typed, CallsTyped
    <3> QED BY <2>1, <3>1, <3>2, <3>3, ZenonT(60) DEF Inv, Safe, FinisherAlone
  <2>3. CallsDecided'
    BY <2>1, Zenon DEF Inv, Safe, CallsDecided, Called, Silent
  <2>4. ASSUME NEW b \in Actors PROVE FinisherOK(b)'
    BY <2>1, FinisherFrame, Zenon DEF Inv, Safe, NoNewFinisher
  <2> QED BY <2>2, <2>3, <2>4, ZenonT(60) DEF Safe
<1> QED BY <1>1, <1>2, <1>3, <1>4, <1>5, <1>6, <1>7, <1>8, <1>9, <1>10, <1>11, ZenonT(60) DEF Finish

\* Every step keeps the safety invariant.
LEMMA InvNext == Inv /\ [Next]_vars => Inv'
<1> SUFFICES ASSUME Inv, [Next]_vars PROVE Inv'
  BY Zenon
<1>1. Typed'
  BY TypedNext, Zenon DEF Inv
<1>2. Safe'
  <2>1. CASE UNCHANGED vars
    <3>1. NoNewFinisher /\ UNCHANGED safeVars
      BY <2>1, Zenon DEF vars, txVars, callVars, obsVars, safeVars, NoNewFinisher
    <3> QED BY <3>1, QuietSafe, Zenon
  <2> QED BY <2>1, SafeCallMethod, SafeProceed, SafeRuntime, SafeFinish, Zenon DEF Next
<1> QED BY <1>1, <1>2, Zenon DEF Inv

\* However Commit, Rollback, the timeout and the teardown of the context race, an end
\* callback is called at most once and all are given the same outcome.
THEOREM CallbacksAgree == Spec => []EndCallbacksAgree
<1>1. Init => Inv
  BY TypedInit, SafeInit, Zenon DEF Inv
<1>2. Spec => []Inv
  BY <1>1, InvNext, PTL DEF Spec
<1>3. Inv => EndCallbacksAgree
  <2> SUFFICES ASSUME Inv, NEW t \in Txs, NEW k \in Keys
               PROVE  /\ Len(calls[t][k]) <= 1
                      /\ \A l \in Keys : calls[t][k] # <<>> /\ calls[t][l] # <<>>
                                        => calls[t][k] = calls[t][l]
    BY Zenon DEF EndCallbacksAgree
  <2>1. PICK o \in Outcomes : Called(t, o)
    BY Zenon DEF Inv, Safe, CallsDecided
  <2>2. \A l \in Keys : calls[t][l] = <<>> \/ calls[t][l] = <<o>>
    BY <2>1, Zenon DEF Called
  <2>3. Len(<<>>) = 0 /\ Len(<<o>>) = 1
    BY Zenon
  <2>4. Len(calls[t][k]) <= 1
    <3>1. CASE calls[t][k] = <<>>
      <4>1. Len(calls[t][k]) = 0
        BY <2>3, <3>1, Zenon
      <4> QED BY <4>1
    <3>2. CASE calls[t][k] = <<o>>
      <4>1. Len(calls[t][k]) = 1
        BY <2>3, <3>2, Zenon
      <4> QED BY <4>1
    <3> QED BY <2>2, <3>1, <3>2, Zenon
  <2> QED BY <2>2, <2>4, Zenon
<1> QED BY <1>2, <1>3, PTL
=============================================================================
