------------------------ MODULE TransactionOutcomes ------------------------
(***************************************************************************)
(* The callbacks due have been called when a transaction ends, the context *)
(* returns the transaction that runs, Finished() is final, and the         *)
(* interleaved methods of Transaction implement AbstractTransaction, for   *)
(* any number of goroutines, transactions, callbacks and effects.          *)
(***************************************************************************)
EXTENDS TransactionProofs

-----------------------------------------------------------------------------
(* The invariants, besides the ones of TransactionProofs.                  *)

\* The recovering loop has called, or has left, what was registered when it began.
DueKept ==
    /\ \A t \in Txs : fnsNil[t] => finishing[t] /\ \A k \in due[t] : calls[t][k] # <<>>
    /\ \A a \in Actors : pc[a] = "finishLock" => ~fnsNil[on[a]]
    /\ \A a \in Actors : pc[a] \in {"apply", "callbacks"} =>
           \A k \in due[on[a]] : k \in todo[on[a]] \/ calls[on[a]][k] # <<>>

Kept == Ordered /\ DueKept

\* With one starter, the context keeps its reference until the finisher detaches it.
Attached ==
    /\ CurrentTxIsRunning
    /\ \A a \in Actors : pc[a] \in {"startLock", "attach"} => a \in Starters
    /\ \A a \in Actors : pc[a] = "attach" => currentTx = None
    /\ \A a \in Actors : pc[a] \in FinishPcs \ {"close"} => currentTx = on[a]
    /\ \A a \in Actors : pc[a] = "close" => currentTx # on[a]

OneStarter == \A p, q \in Starters : p = q

-----------------------------------------------------------------------------
(* A step of one goroutine.                                                *)

\* A step that registers nothing, forgets no call, and enters no loop over the callbacks.
LEMMA DueMoves ==
  ASSUME Typed, DueKept, NEW a \in Actors, OthersStay(a), UNCHANGED <<fnsNil, due>>,
         \A t \in Txs : finishing[t] => finishing'[t],
         \A t \in Txs, k \in Keys : calls[t][k] # <<>> => calls'[t][k] # <<>>,
         pc'[a] = "finishLock" => ~fnsNil[on'[a]],
         pc'[a] \in {"apply", "callbacks"} => pc[a] \in {"apply", "callbacks"} /\ on'[a] = on[a],
         \A b \in Actors : pc'[b] \in {"apply", "callbacks"} =>
             \A k \in todo[on'[b]] : k \in todo'[on'[b]] \/ calls'[on'[b]][k] # <<>>
  PROVE  DueKept'
<1>0. /\ due \in [Txs -> SUBSET Keys]
      /\ \A b \in Actors : pc[b] \in {"apply", "callbacks"} => on[b] \in Txs
  BY Zenon DEF Typed, TypeOK, CallsTyped, FinishPcs
<1>1. \A t \in Txs : fnsNil'[t] => finishing'[t] /\ \A k \in due'[t] : calls'[t][k] # <<>>
  BY <1>0, Zenon DEF DueKept
<1>2. \A b \in Actors : pc'[b] = "finishLock" => ~fnsNil'[on'[b]]
  BY ZenonT(60) DEF DueKept, OthersStay
<1>3. ASSUME NEW b \in Actors, pc'[b] \in {"apply", "callbacks"}, NEW k \in due'[on'[b]]
      PROVE  k \in todo'[on'[b]] \/ calls'[on'[b]][k] # <<>>
  <2>1. pc[b] \in {"apply", "callbacks"} /\ on'[b] = on[b]
    BY <1>3, Zenon DEF OthersStay
  <2>2. k \in Keys /\ on[b] \in Txs /\ (k \in todo[on[b]] \/ calls[on[b]][k] # <<>>)
    BY <1>0, <1>3, <2>1, Zenon DEF DueKept
  <2>. QED BY <1>3, <2>1, <2>2, Zenon
<1>. QED BY <1>1, <1>2, <1>3, Zenon DEF DueKept

\* A step that leaves the context's reference and the ends of the transactions alone.
LEMMA AttachedMoves ==
  ASSUME Attached, NEW a \in Actors, OthersStay(a),
         UNCHANGED <<started, currentTx, finished>>,
         \A t \in Txs : finishing[t] => finishing'[t],
         pc'[a] \in {"startLock", "attach"} => a \in Starters,
         pc'[a] = "attach" => currentTx = None,
         pc'[a] \in FinishPcs \ {"close"} => currentTx = on'[a],
         pc'[a] = "close" => currentTx # on'[a]
  PROVE  Attached'
<1>1. CurrentTxIsRunning'
  BY Zenon DEF Attached, CurrentTxIsRunning
<1>. QED BY <1>1, ZenonT(60) DEF Attached, OthersStay

-----------------------------------------------------------------------------
(* Every step keeps the invariants.                                        *)

\* A step outside of the critical sections changes no transaction.
LEMMA KeptQuiet ==
  ASSUME Typed, Safe, Kept, NEW a \in Actors, OthersStay(a), pc[a] # "unborn",
         pc'[a] \notin Holding \cup FinishPcs,
         pc'[a] = "startLock" => a \in Starters,
         pc'[a] = "tearDown" => started[on'[a]],
         UNCHANGED <<started, finishing, finished, lock, fnsNil, todo, currentTx, due, calls>>
  PROVE  DueKept' /\ (Attached => Attached')
<1>1. pc'[a] # "attach" /\ pc'[a] \notin FinishPcs
  BY Zenon DEF Holding
<1>3. DueKept'
  BY <1>1, DueMoves, Zenon DEF Kept, FinishPcs
<1>4. Attached => Attached'
  BY <1>1, AttachedMoves, Zenon DEF FinishPcs
<1>. QED BY <1>3, <1>4, Zenon

\* A compare-and-swap by which a goroutine claims a started transaction.
LEMMA KeptSwap ==
  ASSUME Typed, Safe, Kept, NEW a \in Actors, pc[a] # "unborn", NEW t \in Txs, started[t],
         NEW o \in {"commit", "rollback"}, CompareAndSwap(a, t, o),
         UNCHANGED <<started, finished, lock, effects, endCallbackFns, fnsNil, todo, idx,
                     ctxVars, applied, obsVars>>
  PROVE  DueKept' /\ (Attached => Attached')
<1>1. /\ ~finishing[t] /\ pc'[a] = "finishLock" /\ on'[a] = t /\ OthersStay(a)
  BY InvokeIs, ZenonT(60) DEF CompareAndSwap
<1>2. \A u \in Txs : finishing'[u] <=> finishing[u] \/ u = t
  BY Zenon DEF CompareAndSwap, Typed, TypeOK
<1>5. DueKept'
  <2>1. ~fnsNil[t]
    BY <1>1, Zenon DEF Kept, DueKept
  <2>. QED BY <1>1, <1>2, <2>1, DueMoves, Zenon DEF Kept, obsVars
<1>7. Attached => Attached'
  <2>1. Attached => currentTx = t
    BY <1>1, Zenon DEF Attached, CurrentTxIsRunning
  <2>. QED BY <1>1, <1>2, <2>1, AttachedMoves, Zenon DEF ctxVars
<1>. QED BY <1>5, <1>7, Zenon

\* A call returns, or the runtime's goroutine ends, with nothing done.
LEMMA KeptReturn ==
  ASSUME Typed, Safe, Kept, NEW a \in Actors, pc[a] # "unborn", Return(a),
         UNCHANGED <<started, finishing, finished, lock, fnsNil, todo, currentTx, due, calls>>
  PROVE  DueKept' /\ (Attached => Attached')
<1>1. pc'[a] \in {"idle", "done"} /\ OthersStay(a)
  BY ReturnIs, Zenon
<1>2. pc'[a] \notin Holding \cup FinishPcs
  BY <1>1, Zenon DEF Holding, FinishPcs
<1>. QED BY <1>1, <1>2, KeptQuiet, Zenon

LEMMA KeptCallMethod ==
  ASSUME Typed, Safe, Kept, NEW p \in Callers, NEW t \in Txs, CallMethod(p, t)
  PROVE  DueKept' /\ (Attached => Attached')
<1>0. p \in Actors
  BY ActorsFacts, Zenon
<1>1. CASE StartCheck(p, t) \/ (\E k \in Keys : OnEndCheck(p, t, k))
           \/ (\E e \in Effects : AddEffectCheck(p, t, e))
  <2>1. \E x : \/ Invoke(p, "startLock", t, None, x) /\ p \in Starters
               \/ Invoke(p, "onEndLock", t, None, x)
               \/ Invoke(p, "addEffectLock", t, None, x)
    BY <1>1, Zenon DEF StartCheck, OnEndCheck, AddEffectCheck
  <2>2. /\ OthersStay(p) /\ pc'[p] \in {"startLock", "onEndLock", "addEffectLock"}
        /\ pc'[p] = "startLock" => p \in Starters
    BY <1>0, <2>1, InvokeIs
  <2>3. /\ pc[p] = "idle"
        /\ UNCHANGED <<started, finishing, finished, lock, fnsNil, todo, currentTx, due, calls>>
    BY <1>1, Zenon DEF StartCheck, OnEndCheck, AddEffectCheck, txVars, ctxVars, obsVars
  <2>4. pc'[p] \notin Holding \cup FinishPcs
    BY <2>2, Zenon DEF Holding, FinishPcs
  <2>. QED BY <1>0, <2>2, <2>3, <2>4, KeptQuiet, Zenon
<1>4. CASE CallCommit(p, t)
  <2>1. pc[p] # "unborn" /\ started[t] /\ CompareAndSwap(p, t, "commit")
    BY <1>4, Zenon DEF CallCommit
  <2>. QED BY <1>0, <1>4, <2>1, KeptSwap, Zenon DEF CallCommit
<1>5. CASE CallRollback(p, t)
  <2>1. pc[p] # "unborn" /\ started[t] /\ CompareAndSwap(p, t, "rollback")
    BY <1>5, Zenon DEF CallRollback
  <2>. QED BY <1>0, <1>5, <2>1, KeptSwap, Zenon DEF CallRollback
<1>. QED BY <1>1, <1>4, <1>5, Zenon DEF CallMethod

LEMMA KeptProceed ==
  ASSUME Typed, Safe, Kept, NEW p \in Callers, Proceed(p)
  PROVE  DueKept' /\ (OneStarter /\ Attached => Attached')
<1>0. /\ p \in Actors /\ p \notin Txs /\ p # Ctx
      /\ Txs \subseteq Actors /\ None \notin Txs /\ None \notin Actors
  BY ActorsFacts, ActorsAssumption, Zenon DEF Actors
<1>1. CASE StartLocked(p)
  <2>0. on[p] \in Txs /\ pc[p] = "startLock" /\ lock[on[p]] = None
    BY <1>0, <1>1, Zenon DEF StartLocked, Typed, CallsTyped, CallPcs
  <2>1. CASE started[on[p]] \/ currentTx # None
    <3>1. /\ Return(p)
          /\ UNCHANGED <<started, finishing, finished, lock, fnsNil, todo, currentTx, due, calls>>
      BY <1>1, <2>1, Zenon DEF StartLocked, ctxVars, obsVars
    <3>. QED BY <1>0, <2>0, <3>1, KeptReturn, Zenon
  <2>2. CASE ~(started[on[p]] \/ currentTx # None)
    <3>1. /\ Goto(p, "attach") /\ lock' = [lock EXCEPT ![on[p]] = p]
          /\ UNCHANGED <<started, finishing, finished, effects, fnsNil, todo, ctxVars, obsVars>>
      BY <1>1, <2>2, Zenon DEF StartLocked
    <3>2. /\ pc'[p] = "attach" /\ on'[p] = on[p] /\ OthersStay(p)
          /\ ~started[on[p]] /\ currentTx = None
      BY <1>0, <2>2, <3>1, GotoIs, Zenon
    <3>6. DueKept'
      BY <1>0, <3>1, <3>2, DueMoves, Zenon DEF Kept, obsVars
    <3>8. Attached => Attached'
      <4>1. Attached => p \in Starters
        BY <1>0, <2>0, Zenon DEF Attached
      <4>. QED BY <1>0, <3>1, <3>2, <4>1, AttachedMoves, Zenon DEF ctxVars, FinishPcs
    <3>. QED BY <3>6, <3>8, Zenon
  <2>. QED BY <2>1, <2>2, Zenon
<1>2. CASE StartAttach(p)
  <2> DEFINE t == on[p]
  <2>0. t \in Txs /\ pc[p] = "attach" /\ ~started[t] /\ lock[t] = p
    BY <1>0, <1>2, Zenon DEF StartAttach, Typed, CallsTyped, CallPcs, Kept, Ordered, Holding
  <2>1. /\ t \in Actors /\ t # p /\ t # Ctx
        /\ pc'[p] = "idle" /\ pc'[t] = "watch" /\ on'[p] = None
        /\ \A b \in Actors \ {p} : on'[b] = on[b]
        /\ \A b \in Actors \ {p, t} : pc'[b] = pc[b]
    BY <1>0, <1>2, <2>0, ActorsAssumption, ZenonT(60) DEF StartAttach, Typed, CallsTyped
  <2>2. /\ started'[t] /\ \A u \in Txs \ {t} : started'[u] = started[u]
        /\ lock'[t] = None /\ \A u \in Txs \ {t} : lock'[u] = lock[u]
        /\ currentTx' = t
        /\ UNCHANGED <<finishing, finished, fnsNil, todo, due, calls>>
    BY <1>2, <2>0, Zenon DEF StartAttach, Typed, TypeOK, obsVars
  <2> HIDE DEF t
  <2>5. DueKept'
    BY <1>0, <2>1, <2>2, SMTT(30) DEF Kept, DueKept
  <2>7. OneStarter /\ Attached => Attached'
    <3> SUFFICES ASSUME OneStarter, Attached PROVE Attached'
      BY Zenon
    <3>1. currentTx = None /\ \A u \in Txs : started[u] => finishing[u]
      BY <1>0, <2>0, ZenonT(60) DEF Attached, CurrentTxIsRunning
    <3>2. ~finished[t]
      BY <2>0, Zenon DEF Safe, FinisherAlone, Kept, Ordered
    <3>3. CurrentTxIsRunning'
      BY <2>0, <2>2, <3>1, <3>2, Zenon DEF CurrentTxIsRunning
    <3>4. \A b \in Actors : pc'[b] \in {"startLock", "attach"} =>
              b \in Starters /\ pc'[b] # "attach"
      BY <1>0, <2>0, <2>1, ZenonT(60) DEF Attached, OneStarter
    <3>5. \A b \in Actors : pc[b] \in FinishPcs => on[b] \in Txs /\ on[b] # None
      BY <1>0, Zenon DEF Typed, CallsTyped
    <3>6. \A b \in Actors : pc'[b] \in FinishPcs => pc'[b] = pc[b] /\ on'[b] = on[b]
      BY <2>1, Zenon DEF FinishPcs
    <3>7. \A b \in Actors : pc[b] \in FinishPcs => pc[b] = "close" /\ on[b] # t
      BY <2>0, <3>1, <3>5, ZenonT(60) DEF Attached, Safe, FinisherAlone, Kept, Ordered
    <3>. QED BY <2>2, <3>3, <3>4, <3>6, <3>7, ZenonT(60) DEF Attached, FinishPcs
  <2>. QED BY <2>5, <2>7, Zenon
<1>3. CASE OnEndLocked(p) \/ AddEffectLocked(p)
  <2>1. /\ pc[p] \in {"onEndLock", "addEffectLock"} /\ Return(p)
        /\ UNCHANGED <<started, finishing, finished, lock, fnsNil, todo, currentTx, due, calls>>
    BY <1>3, Zenon DEF OnEndLocked, AddEffectLocked, ctxVars, obsVars
  <2>. QED BY <1>0, <2>1, KeptReturn, Zenon
<1>. QED BY <1>1, <1>2, <1>3, Zenon DEF Proceed

\* The goroutine spawned by Start and the teardown of the context.
LEMMA KeptRuntime ==
  ASSUME Typed, Safe, Kept, \/ \E t \in Txs : Watch(t)
                    \/ CtxCancel \/ TearDownReadTx \/ TearDownRollback
  PROVE  DueKept' /\ (Attached => Attached')
<1>0. Txs \subseteq Actors /\ Ctx \in Actors
  BY ActorsFacts, Zenon
<1>1. ASSUME NEW t \in Txs, Watch(t) PROVE DueKept' /\ (Attached => Attached')
  <2>1. pc[t] = "watch" /\ started[t] /\ t \in Actors
    BY <1>0, <1>1, Zenon DEF Watch, Kept, Ordered
  <2>2. CASE CompareAndSwap(t, t, "rollback")
    BY <1>1, <2>1, <2>2, KeptSwap, Zenon DEF Watch
  <2>3. CASE Return(t) /\ UNCHANGED finishing
    <3>1. UNCHANGED <<started, finishing, finished, lock, fnsNil, todo, currentTx, due, calls>>
      BY <1>1, <2>3, Zenon DEF Watch, ctxVars, obsVars
    <3>. QED BY <2>1, <2>3, <3>1, KeptReturn, Zenon
  <2>. QED BY <1>1, <2>2, <2>3, Zenon DEF Watch
<1>2. CASE CtxCancel
  BY <1>2, ZenonT(60) DEF CtxCancel, Kept, Ordered, DueKept, Attached, CurrentTxIsRunning,
              txVars, callVars, obsVars
<1>3. CASE TearDownReadTx
  <2>0. /\ pc[Ctx] = "idle"
        /\ UNCHANGED <<started, finishing, finished, lock, fnsNil, todo, currentTx, due, calls>>
    BY <1>3, Zenon DEF TearDownReadTx, txVars, ctxVars, obsVars
  <2>1. CASE Return(Ctx)
    BY <1>0, <2>0, <2>1, KeptReturn, Zenon
  <2>2. CASE currentTx # None /\ Invoke(Ctx, "tearDown", currentTx, None, None)
    <3>1. /\ pc'[Ctx] = "tearDown" /\ on'[Ctx] = currentTx /\ OthersStay(Ctx)
          /\ started[currentTx] /\ "tearDown" \notin Holding \cup FinishPcs
      BY <1>0, <2>2, InvokeIs, SMTT(30) DEF Kept, Ordered, Holding, FinishPcs
    <3>. QED BY <1>0, <2>0, <3>1, KeptQuiet, ZenonT(60)
  <2>. QED BY <1>3, <2>1, <2>2, Zenon DEF TearDownReadTx
<1>4. CASE TearDownRollback
  <2>0. pc[Ctx] = "tearDown" /\ started[on[Ctx]] /\ on[Ctx] \in Txs
    BY <1>0, <1>4, Zenon DEF TearDownRollback, Kept, Ordered, Typed, CallsTyped, CallPcs
  <2>1. CASE CompareAndSwap(Ctx, on[Ctx], "rollback")
    BY <1>0, <1>4, <2>0, <2>1, KeptSwap, ZenonT(60) DEF TearDownRollback
  <2>2. CASE Return(Ctx) /\ UNCHANGED finishing
    <3>1. UNCHANGED <<started, finishing, finished, lock, fnsNil, todo, currentTx, due, calls>>
      BY <1>4, <2>2, Zenon DEF TearDownRollback, ctxVars, obsVars
    <3>. QED BY <1>0, <2>0, <2>2, <3>1, KeptReturn, Zenon
  <2>. QED BY <1>4, <2>1, <2>2, Zenon DEF TearDownRollback
<1>. QED BY <1>1, <1>2, <1>3, <1>4, Zenon

\* A finisher that holds the lock goes on, in its loop or to the next point.
LEMMA KeptGoOn ==
  ASSUME Typed, Safe, Kept, NEW a \in Actors, pc[a] \in FinishPcs \ {"finishLock", "close"},
         \/ UNCHANGED callVars
         \/ \E point \in FinishPcs \ {"finishLock", "close"} :
                /\ Goto(a, point)
                /\ point \in {"apply", "callbacks"} => pc[a] \in {"apply", "callbacks"},
         UNCHANGED <<started, finishing, finished, lock, fnsNil, currentTx, due>>,
         \A t \in Txs, k \in Keys : calls[t][k] # <<>> => calls'[t][k] # <<>>,
         \A b \in Actors : pc'[b] \in {"apply", "callbacks"} =>
             \A k \in todo[on[b]] : k \in todo'[on[b]] \/ calls'[on[b]][k] # <<>>
  PROVE  DueKept' /\ (Attached => Attached')
<1>1. /\ OthersStay(a) /\ UNCHANGED on
      /\ pc'[a] \in FinishPcs \ {"finishLock", "close"}
      /\ pc'[a] \in {"apply", "callbacks"} => pc[a] \in {"apply", "callbacks"}
  <2>1. CASE UNCHANGED callVars
    BY <2>1, Zenon DEF callVars, OthersStay
  <2>2. CASE \E point \in FinishPcs \ {"finishLock", "close"} :
                /\ Goto(a, point)
                /\ point \in {"apply", "callbacks"} => pc[a] \in {"apply", "callbacks"}
    <3>1. PICK point \in FinishPcs \ {"finishLock", "close"} :
                /\ Goto(a, point)
                /\ point \in {"apply", "callbacks"} => pc[a] \in {"apply", "callbacks"}
      BY <2>2, Zenon
    <3>2. UNCHANGED on
      BY <3>1, Zenon DEF Goto
    <3>. QED BY <3>1, <3>2, GotoIs, Zenon
  <2>. QED BY <2>1, <2>2, Zenon
<1>2. /\ pc[a] \in Holding /\ pc[a] # "unborn" /\ lock[on[a]] = a
      /\ pc'[a] # "tearDown" /\ pc'[a] # "attach" /\ pc'[a] # "startLock"
  BY <1>1, Zenon DEF Holding, FinishPcs, Kept, Ordered
<1>4. DueKept'
  BY <1>1, DueMoves, Zenon DEF Kept
<1>6. Attached => Attached'
  <2>1. Attached => currentTx = on[a]
    BY Zenon DEF Attached
  <2>. QED BY <1>1, <1>2, <2>1, AttachedMoves, Zenon
<1>. QED BY <1>4, <1>6, Zenon

\* The finisher takes the lock and begins its loop over the callbacks.
LEMMA KeptFinishLock ==
  ASSUME Typed, Safe, Kept, NEW a \in Actors, FinishLock(a)
  PROVE  DueKept' /\ (Attached => Attached')
<1> DEFINE t == on[a]
<1>1. t \in Txs /\ pc[a] = "finishLock" /\ lock[t] = None /\ ~fnsNil[t] /\ None \notin Actors
  BY ActorsAssumption, Zenon DEF FinishLock, Typed, CallsTyped, FinishPcs, Kept, DueKept
<1>2. /\ pc'[a] \in {"apply", "callbacks"} /\ on'[a] = t /\ OthersStay(a)
      /\ UNCHANGED on
  <2>1. Goto(a, IF op[a] = "commit" THEN "apply" ELSE "callbacks")
    BY Zenon DEF FinishLock
  <2>2. UNCHANGED on
    BY <2>1, Zenon DEF Goto
  <2>. QED BY <2>1, <2>2, GotoIs, Zenon
<1>3. /\ lock'[t] = a /\ \A u \in Txs \ {t} : lock'[u] = lock[u]
      /\ due'[t] = todo'[t] /\ \A u \in Txs \ {t} : due'[u] = due[u] /\ todo'[u] = todo[u]
      /\ UNCHANGED <<started, finishing, finished, fnsNil, ctxVars, calls>>
  BY <1>1, ZenonT(60) DEF FinishLock, Typed, TypeOK
<1> HIDE DEF t
<1>6. DueKept'
  <2>1. \A u \in Txs : fnsNil'[u] => finishing'[u] /\ \A k \in due'[u] : calls'[u][k] # <<>>
    BY <1>1, <1>3, Zenon DEF Kept, DueKept
  <2>2. \A b \in Actors : pc'[b] = "finishLock" => ~fnsNil'[on'[b]]
    BY <1>2, <1>3, SMTT(30) DEF Kept, DueKept, OthersStay
  <2>3. \A b \in Actors : pc'[b] \in {"apply", "callbacks"} =>
            \A k \in due'[on'[b]] : k \in todo'[on'[b]] \/ calls'[on'[b]][k] # <<>>
    <3>1. \A b \in Actors \ {a} : pc[b] \in {"apply", "callbacks"} => on[b] \in Txs \ {t}
      BY <1>1, <1>2, ZenonT(60) DEF Safe, FinisherAlone, Typed, CallsTyped, FinishPcs
    <3>2. \A k \in due'[on'[a]] : k \in todo'[on'[a]]
      BY <1>2, <1>3, Zenon
    <3>3. ASSUME NEW b \in Actors \ {a}, pc'[b] \in {"apply", "callbacks"},
                 NEW k \in due'[on'[b]]
          PROVE  k \in todo'[on'[b]] \/ calls'[on'[b]][k] # <<>>
      <4>1. pc[b] \in {"apply", "callbacks"} /\ on'[b] = on[b] /\ on[b] \in Txs \ {t}
        BY <1>2, <3>1, <3>3, Zenon DEF OthersStay
      <4>2. due'[on[b]] = due[on[b]] /\ todo'[on[b]] = todo[on[b]] /\ calls' = calls
        BY <1>3, <4>1, Zenon
      <4>. QED BY <3>3, <4>1, <4>2, ZenonT(60) DEF Kept, DueKept
    <3>. QED BY <3>2, <3>3, Zenon
  <2>. QED BY <2>1, <2>2, <2>3, Zenon DEF DueKept
<1>8. Attached => Attached'
  <2>1. Attached => currentTx = t
    BY <1>1, Zenon DEF Attached, t, FinishPcs
  <2>. QED BY <1>2, <1>3, <2>1, AttachedMoves, Zenon DEF ctxVars
<1>. QED BY <1>6, <1>8, Zenon

\* The call of a callback is recorded, and no other is forgotten.
LEMMA ToldIs ==
  ASSUME Typed, NEW t \in Txs, NEW k \in Keys, NEW o \in Outcomes, calls[t][k] = <<>>,
         calls' = [calls EXCEPT ![t][k] = Append(@, o)]
  PROVE  /\ calls'[t][k] = <<o>>
         /\ \A u \in Txs, l \in Keys : u # t \/ l # k => calls'[u][l] = calls[u][l]
         /\ \A u \in Txs, l \in Keys : calls[u][l] # <<>> => calls'[u][l] # <<>>
<1>1. calls \in [Txs -> [Keys -> Seq(Outcomes)]]
  BY Zenon DEF Typed, TypeOK
<1>2. /\ calls'[t] = [calls[t] EXCEPT ![k] = Append(@, o)]
      /\ \A u \in Txs \ {t} : calls'[u] = calls[u]
  BY <1>1, Zenon
<1>3. calls'[t][k] = Append(calls[t][k], o) /\ \A l \in Keys \ {k} : calls'[t][l] = calls[t][l]
  BY <1>1, <1>2, Zenon
<1>4. Append(<<>>, o) = <<o>>
  OBVIOUS
<1>5. calls'[t][k] = <<o>>
  BY <1>3, <1>4, Zenon
<1>. QED BY <1>2, <1>3, <1>5, ZenonT(60)

\* An iteration of a loop over the callbacks.
LEMMA KeptTell ==
  ASSUME Typed, Safe, Kept, NEW a \in Actors, NEW k \in Keys,
         CallEndCallback(a, k) \/ CallErrCallback(a, k)
  PROVE  DueKept' /\ (Attached => Attached')
<1> DEFINE t == on[a]
<1>1. pc[a] \in {"callbacks", "errCallbacks"} /\ k \in todo[t] /\ t \in Txs
  BY Zenon DEF CallEndCallback, CallErrCallback, Typed, CallsTyped, FinishPcs
<1>2. PICK o \in Outcomes : calls' = [calls EXCEPT ![t][k] = Append(@, o)]
  BY Zenon DEF CallEndCallback, CallErrCallback, Outcomes, Outcome
<1>3. calls[t][k] = <<>>
  BY <1>1, Zenon DEF Safe, FinisherOK, FinishPcs
<1>4. /\ calls'[t][k] = <<o>>
      /\ \A u \in Txs, l \in Keys : calls[u][l] # <<>> => calls'[u][l] # <<>>
  BY <1>1, <1>2, <1>3, ToldIs, ZenonT(60)
<1>5. /\ UNCHANGED callVars \/ Goto(a, "detach")
      /\ UNCHANGED <<started, finishing, finished, lock, fnsNil, currentTx, due>>
      /\ \A u \in Txs \ {t} : todo'[u] = todo[u]
      /\ pc'[a] = "callbacks" => todo'[t] = todo[t] \ {k}
  <2>1. todo \in [Txs -> SUBSET Keys] /\ pc \in [Actors -> Pcs]
    BY Zenon DEF Typed, TypeOK, CallsTyped
  <2>2. CASE CallEndCallback(a, k)
    BY <1>1, <2>1, <2>2, Zenon DEF CallEndCallback, ctxVars
  <2>3. CASE CallErrCallback(a, k)
    <3>1. pc'[a] # "callbacks"
      BY <2>1, <2>3, Zenon DEF CallErrCallback, Goto, callVars
    <3>2. todo' = [todo EXCEPT ![t] = @ \ {k}] \/ todo' = [todo EXCEPT ![t] = {}]
      BY <2>3, Zenon DEF CallErrCallback
    <3>3. \A u \in Txs \ {t} : todo'[u] = todo[u]
      BY <1>1, <2>1, <3>2, Zenon
    <3>. QED BY <2>3, <3>1, <3>3, Zenon DEF CallErrCallback, ctxVars
  <2>. QED BY <2>2, <2>3, Zenon
<1>6. \A b \in Actors : pc'[b] \in {"apply", "callbacks"} =>
         \A l \in todo[on[b]] : l \in todo'[on[b]] \/ calls'[on[b]][l] # <<>>
  <2>1. OthersStay(a) /\ (pc'[a] \in {"apply", "callbacks"} => pc'[a] = "callbacks")
    <3>1. CASE UNCHANGED callVars
      BY <1>1, <3>1, Zenon DEF callVars, OthersStay
    <3>2. CASE Goto(a, "detach")
      BY <3>2, GotoIs, SMTT(30)
    <3>. QED BY <1>5, <3>1, <3>2, Zenon
  <2>2. \A b \in Actors \ {a} : pc[b] \in {"apply", "callbacks"} => on[b] \in Txs \ {t}
    BY <1>1, Zenon DEF Safe, FinisherAlone, Typed, CallsTyped, FinishPcs
  <2> HIDE DEF t
  <2>3. calls'[t][k] # <<>>
    BY <1>4, SMTT(30)
  <2>4. ASSUME NEW b \in Actors, pc'[b] \in {"apply", "callbacks"}, NEW l \in todo[on[b]]
        PROVE  l \in todo'[on[b]] \/ calls'[on[b]][l] # <<>>
    <3>1. CASE b = a
      <4>1. on[b] = t
        BY <3>1, Zenon DEF t
      <4>. QED BY <1>5, <2>1, <2>3, <2>4, <3>1, <4>1, Zenon
    <3>2. CASE b # a
      BY <1>5, <2>1, <2>2, <2>4, <3>2, Zenon DEF OthersStay
    <3>. QED BY <3>1, <3>2, Zenon
  <2>. QED BY <2>4, Zenon
<1>7. {"detach", pc[a]} \subseteq FinishPcs \ {"finishLock", "close"}
  BY <1>1, Zenon DEF FinishPcs
<1>. QED BY <1>4, <1>5, <1>6, <1>7, KeptGoOn, Zenon

\* The other steps of the finisher.
LEMMA KeptFinish ==
  ASSUME Typed, Safe, Kept, NEW a \in Actors, Finish(a)
  PROVE  DueKept' /\ (Attached => Attached')
<1>0. pc[a] \in FinishPcs => on[a] \in Txs
  BY Zenon DEF Typed, CallsTyped
<1>g. ASSUME NEW point \in {"callbacks", "errCallbacks", "reverse", "detach"},
             pc[a] \in {"apply", "callbacks", "errCallbacks", "reverse"},
             UNCHANGED callVars \/ Goto(a, point),
             point = "callbacks" => pc[a] = "apply",
             UNCHANGED <<started, finishing, finished, lock, fnsNil, todo, ctxVars, obsVars>>
      PROVE  DueKept' /\ (Attached => Attached')
  <2>1. /\ point \in FinishPcs \ {"finishLock", "close"}
        /\ pc[a] \in FinishPcs \ {"finishLock", "close"}
        /\ point \in {"apply", "callbacks"} => pc[a] \in {"apply", "callbacks"}
    BY <1>g, Zenon DEF FinishPcs
  <2>. QED BY <1>g, <2>1, KeptGoOn, Zenon DEF ctxVars, obsVars
<1>1. CASE FinishLock(a)
  BY <1>1, KeptFinishLock, Zenon
<1>2. CASE ApplyEffect(a)
  BY <1>2, <1>g, Zenon DEF ApplyEffect
<1>3. CASE EffectsApplied(a)
  BY <1>3, <1>g, Zenon DEF EffectsApplied, txVars
<1>4. ASSUME NEW k \in Keys, CallEndCallback(a, k) \/ CallErrCallback(a, k)
      PROVE  DueKept' /\ (Attached => Attached')
  BY <1>4, KeptTell, Zenon
<1>5. CASE CallbacksCalled(a)
  <2> DEFINE t == on[a]
             point == IF op[a] = "commit" THEN "detach" ELSE "reverse"
  <2>1. /\ t \in Txs /\ pc[a] = "callbacks" /\ todo[t] = {} /\ finishing[t] /\ Goto(a, point)
        /\ UNCHANGED <<started, finishing, finished, lock, todo, ctxVars, obsVars>>
    BY <1>0, <1>5, Zenon DEF CallbacksCalled, FinishPcs, Safe, FinisherAlone
  <2>2. fnsNil'[t] /\ \A u \in Txs \ {t} : fnsNil'[u] = fnsNil[u]
    BY <1>5, <2>1, Zenon DEF CallbacksCalled, Typed, TypeOK
  <2>3. pc'[a] \in {"detach", "reverse"} /\ on'[a] = t /\ OthersStay(a)
    BY <2>1, GotoIs, ZenonT(60)
  <2>4. /\ \A b \in Actors \ {a} : pc[b] \in FinishPcs => on[b] \in Txs \ {t}
        /\ pc[a] \in Holding /\ pc'[a] \in Holding /\ pc'[a] \in FinishPcs \ {"close"}
    BY <2>1, <2>3, Zenon DEF Safe, FinisherAlone, Typed, CallsTyped, FinishPcs, Holding
  <2> HIDE DEF point
  <2>6. DueKept'
    <3>1. \A k \in due[t] : calls[t][k] # <<>>
      BY <2>1, Zenon DEF Kept, DueKept
    <3> HIDE DEF t
    <3>2. \A u \in Txs : fnsNil'[u] => finishing'[u] /\ \A k \in due'[u] : calls'[u][k] # <<>>
      BY <2>1, <2>2, <3>1, ZenonT(60) DEF Kept, DueKept, obsVars
    <3>3. \A b \in Actors : pc'[b] = "finishLock" => ~fnsNil'[on'[b]]
      <4>1. \A b \in Actors \ {a} : pc[b] = "finishLock" => on[b] \in Txs \ {t}
        BY <2>4, Zenon DEF FinishPcs
      <4>. QED BY <2>2, <2>3, <4>1 DEF Kept, DueKept, OthersStay
    <3>4. \A b \in Actors : pc'[b] \in {"apply", "callbacks"} =>
              \A k \in due'[on'[b]] : k \in todo'[on'[b]] \/ calls'[on'[b]][k] # <<>>
      <4>1. \A b \in Actors : pc'[b] \in {"apply", "callbacks"} => pc'[b] = pc[b] /\ on'[b] = on[b]
        BY <2>3, Zenon DEF OthersStay
      <4>. QED BY <2>1, <4>1, SMTT(30) DEF Kept, DueKept, obsVars
    <3>. QED BY <3>2, <3>3, <3>4, ZenonT(60) DEF DueKept
  <2>8. Attached => Attached'
    <3>1. Attached => currentTx = t
      BY <2>1, Zenon DEF Attached, FinishPcs
    <3>. QED BY <2>1, <2>3, <3>1, AttachedMoves, Zenon DEF ctxVars
  <2>. QED BY <2>6, <2>8, ZenonT(60)
<1>7. CASE ErrCallbacksCalled(a)
  BY <1>7, <1>g, Zenon DEF ErrCallbacksCalled, txVars
<1>8. CASE ReverseEffect(a)
  BY <1>8, <1>g, Zenon DEF ReverseEffect
<1>9. CASE EffectsReversed(a)
  BY <1>9, <1>g, Zenon DEF EffectsReversed, txVars
<1>10. CASE FinishDetach(a)
  <2>1. /\ pc[a] = "detach" /\ currentTx' = None /\ Goto(a, "close") /\ on[a] \in Txs
        /\ UNCHANGED <<started, finishing, finished, lock, fnsNil, todo, obsVars>>
    BY <1>0, <1>10, Zenon DEF FinishDetach, FinishPcs, txVars
  <2>2. /\ pc'[a] = "close" /\ on'[a] = on[a] /\ OthersStay(a)
        /\ pc[a] \in Holding /\ None \notin Txs
    BY <2>1, GotoIs, ActorsAssumption, Zenon DEF Holding, FinishPcs, Actors
  <2>4. DueKept'
    BY <2>1, <2>2, DueMoves, Zenon DEF Kept, obsVars
  <2>6. Attached => Attached'
    <3> SUFFICES ASSUME Attached PROVE Attached'
      BY Zenon
    <3>1. currentTx = on[a] /\ finishing[on[a]]
      BY <2>1, Zenon DEF Attached, FinishPcs, Safe, FinisherAlone
    <3>2. CurrentTxIsRunning'
      BY <2>1, <3>1, Zenon DEF Attached, CurrentTxIsRunning
    <3>3. \A b \in Actors \ {a} : pc[b] \in FinishPcs => pc[b] = "close" /\ on[b] \in Txs
      BY <2>1, <3>1, ZenonT(60) DEF Attached, Safe, FinisherAlone, Typed, CallsTyped, FinishPcs
    <3>4. \A b \in Actors : pc'[b] \in FinishPcs => pc'[b] = "close" /\ on'[b] \in Txs
      BY <2>1, <2>2, <3>3, Zenon DEF OthersStay
    <3>5. \A b \in Actors : pc'[b] \in {"startLock", "attach"} => b \in Starters
      BY <2>2, Zenon DEF Attached, OthersStay
    <3>. QED BY <2>1, <2>2, <3>2, <3>4, <3>5, Zenon DEF Attached, FinishPcs
  <2>. QED BY <2>4, <2>6, ZenonT(60)
<1>11. CASE FinishClose(a)
  <2> DEFINE t == on[a]
  <2>1. /\ pc[a] = "close" /\ t \in Txs /\ Return(a)
        /\ UNCHANGED <<started, finishing, fnsNil, todo, ctxVars, obsVars>>
    BY <1>0, <1>11, Zenon DEF FinishClose, FinishPcs
  <2>2. /\ lock'[t] = None /\ \A u \in Txs \ {t} : lock'[u] = lock[u] /\ finished'[u] = finished[u]
    BY <1>11, <2>1, Zenon DEF FinishClose, Typed, TypeOK
  <2>3. /\ pc'[a] \in {"idle", "done"} /\ OthersStay(a)
        /\ pc[a] \in Holding /\ lock[t] = a
    BY <2>1, ReturnIs, Zenon DEF Holding, FinishPcs, Kept, Ordered
  <2>4. pc'[a] \notin Holding /\ pc'[a] \notin FinishPcs
    BY <2>3, Zenon DEF Holding, FinishPcs
  <2>6. DueKept'
    BY <2>1, <2>3, DueMoves, Zenon DEF Kept, obsVars
  <2>8. Attached => Attached'
    <3> SUFFICES ASSUME Attached PROVE Attached'
      BY ZenonT(60)
    <3>1. currentTx # t
      BY <2>1, Zenon DEF Attached
    <3>0. currentTx \in Txs \cup {None}
      BY Zenon DEF Typed, TypeOK
    <3>2. CurrentTxIsRunning'
      BY <2>1, <2>2, <3>0, <3>1, Zenon DEF Attached, CurrentTxIsRunning, ctxVars
    <3>. QED BY <2>1, <2>3, <2>4, <3>2, Zenon DEF Attached, OthersStay, ctxVars, FinishPcs
  <2>. QED BY <2>6, <2>8, ZenonT(60)
<1>. QED BY <1>1, <1>2, <1>3, <1>4, <1>5, <1>7, <1>8, <1>9, <1>10, <1>11, ZenonT(60) DEF Finish

\* Every step keeps the invariants.
LEMMA KeptNext == Inv /\ Kept /\ [Next]_vars => Kept' /\ (OneStarter /\ Attached => Attached')
<1> SUFFICES ASSUME Typed, Safe, Kept, [Next]_vars
             PROVE  DueKept' /\ (OneStarter /\ Attached => Attached')
  BY OrderedNext, Zenon DEF Inv, Kept
<1>1. CASE UNCHANGED vars
  <2>1. DueKept'
    BY <1>1, Zenon DEF vars, txVars, callVars, obsVars, Kept, DueKept
  <2>2. Attached => Attached'
    BY <1>1, Zenon DEF vars, txVars, ctxVars, callVars, Attached, CurrentTxIsRunning
  <2>. QED BY <2>1, <2>2, Zenon
<1>. QED BY <1>1, KeptCallMethod, KeptProceed, KeptRuntime, KeptFinish, Zenon DEF Next

\* The invariants hold before any transaction is started.
LEMMA KeptInit == Init => Kept /\ Attached
<1> SUFFICES ASSUME Init PROVE Kept /\ Attached
  BY Zenon
<1>1. /\ \A t \in Txs : ~started[t] /\ ~finishing[t] /\ ~fnsNil[t] /\ pc[t] = "unborn"
      /\ \A a \in Actors : pc[a] \in {"unborn", "idle"}
      /\ currentTx = None
  BY ActorsFacts, Zenon DEF Init
<1>2. Ctx \in Actors
  BY ActorsFacts, Zenon
<1>4. DueKept
  BY <1>1, Zenon DEF DueKept
<1>6. Attached
  BY <1>1, Zenon DEF Attached, CurrentTxIsRunning, FinishPcs
<1>. QED BY <1>4, <1>6, OrderedInit, Zenon DEF Kept

LEMMA SpecKept == Spec => [](Inv /\ Kept)
<1>1. Init => Inv /\ Kept
  BY TypedInit, SafeInit, KeptInit, Zenon DEF Inv
<1>2. Inv /\ Kept /\ [Next]_vars => (Inv /\ Kept)'
  BY InvNext, KeptNext, Zenon
<1>. QED BY <1>1, <1>2, PTL DEF Spec

\* Once the end of a transaction went through the recovering loop, every callback
\* registered when the finisher took the lock has been called, panics or not.
THEOREM DueCalled == Spec => []DueCallbacksCalled
<1>1. Inv /\ Kept => DueCallbacksCalled
  BY Zenon DEF Kept, DueKept, DueCallbacksCalled
<1>. QED BY <1>1, SpecKept, PTL

\* With one goroutine starting transactions, a running transaction is the one the
\* context returns, and the context never returns a finished one.
THEOREM CurrentIsRunning ==
  ASSUME OneStarter
  PROVE  Spec => []CurrentTxIsRunning
<1>1. Init => Inv /\ Kept /\ Attached
  BY TypedInit, SafeInit, KeptInit, Zenon DEF Inv
<1>2. Inv /\ Kept /\ Attached /\ [Next]_vars => (Inv /\ Kept /\ Attached)'
  BY InvNext, KeptNext, Zenon
<1>3. Attached => CurrentTxIsRunning
  BY Zenon DEF Attached
<1>. QED BY <1>1, <1>2, <1>3, PTL DEF Spec

-----------------------------------------------------------------------------
(* Finished() is final.                                                    *)

\* An effect belongs to one transaction, and to one call that adds it.
EffectsApart ==
    /\ \A t, u \in Txs : \A i \in 1..Len(effects[t]), j \in 1..Len(effects[u]) :
           effects[t][i] = effects[u][j] => t = u
    /\ \A a \in Actors : arg[a] \in Effects =>
           /\ \A t \in Txs : \A i \in 1..Len(effects[t]) : effects[t][i] # arg[a]
           /\ \A b \in Actors : arg[b] = arg[a] => b = a

\* A step that adds no effect.
LEMMA ApartMoves ==
  ASSUME EffectsApart, UNCHANGED effects,
         \A b \in Actors : arg'[b] = arg[b] \/ arg'[b] \notin Effects
  PROVE  EffectsApart'
<1>1. \A b \in Actors : arg'[b] \in Effects => arg'[b] = arg[b]
  BY Zenon
<1>. QED BY <1>1 DEF EffectsApart

\* A call of AddEffect brings a new effect.
LEMMA ApartCheck ==
  ASSUME Typed, EffectsApart, NEW p \in Callers, NEW t \in Txs, NEW e \in Effects,
         AddEffectCheck(p, t, e)
  PROVE  EffectsApart'
<1>1. /\ Invoke(p, "addEffectLock", t, None, e) /\ UNCHANGED effects
      /\ \A u \in Txs : \A i \in 1..Len(effects[u]) : effects[u][i] # e
      /\ \A q \in Actors : arg[q] # e
  BY Zenon DEF AddEffectCheck, txVars
<1>2. arg'[p] = e /\ \A b \in Actors \ {p} : arg'[b] = arg[b]
  <2>1. p \in Actors
    BY ActorsFacts, Zenon
  <2>2. arg'[p] = e /\ OthersStay(p)
    BY <1>1, <2>1, InvokeIs, Zenon
  <2>. QED BY <2>2, Zenon DEF OthersStay
<1>3. \A u, v \in Txs : \A i \in 1..Len(effects'[u]), j \in 1..Len(effects'[v]) :
          effects'[u][i] = effects'[v][j] => u = v
  BY <1>1, ZenonT(60) DEF EffectsApart
<1>4. ASSUME NEW a \in Actors, arg'[a] \in Effects
      PROVE  /\ \A u \in Txs : \A i \in 1..Len(effects'[u]) : effects'[u][i] # arg'[a]
             /\ \A b \in Actors : arg'[b] = arg'[a] => b = a
  <2>1. CASE a = p
    BY <1>1, <1>2, <2>1, Zenon
  <2>2. CASE a # p
    <3>1. arg'[a] = arg[a] /\ arg[a] # e
      BY <1>1, <1>2, <2>2, Zenon
    <3>2. /\ \A u \in Txs : \A i \in 1..Len(effects[u]) : effects[u][i] # arg[a]
          /\ \A b \in Actors : arg[b] = arg[a] => b = a
      BY <1>4, <3>1, Zenon DEF EffectsApart
    <3>3. \A b \in Actors : arg'[b] = arg[a] => b # p /\ arg'[b] = arg[b]
      BY <1>2, <3>1, Zenon
    <3>. QED BY <1>1, <3>1, <3>2, <3>3, ZenonT(60)
  <2>. QED BY <2>1, <2>2, Zenon
<1>. QED BY <1>3, <1>4, Zenon DEF EffectsApart

\* The effect moves from the call to the transaction.
LEMMA ApartLocked ==
  ASSUME Typed, EffectsApart, NEW p \in Callers, NEW t \in Txs, on[p] = t, AddEffectLocked(p)
  PROVE  EffectsApart'
<1> DEFINE e == arg[p]
<1>0. p \in Actors /\ e \in Effects /\ None \notin Effects
  BY ActorsFacts, ActorsAssumption, Zenon DEF AddEffectLocked, Typed, CallsTyped, CallPcs
<1>1. Return(p) /\ effects' = [effects EXCEPT ![t] = Append(@, e)]
  BY Zenon DEF AddEffectLocked
<1>2. arg'[p] = None /\ \A b \in Actors \ {p} : arg'[b] = arg[b]
  BY <1>0, <1>1, ReturnIs, Zenon DEF OthersStay
<1>3. /\ effects[t] \in Seq(Effects) /\ effects'[t] = Append(effects[t], e)
      /\ \A u \in Txs \ {t} : effects'[u] = effects[u]
  BY <1>1, Zenon DEF Typed, TypeOK
<1>4. /\ \A u \in Txs : \A i \in 1..Len(effects[u]) : effects[u][i] # e
      /\ \A b \in Actors : arg[b] = e => b = p
  BY <1>0, Zenon DEF EffectsApart
<1> HIDE DEF e
<1>5. \A i \in 1..Len(effects'[t]) :
          effects'[t][i] = e \/ \E j \in 1..Len(effects[t]) : effects'[t][i] = effects[t][j]
  BY <1>0, <1>3, SMTT(30)
<1>6. \A u \in Txs : \A i \in 1..Len(effects'[u]) :
          \/ u = t /\ effects'[u][i] = e
          \/ \E j \in 1..Len(effects[u]) : effects'[u][i] = effects[u][j]
  <2>1. ASSUME NEW u \in Txs, NEW i \in 1..Len(effects'[u]), u # t
        PROVE  \E j \in 1..Len(effects[u]) : effects'[u][i] = effects[u][j]
    <3>1. effects'[u] = effects[u]
      BY <1>3, <2>1, Zenon
    <3>. QED BY <3>1, Zenon
  <2>. QED BY <1>5, <2>1, SMTT(30)
<1>7. ASSUME NEW u \in Txs, NEW v \in Txs, NEW i \in 1..Len(effects'[u]),
             NEW j \in 1..Len(effects'[v]), effects'[u][i] = effects'[v][j]
      PROVE  u = v
  <2>1. CASE effects'[u][i] = e
    <3>1. ~\E l \in 1..Len(effects[u]) : effects'[u][i] = effects[u][l]
      BY <1>4, <2>1, Zenon
    <3>2. ~\E l \in 1..Len(effects[v]) : effects'[v][j] = effects[v][l]
      BY <1>4, <1>7, <2>1, Zenon
    <3>3. u = t
      BY <1>6, <3>1, Zenon
    <3>4. v = t
      BY <1>6, <3>2, Zenon
    <3>. QED BY <3>3, <3>4, Zenon
  <2>2. CASE effects'[u][i] # e
    <3>1. PICK l \in 1..Len(effects[u]) : effects'[u][i] = effects[u][l]
      BY <1>6, <2>2, Zenon
    <3>2. PICK m \in 1..Len(effects[v]) : effects'[v][j] = effects[v][m]
      BY <1>6, <1>7, <2>2, Zenon
    <3>. QED BY <1>7, <3>1, <3>2, ZenonT(60) DEF EffectsApart
  <2>. QED BY <2>1, <2>2, Zenon
<1>8. \A b \in Actors : arg'[b] \in Effects => b # p /\ arg'[b] = arg[b] /\ arg[b] # e
  BY <1>0, <1>2, <1>4, ZenonT(60)
<1>9. \A b \in Actors : arg'[b] \in Effects =>
         /\ \A u \in Txs : \A i \in 1..Len(effects'[u]) : effects'[u][i] # arg'[b]
         /\ \A c \in Actors : arg'[c] = arg'[b] => c = b
  <2> SUFFICES ASSUME NEW b \in Actors, arg'[b] \in Effects
               PROVE  /\ \A u \in Txs : \A i \in 1..Len(effects'[u]) : effects'[u][i] # arg'[b]
                      /\ \A c \in Actors : arg'[c] = arg'[b] => c = b
    BY Zenon
  <2>1. arg'[b] = arg[b] /\ arg[b] # e /\ arg[b] \in Effects
    BY <1>8, Zenon
  <2>2. \A u \in Txs : \A i \in 1..Len(effects[u]) : effects[u][i] # arg[b]
    BY <2>1, Zenon DEF EffectsApart
  <2>3. \A c \in Actors : arg'[c] = arg'[b] => c = b
    BY <1>8, <2>1, Zenon DEF EffectsApart
  <2>. QED BY <1>6, <2>1, <2>2, <2>3, SMTT(30)
<1>. QED BY <1>7, <1>9, ZenonT(60) DEF EffectsApart

LEMMA ApartNext == Typed /\ EffectsApart /\ [Next]_vars => EffectsApart'
<1> SUFFICES ASSUME Typed, EffectsApart, [Next]_vars PROVE EffectsApart'
  BY Zenon
<1>i. ASSUME NEW a \in Actors, NEW point, NEW t, NEW o, NEW x, x \notin Effects,
             Invoke(a, point, t, o, x), UNCHANGED effects
      PROVE  EffectsApart'
  <2>1. arg'[a] = x /\ \A b \in Actors \ {a} : arg'[b] = arg[b]
    BY <1>i, InvokeIs DEF OthersStay
  <2>. QED BY <1>i, <2>1, ApartMoves, Zenon
<1>r. ASSUME NEW a \in Actors, NEW t, NEW o, UNCHANGED effects,
             Return(a) \/ CompareAndSwap(a, t, o)
      PROVE  EffectsApart'
  <2>1. None \notin Effects
    BY ActorsAssumption, Zenon
  <2>. QED BY <1>i, <1>r, <2>1, Zenon DEF Return, CompareAndSwap
<1>k. ASSUME UNCHANGED <<effects, arg>> PROVE EffectsApart'
  BY <1>k, ApartMoves, Zenon
<1>1. ASSUME NEW p \in Callers, NEW t \in Txs, CallMethod(p, t) PROVE EffectsApart'
  <2>0. p \in Actors /\ None \notin Effects /\ \A k \in Keys : k \notin Effects
    BY ActorsFacts, ActorsAssumption, Zenon
  <2>1. CASE StartCheck(p, t) \/ \E k \in Keys : OnEndCheck(p, t, k)
    <3>1. PICK point, x : Invoke(p, point, t, None, x) /\ x \notin Effects /\ UNCHANGED effects
      BY <2>0, <2>1, Zenon DEF StartCheck, OnEndCheck, txVars
    <3>. QED BY <1>i, <2>0, <3>1, Zenon
  <2>2. CASE CallCommit(p, t) \/ CallRollback(p, t)
    BY <1>r, <2>0, <2>2, Zenon DEF CallCommit, CallRollback
  <2>. QED BY <1>1, <2>1, <2>2, ApartCheck, ZenonT(60) DEF CallMethod
<1>2. ASSUME NEW p \in Callers, Proceed(p) PROVE EffectsApart'
  <2>0. p \in Actors
    BY ActorsFacts, Zenon
  <2>1. CASE AddEffectLocked(p)
    <3>1. on[p] \in Txs
      BY <2>0, <2>1, Zenon DEF AddEffectLocked, Typed, CallsTyped, CallPcs
    <3>. QED BY <2>1, <3>1, ApartLocked, Zenon
  <2>2. CASE StartLocked(p) \/ StartAttach(p) \/ OnEndLocked(p)
    <3>1. UNCHANGED effects /\ (Return(p) \/ UNCHANGED arg)
      BY <2>2, Zenon DEF StartLocked, StartAttach, OnEndLocked, Goto
    <3>. QED BY <1>r, <1>k, <2>0, <3>1, Zenon
  <2>. QED BY <1>2, <2>1, <2>2, Zenon DEF Proceed
<1>3. CASE (\E t \in Txs : Watch(t)) \/ TearDownRollback
  <2>1. \E a \in Actors : \E t, o : Return(a) \/ CompareAndSwap(a, t, o)
    BY <1>3, ActorsFacts, Zenon DEF Watch, TearDownRollback
  <2>2. UNCHANGED effects
    BY <1>3, Zenon DEF Watch, TearDownRollback
  <2>. QED BY <1>r, <2>1, <2>2, Zenon
<1>4. CASE TearDownReadTx
  <2>1. /\ Ctx \in Actors /\ None \notin Effects /\ UNCHANGED effects
        /\ Return(Ctx) \/ Invoke(Ctx, "tearDown", currentTx, None, None)
    BY <1>4, ActorsFacts, ActorsAssumption, Zenon DEF TearDownReadTx, txVars
  <2>. QED BY <1>i, <1>r, <2>1, Zenon
<1>5. CASE CtxCancel \/ UNCHANGED vars
  BY <1>k, <1>5, Zenon DEF CtxCancel, vars, txVars, callVars
<1>6. ASSUME NEW a \in Actors, Finish(a) PROVE EffectsApart'
  <2>1. UNCHANGED effects /\ (UNCHANGED arg \/ Return(a))
    BY <1>6, ZenonT(60) DEF Finish, FinishLock, ApplyEffect, EffectsApplied, CallEndCallback,
         CallbacksCalled, CallErrCallback, ErrCallbacksCalled, ReverseEffect, EffectsReversed,
         FinishDetach, FinishClose, Goto, txVars, callVars
  <2>. QED BY <1>k, <1>r, <2>1, Zenon
<1>. QED BY <1>1, <1>2, <1>3, <1>4, <1>5, <1>6, ZenonT(60) DEF Next

LEMMA SpecApart == Spec => [](Inv /\ EffectsApart)
<1>1. Init => Inv /\ EffectsApart
  <2>1. Init => EffectsApart
    BY ActorsAssumption DEF Init, EffectsApart
  <2>. QED BY <2>1, TypedInit, SafeInit, Zenon DEF Inv
<1>2. Inv /\ EffectsApart /\ [Next]_vars => (Inv /\ EffectsApart)'
  BY InvNext, ApartNext, Zenon DEF Inv
<1>. QED BY <1>1, <1>2, PTL DEF Spec

\* A loop over the effects touches none of a finished transaction.
LEMMA EffectsOfOthers ==
  ASSUME Inv, EffectsApart, NEW a \in Actors, ApplyEffect(a) \/ ReverseEffect(a),
         NEW t \in Txs, finished[t], NEW i \in 1..Len(effects[t])
  PROVE  effects[t][i] \in applied <=> effects[t][i] \in applied'
<1> DEFINE u == on[a]  x == effects[u][idx[u] + 1]
<1>1. u \in Txs /\ u # t
  BY ZenonT(60)
   DEF ApplyEffect, ReverseEffect, Inv, Typed, CallsTyped, FinishPcs, Safe, FinisherAlone
<1>2. idx[u] + 1 \in 1..Len(effects[u])
  <2>1. idx[u] \in Nat /\ effects[u] \in Seq(Effects)
    BY <1>1, ZenonT(60) DEF Inv, Typed, TypeOK
  <2>2. Len(effects[u]) \in Nat /\ idx[u] < Len(effects[u])
    BY <2>1 DEF ApplyEffect, ReverseEffect
  <2>. QED BY <2>1, <2>2, SMTT(30)
<1>3. effects[t][i] # x
  BY <1>1, <1>2, Zenon DEF EffectsApart
<1>4. applied' = applied \/ applied' = applied \cup {x} \/ applied' = applied \ {x}
  BY Zenon DEF ApplyEffect, ReverseEffect
<1> HIDE DEF x
<1>. QED BY <1>3, <1>4, Zenon

\* Once Finished() is closed no end callback is called any more and no effect is
\* applied or reversed, whoever else is still finishing another transaction.
THEOREM FinishedStaysFinal == Spec => FinishedIsFinal
<1>1. ASSUME Inv, EffectsApart, [Next]_vars, NEW t \in Txs, finished[t]
      PROVE  /\ calls'[t] = calls[t]
             /\ \A i \in 1..Len(effects[t]) :
                    effects[t][i] \in applied <=> effects[t][i] \in applied'
             /\ finished'[t]
  <2>1. CASE UNCHANGED <<applied, calls, finished>>
    BY <1>1, <2>1, Zenon
  <2>2. ASSUME NEW a \in Actors, ApplyEffect(a) \/ ReverseEffect(a), UNCHANGED <<calls, finished>>
        PROVE  /\ calls'[t] = calls[t] /\ finished'[t]
               /\ \A i \in 1..Len(effects[t]) :
                      effects[t][i] \in applied <=> effects[t][i] \in applied'
    BY <1>1, <2>2, EffectsOfOthers, Zenon
  <2>3. ASSUME NEW a \in Actors, NEW k \in Keys, CallEndCallback(a, k) \/ CallErrCallback(a, k)
        PROVE  calls'[t] = calls[t] /\ UNCHANGED <<applied, finished>>
    <3>1. on[a] \in Txs /\ on[a] # t
      BY <1>1, <2>3, ZenonT(60)
       DEF CallEndCallback, CallErrCallback, Inv, Typed, CallsTyped, FinishPcs,
                        Safe, FinisherAlone
    <3>2. calls \in [Txs -> [Keys -> Seq(Outcomes)]]
      BY <1>1, Zenon DEF Inv, Typed, TypeOK
    <3>3. PICK o : calls' = [calls EXCEPT ![on[a]][k] = Append(@, o)]
      BY <2>3, Zenon DEF CallEndCallback, CallErrCallback
    <3>4. calls'[t] = calls[t]
      BY <3>1, <3>2, <3>3, Zenon
    <3>. QED BY <2>3, <3>4, Zenon DEF CallEndCallback, CallErrCallback
  <2>4. ASSUME NEW a \in Actors, FinishClose(a)
        PROVE  finished'[t] /\ UNCHANGED <<applied, calls>>
    BY <1>1, <2>4, Zenon DEF FinishClose, Inv, Typed, TypeOK, obsVars
  <2>5. CASE UNCHANGED vars
    BY <2>1, <2>5, Zenon DEF vars, txVars, obsVars
  <2>6. ASSUME NEW p \in Callers, NEW u \in Txs, CallMethod(p, u)
        PROVE  UNCHANGED <<applied, calls, finished>>
    BY <2>6, Zenon DEF CallMethod, StartCheck, OnEndCheck, AddEffectCheck, CallCommit, CallRollback,
                txVars, obsVars
  <2>7. ASSUME NEW p \in Callers, Proceed(p) PROVE UNCHANGED <<applied, calls, finished>>
    BY <2>7, Zenon DEF Proceed, StartLocked, StartAttach, OnEndLocked, AddEffectLocked, obsVars
  <2>8. CASE (\E u \in Txs : Watch(u)) \/ CtxCancel \/ TearDownReadTx \/ TearDownRollback
    <3>1. UNCHANGED <<applied, calls, finished>>
      BY <2>8, Zenon DEF Watch, CtxCancel, TearDownReadTx, TearDownRollback, txVars, obsVars
    <3>. QED BY <2>1, <3>1, Zenon
  <2>9. ASSUME NEW a \in Actors, Finish(a)
        PROVE  /\ calls'[t] = calls[t] /\ finished'[t]
               /\ \A i \in 1..Len(effects[t]) :
                      effects[t][i] \in applied <=> effects[t][i] \in applied'
    <3>1. CASE ApplyEffect(a) \/ ReverseEffect(a)
      <4>1. UNCHANGED <<calls, finished>>
        BY <3>1, Zenon DEF ApplyEffect, ReverseEffect, obsVars
      <4>. QED BY <2>2, <3>1, <4>1, ZenonT(60)
    <3>2. CASE FinishLock(a) \/ EffectsApplied(a) \/ CallbacksCalled(a) \/ ErrCallbacksCalled(a)
               \/ EffectsReversed(a) \/ FinishDetach(a)
      <4>1. UNCHANGED <<applied, calls, finished>>
        BY <3>2, Zenon DEF FinishLock, EffectsApplied, CallbacksCalled, ErrCallbacksCalled,
                    EffectsReversed, FinishDetach, txVars, obsVars
      <4>. QED BY <1>1, <4>1, Zenon
    <3>. QED BY <1>1, <2>3, <2>4, <2>9, <3>1, <3>2, ZenonT(60) DEF Finish
  <2>. QED BY <1>1, <2>1, <2>5, <2>6, <2>7, <2>8, <2>9, ZenonT(60) DEF Next
<1>2. Inv /\ EffectsApart /\ [Next]_vars =>
        [\A t \in Txs : finished[t] =>
           /\ calls'[t] = calls[t]
           /\ \A i \in 1..Len(effects[t]) : effects[t][i] \in applied <=> effects[t][i] \in applied'
           /\ finished'[t]]_vars
  BY <1>1, Zenon
<1>. QED BY <1>2, SpecApart, PTL DEF Spec, FinishedIsFinal

-----------------------------------------------------------------------------
(* A transaction's status is decided by its only finisher.                 *)

LEMMA StatusOfFinisher ==
  ASSUME Inv, NEW a \in Actors, pc[a] \in FinishPcs
  PROVE  on[a] \in Txs /\ Status(on[a]) = op[a] /\ op[a] \in {"commit", "rollback"}
<1> DEFINE t == on[a]  c == CHOOSE b \in Actors : pc[b] \in FinishPcs /\ on[b] = t
<1>1. t \in Txs /\ ~finished[t] /\ op[a] \in {"commit", "rollback"}
  BY Zenon DEF Inv, Safe, FinisherAlone, Typed, CallsTyped
<1>2. \E b \in Actors : pc[b] \in FinishPcs /\ on[b] = t
  BY Zenon
<1>3. c \in Actors /\ pc[c] \in FinishPcs /\ on[c] = t
  BY <1>2, Zenon
<1>4. c = a
  BY <1>3, Zenon DEF Inv, Safe, FinisherAlone
<1>5. Status(t) = op[c]
  BY <1>1, <1>2, Zenon DEF Status
<1>. QED BY <1>1, <1>4, <1>5, Zenon

LEMMA StatusOfFinishers ==
  Inv => \A c \in Actors : pc[c] \in FinishPcs => Status(on[c]) = op[c]
  BY StatusOfFinisher, Zenon

LEMMA StatusOfNextFinishers ==
  (Inv => \A c \in Actors : pc[c] \in FinishPcs => Status(on[c]) = op[c])'
  BY StatusOfFinishers, PTL

LEMMA StatusAlone ==
  ASSUME NEW t \in Txs, \A a \in Actors : pc[a] \in FinishPcs => on[a] # t
  PROVE  Status(t) = IF finished[t] THEN "ended" ELSE IF started[t] THEN "running" ELSE "created"
<1>1. ~\E a \in Actors : pc[a] \in FinishPcs /\ on[a] = t
  BY Zenon
<1>. QED BY <1>1, Zenon DEF Status

\* A transaction whose flags and whose finisher a step leaves alone keeps its status.
LEMMA StatusFrame ==
  ASSUME Inv, Inv', NEW t \in Txs, started'[t] = started[t], finished'[t] = finished[t],
         \A b \in Actors : pc'[b] \in FinishPcs /\ on'[b] = t <=> pc[b] \in FinishPcs /\ on[b] = t,
         \A b \in Actors : pc[b] \in FinishPcs /\ on[b] = t => op'[b] = op[b]
  PROVE  Status(t)' = Status(t)
<1>1. CASE \E b \in Actors : pc[b] \in FinishPcs /\ on[b] = t
  <2>1. PICK b \in Actors : pc[b] \in FinishPcs /\ on[b] = t
    BY <1>1, Zenon
  <2>2. Status(on[b]) = op[b]
    BY <2>1, StatusOfFinisher, Zenon
  <2>. QED BY <2>1, <2>2, StatusOfNextFinishers, Zenon
<1>2. CASE ~\E b \in Actors : pc[b] \in FinishPcs /\ on[b] = t
  BY <1>2, Zenon DEF Status
<1>. QED BY <1>1, <1>2, Zenon

\* The finishers are the same goroutines, with the same decision.
SameFinishers ==
    \A b \in Actors :
        /\ pc'[b] \in FinishPcs <=> pc[b] \in FinishPcs
        /\ pc[b] \in FinishPcs => on'[b] = on[b] /\ op'[b] = op[b]

\* Such a step, when it starts, ends and tells nothing, is no step of the abstract transaction.
LEMMA QuietRefines ==
  ASSUME Inv, Inv', SameFinishers, UNCHANGED <<started, finished, calls>>
  PROVE  UNCHANGED Abs!absVars
<1>1. \A t \in Txs : Status(t)' = Status(t)
  BY StatusFrame, Zenon DEF SameFinishers
<1>2. [t \in Txs |-> Status(t)]' = [t \in Txs |-> Status(t)]
  BY <1>1, Zenon
<1>. QED BY <1>2, Zenon DEF Abs!absVars

\* A goroutine that is no finisher before or after its step, or is one before and after.
LEMMA StaySame ==
  ASSUME NEW a \in Actors, OthersStay(a), pc'[a] \in FinishPcs <=> pc[a] \in FinishPcs,
         pc[a] \in FinishPcs => on'[a] = on[a] /\ op'[a] = op[a]
  PROVE  SameFinishers
  BY Zenon DEF SameFinishers, OthersStay

\* The successful compare-and-swap is the decision.
LEMMA SwapRefines ==
  ASSUME Inv, Inv', NEW a \in Actors, pc[a] \notin FinishPcs, NEW t \in Txs, started[t],
         NEW o \in {"commit", "rollback"}, CompareAndSwap(a, t, o),
         UNCHANGED <<started, finished, calls>>
  PROVE  Abs!Decide(t, o)
<1>1. ~finishing[t] /\ pc'[a] = "finishLock" /\ on'[a] = t /\ op'[a] = o /\ OthersStay(a)
  BY InvokeIs, ZenonT(60) DEF Inv, CompareAndSwap
<1>2. Status(t) = "running"
  <2>1. ~finished[t] /\ \A b \in Actors : pc[b] \in FinishPcs => on[b] # t
    BY <1>1, Zenon DEF Inv, Safe, FinisherAlone
  <2>. QED BY <2>1, StatusAlone, Zenon
<1>3. Status(t)' = o
  BY <1>1, StatusOfNextFinishers, Zenon DEF FinishPcs
<1>4. \A u \in Txs \ {t} : Status(u)' = Status(u)
  BY <1>1, StatusFrame, ZenonT(60) DEF OthersStay
<1>5. [u \in Txs |-> Status(u)]' = [[u \in Txs |-> Status(u)] EXCEPT ![t] = o]
  BY <1>3, <1>4, Zenon
<1>. QED BY <1>2, <1>5, Zenon DEF Abs!Decide

\* The assignment of startTime is the start.
LEMMA AttachRefines ==
  ASSUME Inv, Kept, Inv', NEW p \in Callers, NEW t \in Txs, on[p] = t, StartAttach(p)
  PROVE  Abs!Start(t)
<1>0. p \in Actors /\ t \in Actors /\ t # p /\ pc[p] = "attach" /\ ~started[t]
  BY ActorsFacts, ActorsAssumption, Zenon
  DEF StartAttach, Inv, Typed, CallsTyped, CallPcs, Kept, Ordered
<1>1. /\ pc'[p] = "idle" /\ pc'[t] = "watch" /\ pc[t] = "unborn"
      /\ \A b \in Actors \ {p} : on'[b] = on[b]
      /\ \A b \in Actors \ {p, t} : pc'[b] = pc[b]
  BY <1>0, ZenonT(60) DEF StartAttach, Inv, Typed, CallsTyped, Kept, Ordered
<1>2. /\ started'[t] /\ \A u \in Txs \ {t} : started'[u] = started[u]
      /\ UNCHANGED <<op, finishing, finished, calls>>
  BY <1>0, Zenon DEF StartAttach, Inv, Typed, TypeOK, obsVars
<1>3. /\ ~finished[t] /\ \A b \in Actors : pc[b] \in FinishPcs => on[b] # t
  BY <1>0, ZenonT(60) DEF Inv, Safe, FinisherAlone, Kept, Ordered, Typed, CallsTyped
<1>4. /\ \A b \in Actors : pc'[b] \in FinishPcs <=> pc[b] \in FinishPcs
      /\ \A b \in Actors : pc[b] \in FinishPcs => on'[b] = on[b]
  BY <1>0, <1>1, Zenon DEF FinishPcs
<1>5. Status(t) = "created"
  BY <1>0, <1>3, StatusAlone, Zenon
<1>6. Status(t)' = "running"
  BY <1>0, <1>2, <1>3, <1>4, Zenon DEF Status
<1>7. \A u \in Txs \ {t} : Status(u)' = Status(u)
  BY <1>2, <1>4, StatusFrame, Zenon
<1>8. [u \in Txs |-> Status(u)]' = [[u \in Txs |-> Status(u)] EXCEPT ![t] = "running"]
  BY <1>6, <1>7, Zenon
<1>. QED BY <1>2, <1>5, <1>8, ZenonT(60) DEF Abs!Start

\* The call of a callback tells it the decision.
LEMMA TellRefines ==
  ASSUME Inv, Inv', NEW a \in Actors, NEW t \in Txs, on[a] = t, NEW k \in Keys,
         CallEndCallback(a, k) \/ CallErrCallback(a, k)
  PROVE  Abs!Tell(t, k)
<1> DEFINE o == Outcome(op[a])
<1>1. pc[a] \in {"callbacks", "errCallbacks"} /\ k \in todo[t] /\ pc[a] \in FinishPcs
  BY Zenon DEF CallEndCallback, CallErrCallback, FinishPcs
<1>2. t \in Txs /\ Status(t) = op[a] /\ op[a] \in {"commit", "rollback"}
  BY <1>1, StatusOfFinisher, Zenon
<1>3. calls' = [calls EXCEPT ![t][k] = Append(@, o)] /\ o \in Outcomes
  BY <1>1, Zenon DEF CallEndCallback, CallErrCallback, Outcome, Outcomes, Inv, Safe, FinisherOK
<1>4. calls[t][k] = <<>>
  BY <1>1, Zenon DEF Inv, Safe, FinisherOK, FinishPcs
<1>5. /\ calls'[t][k] = <<o>>
      /\ \A u \in Txs, l \in Keys : u # t \/ l # k => calls'[u][l] = calls[u][l]
  BY <1>2, <1>3, <1>4, ToldIs, ZenonT(60) DEF Inv
<1>6. SameFinishers /\ UNCHANGED <<started, finished>>
  <2>1. UNCHANGED callVars \/ Goto(a, "detach")
    BY Zenon DEF CallEndCallback, CallErrCallback
  <2>2. UNCHANGED callVars => SameFinishers
    BY Zenon DEF callVars, SameFinishers
  <2>3. Goto(a, "detach") => SameFinishers
    BY <1>1, GotoIs, StaySame, Zenon DEF Inv, FinishPcs
  <2>4. UNCHANGED <<started, finished>>
    BY Zenon DEF CallEndCallback, CallErrCallback
  <2>. QED BY <2>1, <2>2, <2>3, <2>4, Zenon
<1>7. [u \in Txs |-> Status(u)]' = [u \in Txs |-> Status(u)]
  <2>1. \A u \in Txs : Status(u)' = Status(u)
    BY <1>6, StatusFrame, Zenon DEF SameFinishers
  <2>. QED BY <2>1, Zenon
<1> DEFINE Tells(s) == IF s = <<>> THEN "nothing" ELSE s[1]
           told == [u \in Txs |-> [l \in Keys |-> Tells(calls[u][l])]]
           toldNext == [u \in Txs |-> [l \in Keys |-> Tells(calls'[u][l])]]
<1>8. Tells(calls'[t][k]) = o /\ Tells(calls[t][k]) = "nothing"
  <2>1. <<o>> # <<>> /\ <<o>>[1] = o
    BY Zenon
  <2>. QED BY <1>4, <1>5, <2>1, Zenon
<1>9. \A u \in Txs, l \in Keys : u # t \/ l # k => Tells(calls'[u][l]) = Tells(calls[u][l])
  BY <1>5, ZenonT(60)
<1> HIDE DEF Tells, o
<1>10. toldNext = [told EXCEPT ![t][k] = o] /\ told[t][k] = "nothing"
  <2>1. toldNext[t] = [told[t] EXCEPT ![k] = o]
    BY <1>2, <1>8, <1>9, Zenon
  <2>2. \A u \in Txs \ {t} : toldNext[u] = told[u]
    BY <1>9, Zenon
  <2>3. toldNext = [told EXCEPT ![t] = [told[t] EXCEPT ![k] = o]]
    BY <1>2, <2>1, <2>2, Zenon
  <2>4. told[t][k] = "nothing"
    BY <1>2, <1>8, Zenon
  <2>. QED BY <2>3, <2>4, Zenon
<1>11. o = IF Status(t) = "commit" THEN "success" ELSE "failure"
  BY <1>2, Zenon DEF o, Outcome
<1>. QED BY <1>2, <1>7, <1>10, <1>11, Zenon DEF Abs!Tell, Tells

\* The closing of the Finished() channel is the end.
LEMMA CloseRefines ==
  ASSUME Inv, Inv', NEW a \in Actors, NEW t \in Txs, on[a] = t, FinishClose(a)
  PROVE  Abs!End(t)
<1>1. pc[a] \in FinishPcs /\ Return(a) /\ UNCHANGED <<started, calls>>
  BY Zenon DEF FinishClose, FinishPcs, obsVars
<1>2. Status(t) = op[a] /\ op[a] \in {"commit", "rollback"}
  BY <1>1, StatusOfFinisher, Zenon
<1>3. finished'[t] /\ \A u \in Txs \ {t} : finished'[u] = finished[u]
  BY Zenon DEF FinishClose, Inv, Typed, TypeOK
<1>4. pc'[a] \notin FinishPcs /\ OthersStay(a)
  BY <1>1, ReturnIs, Zenon DEF Inv, FinishPcs
<1>5. Status(t)' = "ended"
  BY <1>3, Zenon DEF Status
<1>6. \A u \in Txs \ {t} : Status(u)' = Status(u)
  BY <1>1, <1>3, <1>4, StatusFrame, ZenonT(60) DEF OthersStay
<1>7. [u \in Txs |-> Status(u)]' = [[u \in Txs |-> Status(u)] EXCEPT ![t] = "ended"]
  BY <1>5, <1>6, Zenon
<1>. QED BY <1>1, <1>2, <1>7, ZenonT(60) DEF Abs!End

\* Every step of the methods is a step of the abstract transaction, or none.
LEMMA NextRefines == Inv /\ Kept /\ Inv' /\ [Next]_vars => [Abs!Next]_Abs!absVars
<1> SUFFICES ASSUME Inv, Kept, Inv', [Next]_vars PROVE Abs!Next \/ UNCHANGED Abs!absVars
  BY Zenon
<1>0. Callers \subseteq Actors /\ Txs \subseteq Actors /\ Ctx \in Actors
  BY ActorsFacts, Zenon
<1>s. ASSUME NEW a \in Actors, pc[a] \notin FinishPcs, NEW t \in Txs, started[t],
             NEW o \in {"commit", "rollback"}, CompareAndSwap(a, t, o),
             UNCHANGED <<started, finished, calls>>
      PROVE  Abs!Next
  <2>1. Abs!Decide(t, o)
    BY <1>s, SwapRefines, Zenon
  <2>. QED BY <2>1, Zenon DEF Abs!Next
<1>i. ASSUME NEW a \in Actors, pc[a] \notin FinishPcs, NEW point, NEW t, NEW x,
             Invoke(a, point, t, None, x), point \notin FinishPcs,
             UNCHANGED <<started, finished, calls>>
      PROVE  UNCHANGED Abs!absVars
  <2>1. SameFinishers
    BY <1>i, InvokeIs, StaySame, ZenonT(60) DEF Inv
  <2>. QED BY <1>i, <2>1, QuietRefines, Zenon
<1>r. ASSUME NEW a \in Actors, pc[a] \notin FinishPcs, Return(a),
             UNCHANGED <<started, finished, calls>>
      PROVE  UNCHANGED Abs!absVars
  <2>1. SameFinishers
    BY <1>r, ReturnIs, StaySame, Zenon DEF Inv, FinishPcs
  <2>. QED BY <1>r, <2>1, QuietRefines, Zenon
<1>g. ASSUME NEW a \in Actors, NEW point, UNCHANGED callVars \/ Goto(a, point),
             pc[a] \in FinishPcs <=> point \in FinishPcs,
             UNCHANGED <<started, finished, calls>>
      PROVE  UNCHANGED Abs!absVars
  <2>1. CASE UNCHANGED callVars
    BY <1>g, <2>1, QuietRefines, Zenon DEF callVars, SameFinishers
  <2>2. CASE Goto(a, point)
    <3>1. SameFinishers
      BY <1>g, <2>2, GotoIs, StaySame, Zenon DEF Inv
    <3>. QED BY <1>g, <3>1, QuietRefines, Zenon
  <2>. QED BY <1>g, <2>1, <2>2, Zenon
<1>1. ASSUME NEW p \in Callers, NEW t \in Txs, CallMethod(p, t)
      PROVE  Abs!Next \/ UNCHANGED Abs!absVars
  <2>0. /\ p \in Actors /\ pc[p] = "idle" /\ "idle" \notin FinishPcs
        /\ UNCHANGED <<started, finished, calls>>
    BY <1>0, <1>1, Zenon
     DEF CallMethod, StartCheck, OnEndCheck, AddEffectCheck, CallCommit, CallRollback,
                      txVars, obsVars, FinishPcs
  <2>1. CASE StartCheck(p, t) \/ (\E k \in Keys : OnEndCheck(p, t, k))
             \/ (\E e \in Effects : AddEffectCheck(p, t, e))
    <3>1. \E point \in {"startLock", "onEndLock", "addEffectLock"},
             x \in {None} \cup Keys \cup Effects : Invoke(p, point, t, None, x)
      BY <2>1, Zenon DEF StartCheck, OnEndCheck, AddEffectCheck
    <3>. QED BY <1>i, <2>0, <3>1, Zenon DEF FinishPcs
  <2>2. CASE CallCommit(p, t) \/ CallRollback(p, t)
    BY <1>s, <2>0, <2>2, Zenon DEF CallCommit, CallRollback
  <2>. QED BY <1>1, <2>1, <2>2, Zenon DEF CallMethod
<1>2. ASSUME NEW p \in Callers, Proceed(p) PROVE Abs!Next \/ UNCHANGED Abs!absVars
  <2>1. CASE StartAttach(p)
    <3>1. on[p] \in Txs /\ Abs!Start(on[p])
      BY <1>0, <2>1, AttachRefines, Zenon DEF StartAttach, Inv, Typed, CallsTyped, CallPcs
    <3>. QED BY <3>1, Zenon DEF Abs!Next
  <2>2. CASE StartLocked(p)
    <3>1. /\ p \in Actors /\ pc[p] \notin FinishPcs /\ UNCHANGED <<started, finished, calls>>
          /\ Return(p) \/ Goto(p, "attach")
          /\ "attach" \notin FinishPcs
      BY <1>0, <2>2, Zenon DEF StartLocked, FinishPcs, obsVars
    <3>. QED BY <1>r, <1>g, <3>1, Zenon
  <2>3. CASE OnEndLocked(p) \/ AddEffectLocked(p)
    <3>1. /\ p \in Actors /\ pc[p] \notin FinishPcs /\ UNCHANGED <<started, finished, calls>>
          /\ Return(p)
      BY <1>0, <2>3, Zenon DEF OnEndLocked, AddEffectLocked, FinishPcs, obsVars
    <3>. QED BY <1>r, <3>1, Zenon
  <2>. QED BY <1>2, <2>1, <2>2, <2>3, Zenon DEF Proceed
<1>3. ASSUME NEW t \in Txs, Watch(t) PROVE Abs!Next \/ UNCHANGED Abs!absVars
  <2>1. /\ t \in Actors /\ pc[t] \notin FinishPcs /\ started[t]
        /\ UNCHANGED <<started, finished, calls>>
        /\ CompareAndSwap(t, t, "rollback") \/ Return(t)
    BY <1>0, <1>3, Zenon DEF Watch, FinishPcs, obsVars, Kept, Ordered
  <2>. QED BY <1>s, <1>r, <2>1, Zenon
<1>4. CASE CtxCancel
  BY <1>4, QuietRefines, Zenon DEF CtxCancel, txVars, callVars, obsVars, SameFinishers
<1>5. CASE TearDownReadTx
  <2>1. /\ pc[Ctx] \notin FinishPcs /\ UNCHANGED <<started, finished, calls>>
        /\ Return(Ctx) \/ Invoke(Ctx, "tearDown", currentTx, None, None)
        /\ "tearDown" \notin FinishPcs
    BY <1>0, <1>5, Zenon DEF TearDownReadTx, FinishPcs, txVars, obsVars
  <2>. QED BY <1>0, <1>i, <1>r, <2>1, Zenon
<1>6. CASE TearDownRollback
  <2>1. /\ pc[Ctx] \notin FinishPcs /\ on[Ctx] \in Txs /\ started[on[Ctx]]
        /\ UNCHANGED <<started, finished, calls>>
        /\ CompareAndSwap(Ctx, on[Ctx], "rollback") \/ Return(Ctx)
    BY <1>0, <1>6, Zenon
    DEF TearDownRollback, FinishPcs, obsVars, Kept, Ordered, Inv, Typed, CallsTyped, CallPcs
  <2>. QED BY <1>0, <1>s, <1>r, <2>1, Zenon
<1>7. ASSUME NEW a \in Actors, Finish(a) PROVE Abs!Next \/ UNCHANGED Abs!absVars
  <2>0. pc[a] \in FinishPcs /\ on[a] \in Txs
    BY <1>7, ZenonT(60) DEF Finish, FinishLock, ApplyEffect, EffectsApplied,
                CallEndCallback, CallbacksCalled, CallErrCallback,
                ErrCallbacksCalled, ReverseEffect, EffectsReversed, FinishDetach,
                FinishClose, FinishPcs, Inv, Typed, CallsTyped
  <2>1. CASE \E k \in Keys : CallEndCallback(a, k) \/ CallErrCallback(a, k)
    <3>1. PICK k \in Keys : CallEndCallback(a, k) \/ CallErrCallback(a, k)
      BY <2>1, Zenon
    <3>2. PICK t \in Txs : t = on[a]
      BY <2>0, Zenon
    <3>3. Abs!Tell(t, k)
      BY <3>1, <3>2, TellRefines, Zenon
    <3>. QED BY <3>3, Zenon DEF Abs!Next
  <2>2. CASE FinishClose(a)
    BY <2>0, <2>2, CloseRefines, Zenon DEF Abs!Next
  <2>3. CASE FinishLock(a) \/ ApplyEffect(a) \/ EffectsApplied(a) \/ CallbacksCalled(a)
             \/ ErrCallbacksCalled(a) \/ ReverseEffect(a) \/ EffectsReversed(a) \/ FinishDetach(a)
    <3>1. /\ UNCHANGED <<started, finished, calls>>
          /\ UNCHANGED callVars \/ \E point \in FinishPcs : Goto(a, point)
      BY <2>3, Zenon DEF FinishLock, ApplyEffect, EffectsApplied, CallbacksCalled,
                  ErrCallbacksCalled, ReverseEffect, EffectsReversed, FinishDetach, FinishPcs,
                  txVars, obsVars
    <3>. QED BY <1>g, <2>0, <3>1, Zenon
  <2>. QED BY <1>7, <2>1, <2>2, <2>3, ZenonT(60) DEF Finish
<1>8. CASE UNCHANGED vars
  BY <1>8, QuietRefines, Zenon DEF vars, txVars, callVars, obsVars, SameFinishers
<1>. QED BY <1>1, <1>2, <1>3, <1>4, <1>5, <1>6, <1>7, <1>8, Zenon DEF Next

\* The interleaved methods implement atomic decisions: a transaction runs, is committed or
\* rolled back once and for all by the compare-and-swap, tells each callback that decision
\* at most once, and ends.
THEOREM Refinement == Spec => ImplementsAbstract
<1>1. Init => Abs!Init
  <2> SUFFICES ASSUME Init PROVE Abs!Init
    BY Zenon
  <2>1. \A t \in Txs : Status(t) = "created"
    <3>1. \A a \in Actors : pc[a] \notin FinishPcs
      BY Zenon DEF Init, FinishPcs
    <3>2. \A t \in Txs : ~finished[t] /\ ~started[t]
      BY Zenon DEF Init
    <3>. QED BY <3>1, <3>2, StatusAlone, Zenon
  <2>2. \A t \in Txs, k \in Keys : calls[t][k] = <<>>
    BY Zenon DEF Init
  <2>. QED BY <2>1, <2>2, Zenon DEF Abs!Init
<1>. QED BY <1>1, NextRefines, SpecKept, PTL DEF Spec, Abs!Spec, ImplementsAbstract
=============================================================================
