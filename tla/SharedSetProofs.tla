--------------------------- MODULE SharedSetProofs ---------------------------
(***************************************************************************)
(* For every set of contexts, transactions and keys, when no transaction   *)
(* times out during a call of its context: the pending changes of the set  *)
(* are those of the transaction that was let through last, they are        *)
(* applied or forgotten by its end, and what the set persists is what was  *)
(* committed.                                                              *)
(***************************************************************************)
EXTENDS SharedSet, TLAPS

Places == {"idle", "add", "register", "persist", "onEnd", "serialize", "store", "removeWait",
           "remove", "unlock"}
Statuses == {"running", "committing", "aborting", "called", "ended"}

SetTyped ==
    /\ elementByKey \subseteq Keys /\ pendingInclusions \subseteq Keys
    /\ pendingRemovals \subseteq Keys
    /\ status \in [Ctxs -> Statuses]
    /\ pc \in [Ctxs -> Places]
    /\ key \in [Ctxs -> Keys \cup {None}]
    /\ tx \in [Ctxs -> BOOLEAN]
    /\ snapshot \in [Ctxs -> SUBSET Keys]
    /\ added \in [Ctxs -> SUBSET Keys] /\ removed \in [Ctxs -> SUBSET Keys]
    /\ \A c \in Ctxs : pc[c] \in {"add", "removeWait", "remove"} => key[c] \in Keys

\* A call of a context runs before or after its transaction, never across its end.  The state
\* that holds the lock is in a call.  A transaction that has been let through is the current one
\* until it ends.
CallsKeepTx ==
    /\ current \in Ctxs \cup {None}
    /\ \A c \in Ctxs :
        /\ pc[c] # "idle" => status[c] \in {"running", "ended"} /\ (tx[c] <=> status[c] = "running")
        /\ lock = c => pc[c] \in {"register", "persist", "unlock"}
        /\ pc[c] \in {"register", "onEnd"} => status[c] = "running"
        /\ pc[c] \in {"add", "register", "onEnd", "remove"} /\ status[c] = "running" => current = c

Registering(c) == pc[c] \in {"register", "onEnd"}

\* The pending changes of the set are those of the current transaction, until its callback has
\* been called.  The callback is registered, or its registration is due.
PendingOf(c) ==
    IF status[c] \in {"called", "ended"}
    THEN pendingInclusions = {} /\ pendingRemovals = {}
    ELSE /\ pendingRemovals = removed[c]
         /\ pendingInclusions \ pendingRemovals = added[c]
         /\ pendingInclusions \cup pendingRemovals # {} => c \in registered \/ Registering(c)

PendingKept ==
    /\ elementByKey = committed
    /\ registered = withCallback
    /\ \A c \in Ctxs : c \in registered /\ status[c] # "ended" => c = current
    /\ \A c \in Ctxs : c # current \/ status[c] = "ended" => added[c] = {} /\ removed[c] = {}
    /\ current = None => pendingInclusions = {} /\ pendingRemovals = {}
    /\ \A c \in Ctxs : c = current => PendingOf(c)

\* Unless a serialization was overtaken: the content of the set is persisted, or a call of Add
\* holds it or is about to serialize it.
StoredSoon ==
    \/ overtaken
    \/ \E c \in Ctxs : pc[c] \in {"persist", "serialize"}
    \/ \E c \in Ctxs : pc[c] = "store" /\ snapshot[c] = elementByKey
    \/ stored = elementByKey /\ \A c \in Ctxs : pc[c] # "store"

SetInv == SetTyped /\ CallsKeepTx /\ PendingKept /\ StoredSoon

-----------------------------------------------------------------------------
(* What a step does to the calls.                                          *)

LEMMA GotoIs ==
    ASSUME SetTyped, NEW c \in Ctxs, NEW p \in Places, Goto(c, p)
    PROVE  /\ pc' \in [Ctxs -> Places]
           /\ pc'[c] = p /\ \A d \in Ctxs \ {c} : pc'[d] = pc[d]
BY Zenon DEF SetTyped, Goto

LEMMA LetThroughIs ==
    ASSUME SetTyped, CallsKeepTx, NEW c \in Ctxs, LetThrough(c), status[c] \in {"running", "ended"}
    PROVE  /\ current' \in {current, c} /\ current' \in Ctxs \cup {None}
           /\ status[c] = "running" => current' = c
           /\ status[c] = "ended" => current' = current
           /\ current = None \/ current = c \/ status[current] = "ended"
BY Zenon DEF LetThrough, HasTx, CallsKeepTx

\* The transaction of a context, as its calls see it.
LEMMA TxIs ==
    ASSUME SetTyped, CallsKeepTx, NEW c \in Ctxs, pc[c] # "idle" \/ CanCall(c)
    PROVE  /\ status[c] \in {"running", "ended"}
           /\ HasTx(c) <=> status[c] = "running"
           /\ pc[c] # "idle" => (tx[c] <=> HasTx(c))
BY Zenon DEF CallsKeepTx, HasTx, CanCall

-----------------------------------------------------------------------------
(* Every step keeps the types.                                             *)

LEMMA TypedAdd ==
    ASSUME SetTyped, NEW c \in Ctxs,
           \/ AddWait(c) \/ AddWithoutTx(c) \/ AddWithTx(c) \/ AddUnlock(c) \/ AddOnEnd(c)
           \/ AddSerialize(c) \/ AddStore(c)
    PROVE  SetTyped'
<1>. USE DEF setVars, pathVars, txVars, callVars, ghostVars
<1>1. CASE AddWait(c)
  <2>1. pc' \in [Ctxs -> Places] /\ pc'[c] = "add" /\ \A d \in Ctxs \ {c} : pc'[d] = pc[d]
    BY <1>1, GotoIs, Zenon DEF AddWait, Places
  <2>2. PICK k \in Keys : key' = [key EXCEPT ![c] = k]
    BY <1>1, Zenon DEF AddWait
  <2>3. key' \in [Ctxs -> Keys \cup {None}] /\ key'[c] = k /\ \A d \in Ctxs \ {c} : key'[d] = key[d]
    BY <2>2, Zenon DEF SetTyped
  <2>4. tx' \in [Ctxs -> BOOLEAN]
    BY <1>1, Zenon DEF AddWait, SetTyped, HasTx
  <2>. QED
    BY <1>1, <2>1, <2>3, <2>4, Zenon DEF AddWait, SetTyped
<1>2. CASE AddWithoutTx(c)
  <2>1. pc' \in [Ctxs -> Places] /\ pc'[c] \in {"unlock", "register", "persist"}
        /\ \A d \in Ctxs \ {c} : pc'[d] = pc[d]
    <3>1. PICK p \in {"unlock", "register", "persist"} : Goto(c, p)
      BY <1>2, Zenon DEF AddWithoutTx
    <3>. QED
      BY <3>1, GotoIs, Zenon DEF Places
  <2>2. key[c] \in Keys
    BY <1>2, Zenon DEF AddWithoutTx, SetTyped
  <2>3. elementByKey' \subseteq Keys
    BY <1>2, <2>2, Zenon DEF AddWithoutTx, SetTyped
  <2>. QED
    BY <1>2, <2>1, <2>3, Zenon DEF AddWithoutTx, SetTyped
<1>3. CASE AddWithTx(c)
  <2>1. pc' \in [Ctxs -> Places] /\ pc'[c] = "register" /\ \A d \in Ctxs \ {c} : pc'[d] = pc[d]
    BY <1>3, GotoIs, Zenon DEF AddWithTx, Places
  <2>2. key[c] \in Keys
    BY <1>3, Zenon DEF AddWithTx, SetTyped
  <2>3. pendingInclusions' \subseteq Keys /\ pendingRemovals' \subseteq Keys
    BY <1>3, <2>2, Zenon DEF AddWithTx, SetTyped
  <2>4. added' \in [Ctxs -> SUBSET Keys] /\ removed' \in [Ctxs -> SUBSET Keys]
    BY <1>3, <2>2, SMTT(30) DEF AddWithTx, SetTyped
  <2>. QED
    BY <1>3, <2>1, <2>3, <2>4, Zenon DEF AddWithTx, SetTyped
<1>4. CASE AddUnlock(c)
  <2>1. pc' \in [Ctxs -> Places] /\ pc'[c] \in {"serialize", "idle", "onEnd"}
        /\ \A d \in Ctxs \ {c} : pc'[d] = pc[d]
    <3>1. PICK p \in {"serialize", "idle", "onEnd"} : Goto(c, p)
      BY <1>4, Zenon DEF AddUnlock
    <3>. QED
      BY <3>1, GotoIs, Zenon DEF Places
  <2>. QED
    BY <1>4, <2>1, Zenon DEF AddUnlock, SetTyped
<1>5. CASE AddOnEnd(c)
  <2>1. pc' \in [Ctxs -> Places] /\ pc'[c] = "unlock" /\ \A d \in Ctxs \ {c} : pc'[d] = pc[d]
    BY <1>5, GotoIs, Zenon DEF AddOnEnd, Places
  <2>. QED
    BY <1>5, <2>1, Zenon DEF AddOnEnd, Register, SetTyped
<1>6. CASE AddSerialize(c)
  <2>1. pc' \in [Ctxs -> Places] /\ pc'[c] = "store" /\ \A d \in Ctxs \ {c} : pc'[d] = pc[d]
    BY <1>6, GotoIs, Zenon DEF AddSerialize, Places
  <2>2. snapshot' \in [Ctxs -> SUBSET Keys]
    BY <1>6, Zenon DEF AddSerialize, SetTyped
  <2>. QED
    BY <1>6, <2>1, <2>2, Zenon DEF AddSerialize, SetTyped
<1>7. CASE AddStore(c)
  <2>1. pc' \in [Ctxs -> Places] /\ pc'[c] = "idle" /\ \A d \in Ctxs \ {c} : pc'[d] = pc[d]
    BY <1>7, GotoIs, Zenon DEF AddStore, Places
  <2>2. snapshot' \in [Ctxs -> SUBSET Keys]
    BY <1>7, Zenon DEF AddStore, SetTyped
  <2>. QED
    BY <1>7, <2>1, <2>2, Zenon DEF AddStore, SetTyped
<1>. QED
  BY <1>1, <1>2, <1>3, <1>4, <1>5, <1>6, <1>7, Zenon

LEMMA TypedRemove ==
    ASSUME SetTyped, NEW c \in Ctxs,
           \/ RemoveStart(c) \/ RemoveWait(c) \/ RemoveWithoutTx(c) \/ RemoveWithTx(c)
           \/ UnlockSet(c) \/ GetElementByKey(c)
    PROVE  SetTyped'
<1>. USE DEF setVars, pathVars, txVars, callVars, ghostVars
<1>1. CASE RemoveStart(c)
  <2>1. pc' \in [Ctxs -> Places] /\ pc'[c] = "removeWait" /\ \A d \in Ctxs \ {c} : pc'[d] = pc[d]
    BY <1>1, GotoIs, Zenon DEF RemoveStart, Places
  <2>2. PICK k \in Keys : key' = [key EXCEPT ![c] = k]
    BY <1>1, Zenon DEF RemoveStart
  <2>3. key' \in [Ctxs -> Keys \cup {None}] /\ key'[c] = k /\ \A d \in Ctxs \ {c} : key'[d] = key[d]
    BY <2>2, Zenon DEF SetTyped
  <2>4. tx' \in [Ctxs -> BOOLEAN]
    BY <1>1, Zenon DEF RemoveStart, SetTyped, HasTx
  <2>. QED
    BY <1>1, <2>1, <2>3, <2>4, Zenon DEF RemoveStart, SetTyped
<1>2. CASE RemoveWait(c)
  <2>1. pc' \in [Ctxs -> Places] /\ pc'[c] = "remove" /\ \A d \in Ctxs \ {c} : pc'[d] = pc[d]
    BY <1>2, GotoIs, Zenon DEF RemoveWait, Places
  <2>. QED
    BY <1>2, <2>1, Zenon DEF RemoveWait, SetTyped
<1>3. CASE RemoveWithoutTx(c)
  <2>1. pc' \in [Ctxs -> Places] /\ pc'[c] = "unlock" /\ \A d \in Ctxs \ {c} : pc'[d] = pc[d]
    BY <1>3, GotoIs, Zenon DEF RemoveWithoutTx, Places
  <2>2. elementByKey' \subseteq Keys
    BY <1>3, Zenon DEF RemoveWithoutTx, SetTyped
  <2>. QED
    BY <1>3, <2>1, <2>2, Zenon DEF RemoveWithoutTx, SetTyped
<1>4. CASE RemoveWithTx(c)
  <2>1. pc' \in [Ctxs -> Places] /\ pc'[c] = "unlock" /\ \A d \in Ctxs \ {c} : pc'[d] = pc[d]
    BY <1>4, GotoIs, Zenon DEF RemoveWithTx, Places
  <2>2. key[c] \in Keys /\ status' = status
    BY <1>4, Zenon DEF RemoveWithTx, SetTyped, Register
  <2>3. pendingRemovals' \subseteq Keys
    BY <1>4, <2>2, Zenon DEF RemoveWithTx, SetTyped
  <2>4. added' \in [Ctxs -> SUBSET Keys] /\ removed' \in [Ctxs -> SUBSET Keys]
    BY <1>4, <2>2, SMTT(30) DEF RemoveWithTx, SetTyped
  <2>. QED
    BY <1>4, <2>1, <2>2, <2>3, <2>4, Zenon DEF RemoveWithTx, SetTyped
<1>5. CASE UnlockSet(c)
  <2>1. pc' \in [Ctxs -> Places] /\ pc'[c] = "idle" /\ \A d \in Ctxs \ {c} : pc'[d] = pc[d]
    BY <1>5, GotoIs, Zenon DEF UnlockSet, Places
  <2>. QED
    BY <1>5, <2>1, Zenon DEF UnlockSet, SetTyped
<1>6. CASE GetElementByKey(c)
  BY <1>6, Zenon DEF GetElementByKey, SetTyped
<1>. QED
  BY <1>1, <1>2, <1>3, <1>4, <1>5, <1>6, Zenon

\* The end of a transaction finds its context between two calls.
Ends(c) == Commit(c) \/ Timeout(c) \/ CommitCallback(c) \/ RollbackCallback(c) \/ End(c)

LEMMA EndIs ==
    ASSUME ~TimeoutInCall, SetTyped, CallsKeepTx, NEW c \in Ctxs, Ends(c)
    PROVE  /\ pc[c] = "idle" /\ status[c] # "ended"
           /\ UNCHANGED <<pc, key, tx, snapshot, lock, current>>
           /\ status' \in [Ctxs -> Statuses] /\ \A d \in Ctxs \ {c} : status'[d] = status[d]
<1>1. /\ pc[c] = "idle" /\ status[c] # "ended" /\ UNCHANGED <<pc, key, tx, snapshot, lock, current>>
  <2>1. pc[c] = "idle" \/ status[c] \in {"committing", "aborting", "called"}
    BY Zenon DEF Ends, Commit, Timeout, CommitCallback, RollbackCallback, End
  <2>. QED
    BY <2>1, Zenon
     DEF Ends, Commit, Timeout, CommitCallback, RollbackCallback, End, CallsKeepTx, callVars
<1>2. PICK s \in Statuses : status' = [status EXCEPT ![c] = s]
  BY Zenon DEF Ends, Commit, Timeout, CommitCallback, RollbackCallback, End, Statuses
<1>. QED
  BY <1>1, <1>2, Zenon DEF SetTyped

LEMMA TypedEnd ==
    ASSUME ~TimeoutInCall, SetTyped, CallsKeepTx, NEW c \in Ctxs, Ends(c)
    PROVE  SetTyped'
<1>1. /\ elementByKey' \subseteq Keys /\ pendingInclusions' \subseteq Keys
      /\ pendingRemovals' \subseteq Keys
  BY Zenon DEF Ends, Commit, Timeout, CommitCallback, RollbackCallback, End, SetTyped, setVars
<1>2. added' \in [Ctxs -> SUBSET Keys] /\ removed' \in [Ctxs -> SUBSET Keys]
  BY Zenon DEF Ends, Commit, Timeout, CommitCallback, RollbackCallback, End, SetTyped, ghostVars
<1>. QED
  BY <1>1, <1>2, EndIs, Zenon DEF SetTyped

-----------------------------------------------------------------------------
(* A call keeps its transaction.                                           *)

\* A call goes on, and takes or releases the lock.
LEMMA CallMoves ==
    ASSUME SetTyped, CallsKeepTx, NEW c \in Ctxs, NEW p \in Places, Goto(c, p), pc[c] # "idle",
           UNCHANGED <<status, tx, current>>, p \notin {"add", "remove"},
           p \in {"register", "onEnd"} => status[c] = "running" /\ current = c,
           \/ lock' = c /\ p \in {"register", "persist", "unlock"}
           \/ lock' = None
           \/ lock' = lock /\ pc[c] \notin {"register", "persist", "unlock"}
    PROVE  CallsKeepTx'
<1>1. pc'[c] = p /\ \A d \in Ctxs \ {c} : pc'[d] = pc[d]
  BY GotoIs, Zenon
<1>2. ASSUME NEW d \in Ctxs
      PROVE  /\ pc'[d] # "idle" => /\ status'[d] \in {"running", "ended"}
                                   /\ tx'[d] <=> status'[d] = "running"
             /\ pc'[d] \in {"register", "onEnd"} => status'[d] = "running"
             /\ pc'[d] \in {"add", "register", "onEnd", "remove"} /\ status'[d] = "running" =>
                    current' = d
  <2>1. CASE d = c
    BY <1>1, <2>1, Zenon DEF CallsKeepTx
  <2>2. CASE d # c
    BY <1>1, <2>2, Zenon DEF CallsKeepTx
  <2>. QED
    BY <2>1, <2>2, Zenon
<1>3. ASSUME NEW d \in Ctxs, lock' = d PROVE pc'[d] \in {"register", "persist", "unlock"}
  <2>1. CASE d = c
    BY <1>1, <1>3, <2>1, SetAssumption, Zenon DEF CallsKeepTx
  <2>2. CASE d # c
    BY <1>1, <1>3, <2>2, SetAssumption, Zenon DEF CallsKeepTx
  <2>. QED
    BY <2>1, <2>2, Zenon
<1>. QED
  BY <1>2, <1>3, Zenon DEF CallsKeepTx

\* A call starts, or is let through.
LEMMA CallStarts ==
    ASSUME SetTyped, CallsKeepTx, NEW c \in Ctxs, NEW p \in {"add", "removeWait", "remove"},
           Goto(c, p), status[c] \in {"running", "ended"}, UNCHANGED <<status, lock>>,
           pc[c] \notin {"register", "persist", "unlock"},
           tx'[c] <=> status[c] = "running", \A d \in Ctxs \ {c} : tx'[d] = tx[d],
           \/ LetThrough(c)
           \/ p = "removeWait" /\ UNCHANGED current
    PROVE  CallsKeepTx'
<1>1. pc'[c] = p /\ \A d \in Ctxs \ {c} : pc'[d] = pc[d]
  BY GotoIs, Zenon DEF Places
<1>2. /\ current' \in Ctxs \cup {None}
      /\ p # "removeWait" /\ status[c] = "running" => current' = c
      /\ \A d \in Ctxs \ {c} : current = d /\ status[d] = "running" => current' = d
  <2>1. CASE LetThrough(c)
    BY <2>1, LetThroughIs, SetAssumption, ZenonT(60)
  <2>2. CASE p = "removeWait" /\ UNCHANGED current
    BY <2>2, Zenon DEF CallsKeepTx
  <2>. QED
    BY <2>1, <2>2, Zenon
<1>3. ASSUME NEW d \in Ctxs
      PROVE  /\ pc'[d] # "idle" => /\ status'[d] \in {"running", "ended"}
                                   /\ tx'[d] <=> status'[d] = "running"
             /\ pc'[d] \in {"register", "onEnd"} => status'[d] = "running"
             /\ pc'[d] \in {"add", "register", "onEnd", "remove"} /\ status'[d] = "running" =>
                    current' = d
             /\ lock' = d => pc'[d] \in {"register", "persist", "unlock"}
  <2>1. CASE d = c
    BY <1>1, <1>2, <2>1, Zenon DEF CallsKeepTx
  <2>2. CASE d # c
    BY <1>1, <1>2, <2>2, ZenonT(60) DEF CallsKeepTx
  <2>. QED
    BY <2>1, <2>2, Zenon
<1>. QED
  BY <1>2, <1>3, Zenon DEF CallsKeepTx

LEMMA CallsNext ==
    ASSUME ~TimeoutInCall, SetTyped, CallsKeepTx, Next
    PROVE  CallsKeepTx'
<1>. USE DEF txVars, callVars
<1>1. ASSUME NEW c \in Ctxs, AddWait(c) PROVE CallsKeepTx'
  <2>1. /\ tx'[c] <=> HasTx(c)
        /\ \A d \in Ctxs \ {c} : tx'[d] = tx[d]
    BY <1>1, Zenon DEF AddWait, SetTyped, HasTx
  <2>. QED
    BY <1>1, <2>1, TxIs, CallStarts, Zenon DEF AddWait, CanCall
<1>2. ASSUME NEW c \in Ctxs, AddWithoutTx(c) PROVE CallsKeepTx'
  <2>1. ~tx[c]
    BY <1>2, TxIs, Zenon DEF AddWithoutTx
  <2>2. PICK p \in {"unlock", "persist"} : Goto(c, p)
    BY <1>2, <2>1, Zenon DEF AddWithoutTx
  <2>. QED
    BY <1>2, <2>2, CallMoves, Zenon DEF AddWithoutTx, AcquireLock, Places
<1>3. ASSUME NEW c \in Ctxs, AddWithTx(c) PROVE CallsKeepTx'
  <2>1. status[c] = "running" /\ current = c
    BY <1>3, TxIs, Zenon DEF AddWithTx, CallsKeepTx
  <2>. QED
    BY <1>3, <2>1, CallMoves, Zenon DEF AddWithTx, AcquireLock, Places
<1>4. ASSUME NEW c \in Ctxs, AddUnlock(c) PROVE CallsKeepTx'
  <2>1. CASE pc[c] = "persist"
    BY <1>4, <2>1, CallMoves, Zenon DEF AddUnlock, Places
  <2>2. CASE pc[c] = "register"
    <3>1. status[c] = "running" /\ current = c
      BY <2>2, Zenon DEF CallsKeepTx
    <3>2. PICK p \in {"idle", "onEnd"} : Goto(c, p)
      BY <1>4, <2>2, Zenon DEF AddUnlock
    <3>. QED
      BY <1>4, <2>2, <3>1, <3>2, CallMoves, Zenon DEF AddUnlock, Places
  <2>. QED
    BY <1>4, <2>1, <2>2, Zenon DEF AddUnlock
<1>5. ASSUME NEW c \in Ctxs, AddOnEnd(c) PROVE CallsKeepTx'
  BY <1>5, CallMoves, Zenon DEF AddOnEnd, AcquireLock, Register, Places
<1>6. ASSUME NEW c \in Ctxs, AddSerialize(c) PROVE CallsKeepTx'
  BY <1>6, CallMoves, Zenon DEF AddSerialize, Places
<1>7. ASSUME NEW c \in Ctxs, AddStore(c) PROVE CallsKeepTx'
  BY <1>7, CallMoves, Zenon DEF AddStore, Places
<1>8. ASSUME NEW c \in Ctxs, RemoveStart(c) PROVE CallsKeepTx'
  <2>1. /\ tx'[c] <=> HasTx(c)
        /\ \A d \in Ctxs \ {c} : tx'[d] = tx[d]
    BY <1>8, Zenon DEF RemoveStart, SetTyped, HasTx
  <2>. QED
    BY <1>8, <2>1, TxIs, CallStarts, Zenon DEF RemoveStart, CanCall
<1>9. ASSUME NEW c \in Ctxs, RemoveWait(c) PROVE CallsKeepTx'
  BY <1>9, TxIs, CallStarts, Zenon DEF RemoveWait
<1>10. ASSUME NEW c \in Ctxs, RemoveWithoutTx(c) PROVE CallsKeepTx'
  BY <1>10, CallMoves, Zenon DEF RemoveWithoutTx, AcquireLock, Places
<1>11. ASSUME NEW c \in Ctxs, RemoveWithTx(c) PROVE CallsKeepTx'
  BY <1>11, CallMoves, Zenon DEF RemoveWithTx, AcquireLock, Register, Places
<1>12. ASSUME NEW c \in Ctxs, UnlockSet(c) PROVE CallsKeepTx'
  BY <1>12, CallMoves, Zenon DEF UnlockSet, Places
<1>13. ASSUME NEW c \in Ctxs, GetElementByKey(c) PROVE CallsKeepTx'
  <2>1. /\ current' \in Ctxs \cup {None}
        /\ \A d \in Ctxs : current = d /\ status[d] = "running" => current' = d
    BY <1>13, TxIs, LetThroughIs, SetAssumption, Zenon DEF GetElementByKey, CanCall
  <2>. QED
    BY <1>13, <2>1, Zenon DEF GetElementByKey, CallsKeepTx
<1>14. ASSUME NEW c \in Ctxs, Ends(c) PROVE CallsKeepTx'
  <2>1. ASSUME NEW d \in Ctxs
        PROVE  /\ pc'[d] # "idle" => status'[d] = status[d]
               /\ pc'[d] = pc[d] /\ tx'[d] = tx[d] /\ lock' = lock /\ current' = current
    BY <1>14, EndIs, Zenon
  <2>. QED
    BY <1>14, <2>1, EndIs, ZenonT(60) DEF CallsKeepTx
<1>. QED
  BY <1>1, <1>2, <1>3, <1>4, <1>5, <1>6, <1>7, <1>8, <1>9, <1>10, <1>11, <1>12, <1>13, <1>14, Zenon
     DEF Next, Ends

-----------------------------------------------------------------------------
(* The pending changes are those of the current transaction.               *)

\* The changes stay as they are; somebody may be let through.
LEMMA PendingStays ==
    ASSUME SetTyped, CallsKeepTx, PendingKept,
           UNCHANGED <<elementByKey, pendingInclusions, pendingRemovals, committed, added, removed,
                       withCallback, registered, status>>,
           \A c \in Ctxs : Registering(c) => Registering(c)' \/ c \in registered,
           \/ UNCHANGED current
           \/ \E c \in Ctxs : LetThrough(c) /\ status[c] \in {"running", "ended"}
    PROVE  PendingKept'
<1>1. CASE UNCHANGED current
  <2>1. ASSUME NEW c \in Ctxs, c = current, PendingOf(c) PROVE PendingOf(c)'
    BY <2>1, Zenon DEF PendingOf
  <2>. QED
    BY <1>1, <2>1, Zenon DEF PendingKept
<1>2. ASSUME NEW c \in Ctxs, LetThrough(c), status[c] = "running", current # c PROVE PendingKept'
  <2>1. current' = c /\ (current = None \/ (current \in Ctxs /\ status[current] = "ended"))
    <3>1. current' = c /\ (current = None \/ current = c \/ status[current] = "ended")
      BY <1>2, LetThroughIs, Zenon
    <3>2. current \in Ctxs \/ current = None
      BY Zenon DEF CallsKeepTx
    <3>3. current # c
      BY <1>2, Zenon
    <3>. QED
      BY <3>1, <3>2, <3>3, Zenon
  <2>2. pendingInclusions = {} /\ pendingRemovals = {} /\ added[c] = {} /\ removed[c] = {}
    BY <1>2, <2>1, Zenon DEF PendingKept, PendingOf
  <2>3. PendingOf(c)'
    BY <1>2, <2>2, Zenon DEF PendingOf
  <2>4. \A d \in Ctxs : d \in registered /\ status[d] # "ended" => d = c
    BY <2>1, SetAssumption, Zenon DEF PendingKept
  <2>5. \A d \in Ctxs : d # c \/ status[d] = "ended" => added[d] = {} /\ removed[d] = {}
    BY <2>1, SetAssumption, Zenon DEF PendingKept
  <2>. QED
    BY <2>1, <2>2, <2>3, <2>4, <2>5, SetAssumption, Zenon DEF PendingKept
<1>3. ASSUME NEW c \in Ctxs, LetThrough(c), status[c] = "ended" \/ current = c
      PROVE  UNCHANGED current
  BY <1>3, Zenon DEF LetThrough, HasTx
<1>. QED
  BY <1>1, <1>2, <1>3, Zenon

LEMMA PendingNext ==
    ASSUME ~TimeoutInCall, SetTyped, CallsKeepTx, PendingKept, Next
    PROVE  PendingKept'
<1>. USE DEF setVars, txVars, callVars, ghostVars
<1>1. ASSUME NEW c \in Ctxs, AddWait(c) \/ RemoveStart(c) \/ RemoveWait(c) PROVE PendingKept'
  <2>1. status[c] \in {"running", "ended"}
    BY <1>1, TxIs, Zenon DEF AddWait, RemoveStart, RemoveWait
  <2>2. PICK p \in {"add", "removeWait", "remove"} : Goto(c, p)
    BY <1>1, Zenon DEF AddWait, RemoveStart, RemoveWait
  <2>3. pc[c] \in {"idle", "removeWait"} /\ \A d \in Ctxs \ {c} : pc'[d] = pc[d]
    BY <1>1, <2>2, GotoIs, Zenon DEF AddWait, RemoveStart, RemoveWait, CanCall, Places
  <2>4. \A d \in Ctxs : Registering(d) => Registering(d)'
    BY <2>3, Zenon DEF Registering
  <2>. QED
    BY <1>1, <2>1, <2>4, PendingStays, Zenon DEF AddWait, RemoveStart, RemoveWait
<1>2. ASSUME NEW c \in Ctxs, GetElementByKey(c) PROVE PendingKept'
  <2>1. status[c] \in {"running", "ended"}
    BY <1>2, TxIs, Zenon DEF GetElementByKey
  <2>2. \A d \in Ctxs : Registering(d) => Registering(d)'
    BY <1>2, Zenon DEF GetElementByKey, Registering
  <2>. QED
    BY <1>2, <2>1, <2>2, PendingStays, Zenon DEF GetElementByKey
<1>3. ASSUME NEW c \in Ctxs, AddUnlock(c) PROVE PendingKept'
  <2>1. PICK p \in {"serialize", "idle", "onEnd"} :
            Goto(c, p) /\ (pc[c] = "register" /\ c \notin withCallback => p = "onEnd")
    BY <1>3, Zenon DEF AddUnlock
  <2>2. pc'[c] = p /\ \A d \in Ctxs \ {c} : pc'[d] = pc[d]
    BY <2>1, GotoIs, Zenon DEF Places
  <2>3. \A d \in Ctxs : Registering(d) => Registering(d)' \/ d \in registered
    BY <1>3, <2>1, <2>2, Zenon DEF AddUnlock, Registering, PendingKept
  <2>. QED
    BY <1>3, <2>3, PendingStays, Zenon DEF AddUnlock
<1>4. ASSUME NEW c \in Ctxs, AddSerialize(c) \/ AddStore(c) \/ UnlockSet(c) PROVE PendingKept'
  <2>1. PICK p \in {"store", "idle"} : Goto(c, p)
    BY <1>4, Zenon DEF AddSerialize, AddStore, UnlockSet
  <2>2. pc[c] \in {"serialize", "store", "unlock"} /\ \A d \in Ctxs \ {c} : pc'[d] = pc[d]
    BY <1>4, <2>1, GotoIs, Zenon DEF AddSerialize, AddStore, UnlockSet, Places
  <2>3. \A d \in Ctxs : Registering(d) => Registering(d)'
    BY <2>2, Zenon DEF Registering
  <2>. QED
    BY <1>4, <2>3, PendingStays, Zenon DEF AddSerialize, AddStore, UnlockSet
<1>5. ASSUME NEW c \in Ctxs, AddWithoutTx(c) \/ RemoveWithoutTx(c) PROVE PendingKept'
  <2>1. ~tx[c]
    BY <1>5, TxIs, Zenon DEF AddWithoutTx, RemoveWithoutTx
  <2>2. elementByKey' = committed'
    <3>1. elementByKey = committed
      BY Zenon DEF PendingKept
    <3>2. CASE AddWithoutTx(c)
      BY <2>1, <3>1, <3>2, Zenon DEF AddWithoutTx
    <3>3. CASE RemoveWithoutTx(c)
      BY <3>1, <3>3, Zenon DEF RemoveWithoutTx
    <3>. QED
      BY <1>5, <3>2, <3>3, Zenon
  <2>3. PICK p \in {"unlock", "persist"} : Goto(c, p)
    BY <1>5, <2>1, Zenon DEF AddWithoutTx, RemoveWithoutTx
  <2>4. pc[c] \in {"add", "remove"} /\ \A d \in Ctxs \ {c} : pc'[d] = pc[d]
    BY <1>5, <2>3, GotoIs, Zenon DEF AddWithoutTx, RemoveWithoutTx, Places
  <2>5. /\ UNCHANGED <<pendingInclusions, pendingRemovals, added, removed, withCallback, registered,
                       status, current>>
        /\ \A d \in Ctxs : Registering(d) => Registering(d)'
    BY <1>5, <2>4, Zenon DEF AddWithoutTx, RemoveWithoutTx, Registering
  <2>6. \A d \in Ctxs : PendingOf(d) => PendingOf(d)'
    BY <2>5, Zenon DEF PendingOf
  <2>. QED
    BY <2>2, <2>5, <2>6, Zenon DEF PendingKept
<1>6. ASSUME NEW c \in Ctxs, AddWithTx(c) PROVE PendingKept'
  <2>1. status[c] = "running" /\ current = c
    BY <1>6, TxIs, Zenon DEF AddWithTx, CallsKeepTx
  <2>2. /\ pendingRemovals' = pendingRemovals \ {key[c]}
        /\ pendingInclusions' = pendingInclusions \cup {key[c]}
        /\ added'[c] = added[c] \cup {key[c]} /\ removed'[c] = removed[c] \ {key[c]}
        /\ \A d \in Ctxs \ {c} : added'[d] = added[d] /\ removed'[d] = removed[d]
        /\ UNCHANGED <<elementByKey, committed, withCallback, registered, status, current>>
    BY <1>6, Zenon DEF AddWithTx, SetTyped
  <2>3. pc'[c] = "register"
    BY <1>6, GotoIs, Zenon DEF AddWithTx, Places
  <2>4. PendingOf(c)
    BY <2>1, Zenon DEF PendingKept
  <2>5. /\ pendingRemovals' = removed'[c]
        /\ pendingInclusions' \ pendingRemovals' = added'[c]
    BY <2>1, <2>2, <2>4, Zenon DEF PendingOf
  <2>6. PendingOf(c)'
    BY <2>1, <2>2, <2>3, <2>5, Zenon DEF PendingOf, Registering
  <2>. QED
    BY <2>1, <2>2, <2>6, SetAssumption, Zenon DEF PendingKept
<1>7. ASSUME NEW c \in Ctxs, RemoveWithTx(c) PROVE PendingKept'
  <2>1. status[c] = "running" /\ current = c
    BY <1>7, TxIs, Zenon DEF RemoveWithTx, CallsKeepTx
  <2>2. /\ pendingRemovals' = pendingRemovals \cup {key[c]}
        /\ added'[c] = added[c] \ {key[c]} /\ removed'[c] = removed[c] \cup {key[c]}
        /\ \A d \in Ctxs \ {c} : added'[d] = added[d] /\ removed'[d] = removed[d]
        /\ UNCHANGED <<elementByKey, pendingInclusions, committed, status, current>>
    BY <1>7, Zenon DEF RemoveWithTx, SetTyped, Register
  <2>3. registered' = withCallback' /\ c \in registered'
        /\ \A d \in Ctxs : d \in registered' => d = c \/ d \in registered
    BY <1>7, <2>1, Zenon DEF RemoveWithTx, Register, PendingKept
  <2>4. PendingOf(c)
    BY <2>1, ZenonT(60) DEF PendingKept
  <2>5. /\ pendingRemovals' = removed'[c]
        /\ pendingInclusions' \ pendingRemovals' = added'[c]
    BY <2>1, <2>2, <2>4, Zenon DEF PendingOf
  <2>6. PendingOf(c)'
    BY <2>1, <2>2, <2>3, <2>5, Zenon DEF PendingOf
  <2>. QED
    BY <2>1, <2>2, <2>3, <2>6, SetAssumption, ZenonT(60) DEF PendingKept
<1>8. ASSUME NEW c \in Ctxs, AddOnEnd(c) PROVE PendingKept'
  <2>1. status[c] = "running" /\ current = c
    BY <1>8, Zenon DEF AddOnEnd, CallsKeepTx
  <2>2. UNCHANGED <<elementByKey, pendingInclusions, pendingRemovals, committed, added, removed,
                    status, current>>
    BY <1>8, Zenon DEF AddOnEnd, Register
  <2>3. registered' = withCallback' /\ c \in registered'
        /\ \A d \in Ctxs : d \in registered' => d = c \/ d \in registered
    BY <1>8, <2>1, Zenon DEF AddOnEnd, Register, PendingKept
  <2>4. PendingOf(c)
    BY <2>1, ZenonT(60) DEF PendingKept
  <2>5. PendingOf(c)'
    BY <2>1, <2>2, <2>3, <2>4, Zenon DEF PendingOf
  <2>. QED
    BY <2>1, <2>2, <2>3, <2>5, SetAssumption, Zenon DEF PendingKept
<1>9. ASSUME NEW c \in Ctxs, Ends(c) PROVE PendingKept'
  <2>1. /\ pc[c] = "idle" /\ status[c] # "ended" /\ UNCHANGED <<pc, current>>
        /\ \A d \in Ctxs \ {c} : status'[d] = status[d]
    BY <1>9, EndIs, Zenon
  <2>2. UNCHANGED <<withCallback, registered>>
    BY <1>9, Zenon DEF Ends, Commit, Timeout, CommitCallback, RollbackCallback, End
  <2>3. CASE Commit(c) \/ Timeout(c)
    <3>1. status[c] = "running" /\ status'[c] \in {"committing", "aborting"}
      BY <2>3, Zenon DEF Commit, Timeout, SetTyped
    <3>2. UNCHANGED <<elementByKey, pendingInclusions, pendingRemovals, committed, added, removed>>
      BY <2>3, Zenon DEF Commit, Timeout
    <3>3. \A d \in Ctxs : PendingOf(d) => PendingOf(d)'
      BY <2>1, <2>2, <3>1, <3>2, Zenon DEF PendingOf, Registering
    <3>. QED
      BY <2>1, <2>2, <3>1, <3>2, <3>3, Zenon DEF PendingKept
  <2>4. CASE CommitCallback(c)
    <3>1. current = c
      BY <2>1, <2>4, Zenon DEF CommitCallback, PendingKept
    <3>2. status[c] = "committing" /\ status'[c] = "called"
      BY <2>4, Zenon DEF CommitCallback, SetTyped
    <3>3. /\ pendingInclusions' = {} /\ pendingRemovals' = {} /\ UNCHANGED <<added, removed>>
          /\ elementByKey' = (elementByKey \cup pendingInclusions) \ pendingRemovals
          /\ committed' = (committed \cup added[c]) \ removed[c]
      BY <2>4, Zenon DEF CommitCallback
    <3>4. /\ elementByKey = committed /\ pendingRemovals = removed[c]
          /\ pendingInclusions \ pendingRemovals = added[c]
      BY <3>1, <3>2, Zenon DEF PendingKept, PendingOf
    <3>5. elementByKey' = committed'
      BY <3>3, <3>4, Zenon
    <3>6. PendingOf(c)'
      BY <3>2, <3>3, Zenon DEF PendingOf
    <3>. QED
      BY <2>1, <2>2, <3>1, <3>2, <3>3, <3>5, <3>6, Zenon DEF PendingKept
  <2>5. CASE RollbackCallback(c)
    <3>1. current = c /\ lock # c
      BY <2>1, <2>5, Zenon DEF RollbackCallback, PendingKept, CallsKeepTx
    <3>2. status[c] = "aborting" /\ status'[c] = "called"
      BY <2>5, Zenon DEF RollbackCallback, SetTyped
    <3>3. /\ pendingInclusions' = {} /\ pendingRemovals' = {}
          /\ UNCHANGED <<added, removed, elementByKey, committed>>
      BY <2>5, <3>1, Zenon DEF RollbackCallback
    <3>4. PendingOf(c)'
      BY <3>2, <3>3, Zenon DEF PendingOf
    <3>. QED
      BY <2>1, <2>2, <3>1, <3>2, <3>3, <3>4, Zenon DEF PendingKept
  <2>6. CASE End(c)
    <3>1. status'[c] = "ended" /\ (status[c] = "called" \/ c \notin registered)
      BY <2>6, Zenon DEF End, SetTyped
    <3>2. /\ UNCHANGED <<elementByKey, pendingInclusions, pendingRemovals, committed>>
          /\ added'[c] = {} /\ removed'[c] = {}
          /\ \A d \in Ctxs \ {c} : added'[d] = added[d] /\ removed'[d] = removed[d]
      BY <2>6, Zenon DEF End, SetTyped
    <3>3. ASSUME c = current PROVE pendingInclusions = {} /\ pendingRemovals = {}
      <4>1. PendingOf(c)
        BY <3>3, Zenon DEF PendingKept
      <4>2. status[c] # "called" => pendingInclusions \cup pendingRemovals = {}
        BY <2>1, <3>1, <4>1, Zenon DEF PendingOf, Registering
      <4>. QED
        BY <4>1, <4>2, Zenon DEF PendingOf
    <3>4. ASSUME NEW d \in Ctxs, d = current PROVE PendingOf(d)'
      <4>1. CASE d = c
        BY <3>1, <3>2, <3>3, <3>4, <4>1, Zenon DEF PendingOf
      <4>2. CASE d # c
        BY <2>1, <2>2, <3>2, <3>4, <4>2, ZenonT(60) DEF PendingKept, PendingOf, Registering
      <4>. QED
        BY <4>1, <4>2, Zenon
    <3>. QED
      BY <2>1, <2>2, <3>1, <3>2, <3>4, ZenonT(60) DEF PendingKept
  <2>. QED
    BY <1>9, <2>3, <2>4, <2>5, <2>6, Zenon DEF Ends
<1>. QED
  BY <1>1, <1>2, <1>3, <1>4, <1>5, <1>6, <1>7, <1>8, <1>9, Zenon DEF Next, Ends

-----------------------------------------------------------------------------
(* The content of the set is persisted.                                    *)

\* The content stays, and a call that is to persist it goes on.
LEMMA StoredStays ==
    ASSUME SetTyped, StoredSoon, UNCHANGED <<elementByKey, stored, overtaken, snapshot>>,
           NEW c \in Ctxs, \A d \in Ctxs \ {c} : pc'[d] = pc[d],
           \/ pc'[c] = pc[c]
           \/ pc[c] = "persist" /\ pc'[c] = "serialize"
           \/ pc[c] \notin {"persist", "serialize", "store"} /\ pc'[c] # "store"
    PROVE  StoredSoon'
<1>1. CASE overtaken
  BY <1>1, Zenon DEF StoredSoon
<1>2. ASSUME NEW d \in Ctxs, pc[d] \in {"persist", "serialize"} PROVE StoredSoon'
  <2>1. pc'[d] \in {"persist", "serialize"}
    BY <1>2, Zenon
  <2>. QED
    BY <2>1, Zenon DEF StoredSoon
<1>3. ASSUME NEW d \in Ctxs, pc[d] = "store", snapshot[d] = elementByKey PROVE StoredSoon'
  <2>1. pc'[d] = "store" /\ snapshot'[d] = elementByKey'
    BY <1>3, Zenon
  <2>. QED
    BY <2>1, Zenon DEF StoredSoon
<1>4. CASE stored = elementByKey /\ \A d \in Ctxs : pc[d] # "store"
  <2>1. stored' = elementByKey' /\ \A d \in Ctxs : pc'[d] # "store"
    BY <1>4, Zenon
  <2>. QED
    BY <2>1, Zenon DEF StoredSoon
<1>. QED
  BY <1>1, <1>2, <1>3, <1>4, Zenon DEF StoredSoon

\* The content is persisted by a context that is not about to store a serialization.
LEMMA PersistIs ==
    ASSUME NEW c \in Ctxs, persistSet(c, elementByKey'), pc'[c] # "store",
           \A d \in Ctxs \ {c} : pc'[d] = pc[d]
    PROVE  StoredSoon'
<1>1. overtaken' \/ \A d \in Ctxs \ {c} : pc[d] # "store"
  BY Zenon DEF persistSet
<1>. QED
  BY <1>1, Zenon DEF persistSet, StoredSoon

LEMMA StoredNext ==
    ASSUME ~TimeoutInCall, SetTyped, CallsKeepTx, StoredSoon, Next
    PROVE  StoredSoon'
<1>. USE DEF setVars, callVars, ghostVars
<1>1. ASSUME NEW c \in Ctxs, AddWithoutTx(c) PROVE StoredSoon'
  <2>1. CASE key[c] \in elementByKey
    <3>1. Goto(c, "unlock")
      BY <1>1, <2>1, Zenon DEF AddWithoutTx
    <3>2. pc'[c] = "unlock" /\ \A d \in Ctxs \ {c} : pc'[d] = pc[d]
      BY <3>1, GotoIs, Zenon DEF Places
    <3>. QED
      BY <1>1, <2>1, <3>2, StoredStays, Zenon DEF AddWithoutTx
  <2>2. CASE key[c] \notin elementByKey
    <3>1. ~tx[c]
      BY <1>1, TxIs, Zenon DEF AddWithoutTx
    <3>2. pc'[c] = "persist"
      BY <1>1, <2>2, <3>1, GotoIs, Zenon DEF AddWithoutTx, Places
    <3>. QED
      BY <3>2, Zenon DEF StoredSoon
  <2>. QED
    BY <2>1, <2>2, Zenon
<1>2. ASSUME NEW c \in Ctxs, AddUnlock(c) PROVE StoredSoon'
  <2>1. PICK p \in {"serialize", "idle", "onEnd"} :
            Goto(c, p) /\ (pc[c] = "persist" => p = "serialize")
    BY <1>2, Zenon DEF AddUnlock
  <2>2. pc'[c] = p /\ \A d \in Ctxs \ {c} : pc'[d] = pc[d]
    BY <2>1, GotoIs, Zenon DEF Places
  <2>. QED
    BY <1>2, <2>1, <2>2, StoredStays, Zenon DEF AddUnlock
<1>3. ASSUME NEW c \in Ctxs, AddSerialize(c) PROVE StoredSoon'
  <2>1. pc'[c] = "store"
    BY <1>3, GotoIs, Zenon DEF AddSerialize, Places
  <2>2. snapshot'[c] = elementByKey'
    BY <1>3, Zenon DEF AddSerialize, SetTyped
  <2>. QED
    BY <2>1, <2>2, Zenon DEF StoredSoon
<1>4. ASSUME NEW c \in Ctxs, AddStore(c) PROVE StoredSoon'
  <2>1. /\ pc[c] = "store" /\ pc'[c] = "idle" /\ \A d \in Ctxs \ {c} : pc'[d] = pc[d]
        /\ elementByKey' = elementByKey
    BY <1>4, GotoIs, Zenon DEF AddStore, Places
  <2>2. /\ stored' = snapshot[c]
        /\ overtaken => overtaken'
        /\ overtaken' \/ \A d \in Ctxs \ {c} : pc[d] # "store"
    BY <1>4, Zenon DEF AddStore, persistSet
  <2>3. CASE overtaken'
    BY <2>3, Zenon DEF StoredSoon
  <2>4. ASSUME NEW d \in Ctxs, pc[d] \in {"persist", "serialize"} PROVE StoredSoon'
    <3>1. pc'[d] \in {"persist", "serialize"}
      BY <2>1, <2>4, Zenon
    <3>. QED
      BY <3>1, Zenon DEF StoredSoon
  <2>5. ASSUME NEW d \in Ctxs, pc[d] = "store", snapshot[d] = elementByKey, ~overtaken'
        PROVE  StoredSoon'
    <3>1. stored' = elementByKey' /\ \A e \in Ctxs : pc'[e] # "store"
      BY <2>1, <2>2, <2>5, Zenon
    <3>. QED
      BY <3>1, Zenon DEF StoredSoon
  <2>. QED
    BY <2>1, <2>2, <2>3, <2>4, <2>5, Zenon DEF StoredSoon
<1>5. ASSUME NEW c \in Ctxs, RemoveWithoutTx(c) PROVE StoredSoon'
  <2>1. /\ pc[c] = "remove" /\ pc'[c] = "unlock" /\ \A d \in Ctxs \ {c} : pc'[d] = pc[d]
    BY <1>5, GotoIs, Zenon DEF RemoveWithoutTx, Places
  <2>2. CASE key[c] \in elementByKey
    BY <1>5, <2>1, <2>2, PersistIs, Zenon DEF RemoveWithoutTx
  <2>3. CASE key[c] \notin elementByKey
    <3>1. elementByKey' = elementByKey
      BY <1>5, <2>3, Zenon DEF RemoveWithoutTx
    <3>. QED
      BY <1>5, <2>1, <2>3, <3>1, StoredStays, Zenon DEF RemoveWithoutTx
  <2>. QED
    BY <2>2, <2>3, ZenonT(60)
<1>6. ASSUME NEW c \in Ctxs,
             AddWait(c) \/ AddWithTx(c) \/ AddOnEnd(c) \/ RemoveStart(c) \/ RemoveWait(c)
      PROVE  StoredSoon'
  <2>1. PICK p \in {"add", "register", "unlock", "removeWait", "remove"} : Goto(c, p)
    BY <1>6, Zenon DEF AddWait, AddWithTx, AddOnEnd, RemoveStart, RemoveWait
  <2>2. pc'[c] = p /\ \A d \in Ctxs \ {c} : pc'[d] = pc[d]
    BY <2>1, GotoIs, Zenon DEF Places
  <2>3. pc[c] \notin {"persist", "serialize", "store"}
    BY <1>6, Zenon DEF AddWait, AddWithTx, AddOnEnd, RemoveStart, RemoveWait, CanCall
  <2>4. UNCHANGED <<elementByKey, stored, overtaken, snapshot>>
    BY <1>6, Zenon DEF AddWait, AddWithTx, AddOnEnd, RemoveStart, RemoveWait
  <2>. QED
    BY <2>2, <2>3, <2>4, StoredStays, Zenon
<1>7. ASSUME NEW c \in Ctxs, RemoveWithTx(c) \/ UnlockSet(c) PROVE StoredSoon'
  <2>1. PICK p \in {"idle", "unlock"} : Goto(c, p)
    BY <1>7, Zenon DEF RemoveWithTx, UnlockSet
  <2>2. pc'[c] = p /\ \A d \in Ctxs \ {c} : pc'[d] = pc[d]
    BY <2>1, GotoIs, Zenon DEF Places
  <2>. QED
    BY <1>7, <2>2, StoredStays, Zenon DEF RemoveWithTx, UnlockSet
<1>8. ASSUME NEW c \in Ctxs, GetElementByKey(c) PROVE StoredSoon'
  BY <1>8, StoredStays, Zenon DEF GetElementByKey
<1>9. ASSUME NEW c \in Ctxs, Ends(c) PROVE StoredSoon'
  <2>1. pc[c] = "idle" /\ UNCHANGED <<pc, snapshot>>
    BY <1>9, EndIs, Zenon
  <2>2. CASE CommitCallback(c)
    BY <2>1, <2>2, PersistIs, Zenon DEF CommitCallback
  <2>3. CASE ~CommitCallback(c)
    <3>1. UNCHANGED <<elementByKey, stored, overtaken>>
      BY <1>9, <2>3, Zenon DEF Ends, Commit, Timeout, RollbackCallback, End
    <3>. QED
      BY <2>1, <3>1, StoredStays, Zenon
  <2>. QED
    BY <2>2, <2>3, Zenon
<1>. QED
  BY <1>1, <1>2, <1>3, <1>4, <1>5, <1>6, <1>7, <1>8, <1>9, Zenon DEF Next, Ends

-----------------------------------------------------------------------------
(* The invariant, and what it says of those who read the set.              *)

LEMMA SetInit == Init => SetInv
<1>. SUFFICES ASSUME Init PROVE SetInv
  BY Zenon
<1>1. SetTyped
  BY Zenon DEF Init, SetTyped, Places, Statuses
<1>2. CallsKeepTx
  BY SetAssumption, Zenon DEF Init, CallsKeepTx
<1>3. PendingKept
  BY SetAssumption, Zenon DEF Init, PendingKept
<1>4. StoredSoon
  BY Zenon DEF Init, StoredSoon
<1>. QED
  BY <1>1, <1>2, <1>3, <1>4, Zenon DEF SetInv

LEMMA SetNext ==
    ASSUME ~TimeoutInCall, SetInv, [Next]_vars
    PROVE  SetInv'
<1>1. CASE Next
  <2>1. SetTyped'
    BY <1>1, TypedAdd, TypedRemove, TypedEnd, Zenon DEF SetInv, Next, Ends
  <2>2. CallsKeepTx' /\ PendingKept' /\ StoredSoon'
    BY <1>1, CallsNext, PendingNext, StoredNext, Zenon DEF SetInv
  <2>. QED
    BY <2>1, <2>2, Zenon DEF SetInv
<1>2. CASE UNCHANGED vars
  <2>. USE <1>2 DEF vars, setVars, pathVars, txVars, callVars, ghostVars
  <2>1. SetTyped' /\ CallsKeepTx'
    BY Zenon DEF SetInv, SetTyped, CallsKeepTx
  <2>2. \A c \in Ctxs : PendingOf(c) => PendingOf(c)'
    BY Zenon DEF PendingOf, Registering
  <2>3. PendingKept'
    BY <2>2, Zenon DEF SetInv, PendingKept
  <2>4. StoredSoon'
    BY Zenon DEF SetInv, StoredSoon
  <2>. QED
    BY <2>1, <2>3, <2>4, Zenon DEF SetInv
<1>. QED
  BY <1>1, <1>2, Zenon

LEMMA SetReads ==
    ASSUME SetInv
    PROVE  OthersSeeCommitted /\ WriterSeesOwnChanges /\ StoredUnlessOvertaken
<1>0. elementByKey = committed /\ elementByKey \subseteq Keys /\ pendingInclusions \subseteq Keys
  BY Zenon DEF SetInv, PendingKept, SetTyped
<1>1. OthersSeeCommitted
  <2>1. ~WriterInside => pendingInclusions = {} /\ pendingRemovals = {}
    BY Zenon DEF SetInv, CallsKeepTx, PendingKept, PendingOf, WriterInside
  <2>. QED
    BY <1>0, <2>1, Zenon DEF OthersSeeCommitted, getElem
<1>2. WriterSeesOwnChanges
  <2>. SUFFICES ASSUME WriterInside, status[current] = "running"
                PROVE  getElem = (committed \cup added[current]) \ removed[current]
    BY Zenon DEF WriterSeesOwnChanges
  <2>1. current \in Ctxs
    BY Zenon DEF SetInv, CallsKeepTx, WriterInside
  <2>2. /\ pendingRemovals = removed[current]
        /\ pendingInclusions \ pendingRemovals = added[current]
    BY <2>1, Zenon DEF SetInv, PendingKept, PendingOf
  <2>. QED
    BY <1>0, <2>2, Zenon DEF getElem
<1>3. StoredUnlessOvertaken
  BY <1>0, Zenon DEF SetInv, StoredSoon, StoredUnlessOvertaken
<1>. QED
  BY <1>1, <1>2, <1>3, Zenon

\* When no transaction times out during a call of its context, whoever reads the set once the
\* transaction let through last has ended sees exactly the changes of the committed transactions
\* and of the calls without transaction (makeTransactionEndCallback).
THEOREM SetIsCommitted ==
    ASSUME ~TimeoutInCall
    PROVE  Spec => []OthersSeeCommitted
<1>1. SetInv /\ [Next]_vars => SetInv'
  BY SetNext, Zenon
<1>2. SetInv => OthersSeeCommitted
  BY SetReads, Zenon
<1>. QED
  BY <1>1, <1>2, SetInit, PTL DEF Spec

\* In the same circumstances a transaction sees its own changes on top of the committed ones
\* (Add, Remove, getElem).
THEOREM SetShowsOwnChanges ==
    ASSUME ~TimeoutInCall
    PROVE  Spec => []WriterSeesOwnChanges
<1>1. SetInv /\ [Next]_vars => SetInv'
  BY SetNext, ZenonT(60)
<1>2. SetInv => WriterSeesOwnChanges
  BY SetReads, Zenon
<1>. QED
  BY <1>1, <1>2, SetInit, PTL DEF Spec

\* In the same circumstances, between calls and transactions the persisted set is the committed
\* one, unless the serialization of a call of Add without transaction was overtaken (persistSet).
THEOREM SetIsStored ==
    ASSUME ~TimeoutInCall
    PROVE  Spec => []StoredUnlessOvertaken
<1>1. SetInv /\ [Next]_vars => SetInv'
  BY SetNext, ZenonT(60)
<1>2. SetInv => StoredUnlessOvertaken
  BY SetReads, Zenon
<1>. QED
  BY <1>1, <1>2, SetInit, PTL DEF Spec
=============================================================================
