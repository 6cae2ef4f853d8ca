----------------------------- MODULE SharedSet -----------------------------
(***************************************************************************)
(* A shared, persisted Set (internal/globals/containers/setcoll) used by   *)
(* contexts with a read-write transaction (Writers) and contexts without   *)
(* one.  The changes of a transaction go to pendingInclusions and          *)
(* pendingRemovals, which belong to the set, and are applied by the end    *)
(* callback that the first change registers.                               *)
(*                                                                         *)
(* The isolator is what StrongTransactionIsolator promises: one unfinished *)
(* write transaction is let through at a time, and nobody else beside it.  *)
(* The lock is held by the state of a context, on behalf of its goroutine  *)
(* or of the goroutine that ends its transaction.  An element is its key   *)
(* (uniqueness by representation).                                         *)
(***************************************************************************)
EXTENDS FiniteSets

CONSTANTS
    Ctxs, Writers, Keys,
    TimeoutInCall,   \* whether a transaction can time out during a call of its context
    None

ASSUME SetAssumption ==
    /\ Writers \subseteq Ctxs
    /\ TimeoutInCall \in BOOLEAN
    /\ None \notin Ctxs \cup Keys

VARIABLES
    elementByKey, pendingInclusions, pendingRemovals,
    withCallback,      \* transactionsWithSetEndCallback
    pathKeyToKey,      \* keys of the map, once it is initialized
    pathKeysInit,
    stored,            \* the set as persisted
    lock,              \* holder of the set's lock
    current,           \* the write transaction let through last
    status,            \* [Ctxs -> {"running", "committing", "aborting", "called", "ended"}]
    registered,        \* transactions whose OnEnd accepted the callback
    pc, key, tx,       \* the call of each context; tx: it captured its transaction
    snapshot,          \* serialization about to be stored
    committed, added, removed,  \* what the set must contain; changes of each transaction
    overtaken          \* the set was persisted while a call held an older serialization

setVars == <<elementByKey, pendingInclusions, pendingRemovals>>
pathVars == <<pathKeyToKey, pathKeysInit>>
txVars == <<withCallback, status, registered>>
callVars == <<key, tx, snapshot>>
ghostVars == <<committed, added, removed, overtaken>>
vars == <<setVars, pathVars, txVars, stored, lock, current, pc, callVars, ghostVars>>

Init ==
    /\ elementByKey = {} /\ pendingInclusions = {} /\ pendingRemovals = {}
    /\ withCallback = {} /\ registered = {}
    /\ pathKeyToKey = {} /\ pathKeysInit = FALSE
    /\ stored = {}
    /\ lock = None
    /\ current = None
    /\ status = [c \in Ctxs |-> IF c \in Writers THEN "running" ELSE "ended"]
    /\ pc = [c \in Ctxs |-> "idle"]
    /\ key = [c \in Ctxs |-> None]
    /\ tx = [c \in Ctxs |-> FALSE]
    /\ snapshot = [c \in Ctxs |-> {}]
    /\ committed = {}
    /\ added = [c \in Ctxs |-> {}]
    /\ removed = [c \in Ctxs |-> {}]
    /\ overtaken = FALSE

Goto(c, place) == pc' = [pc EXCEPT ![c] = place]

\* ctx.GetTx() # nil
HasTx(c) == status[c] # "ended"

CanCall(c) == pc[c] = "idle" /\ status[c] \in {"running", "ended"}

\* WaitForOtherTxsToTerminate returns.
LetThrough(c) ==
    /\ current \in {None, c} \cup {w \in Writers : status[w] = "ended"}
    /\ current' = IF HasTx(c) THEN c ELSE current

AcquireLock(c) == lock = None /\ lock' = c

persistSet(c, content) ==
    /\ stored' = content
    /\ overtaken' = (overtaken \/ \E d \in Ctxs \ {c} : pc[d] = "store")

-----------------------------------------------------------------------------
(* Add                                                                     *)

AddWait(c) ==
    /\ CanCall(c)
    /\ LetThrough(c)
    /\ \E k \in Keys : key' = [key EXCEPT ![c] = k]
    /\ tx' = [tx EXCEPT ![c] = HasTx(c)]
    /\ Goto(c, "add")
    /\ UNCHANGED <<setVars, pathVars, txVars, stored, lock, snapshot, ghostVars>>

\* addToSharedSetNoPersist asks for the transaction again.
AddWithoutTx(c) ==
    /\ pc[c] = "add" /\ ~HasTx(c)
    /\ AcquireLock(c)
    /\ IF key[c] \in elementByKey
       THEN Goto(c, "unlock") /\ UNCHANGED <<elementByKey, committed>>  \* panic
       ELSE /\ elementByKey' = elementByKey \cup {key[c]}
            /\ committed' = IF tx[c] THEN committed ELSE committed \cup {key[c]}
            /\ Goto(c, IF tx[c] THEN "register" ELSE "persist")
    /\ pathKeyToKey' = IF pathKeysInit THEN pathKeyToKey \cup {key[c]} ELSE pathKeyToKey
    /\ UNCHANGED <<pendingInclusions, pendingRemovals, pathKeysInit, txVars, stored, current,
                   callVars, added, removed, overtaken>>

\* Mutant: the key stays in the pending removals.
AddWithTxKeepsRemoval(c) ==
    /\ pc[c] = "add" /\ HasTx(c)
    /\ AcquireLock(c)
    /\ pendingInclusions' = pendingInclusions \cup {key[c]}
    /\ pathKeyToKey' = IF pathKeysInit THEN pathKeyToKey \cup {key[c]} ELSE pathKeyToKey
    /\ added' = [added EXCEPT ![c] = @ \cup {key[c]}]
    /\ removed' = [removed EXCEPT ![c] = @ \ {key[c]}]
    /\ Goto(c, "register")
    /\ UNCHANGED <<elementByKey, pendingRemovals, pathKeysInit, txVars, stored, current, callVars,
                   committed, overtaken>>

AddWithTx(c) ==
    /\ pc[c] = "add" /\ HasTx(c)
    /\ AcquireLock(c)
    /\ pendingRemovals' = pendingRemovals \ {key[c]}
    /\ pendingInclusions' = pendingInclusions \cup {key[c]}
    /\ pathKeyToKey' = IF pathKeysInit THEN pathKeyToKey \cup {key[c]} ELSE pathKeyToKey
    /\ added' = [added EXCEPT ![c] = @ \cup {key[c]}]
    /\ removed' = [removed EXCEPT ![c] = @ \ {key[c]}]
    /\ Goto(c, "register")
    /\ UNCHANGED <<elementByKey, pathKeysInit, txVars, stored, current, callVars, committed,
                   overtaken>>

\* The lock is released before the set is persisted or the callback registered.
AddUnlock(c) ==
    /\ pc[c] \in {"register", "persist"} /\ lock = c
    /\ lock' = None
    /\ Goto(c, IF pc[c] = "persist" THEN "serialize"
               ELSE IF c \in withCallback THEN "idle" ELSE "onEnd")
    /\ UNCHANGED <<setVars, pathVars, txVars, stored, current, callVars, ghostVars>>

\* The error of tx.OnEnd is ignored.
Register(c) ==
    /\ withCallback' = withCallback \cup {c}
    /\ registered' = IF status[c] = "running" THEN registered \cup {c} ELSE registered
    /\ UNCHANGED status

AddOnEnd(c) ==
    /\ pc[c] = "onEnd"
    /\ AcquireLock(c)
    /\ Register(c)
    /\ Goto(c, "unlock")
    /\ UNCHANGED <<setVars, pathVars, stored, current, callVars, ghostVars>>

\* persistSet without the lock: serialization, then SetSerialized.
AddSerialize(c) ==
    /\ pc[c] = "serialize"
    /\ snapshot' = [snapshot EXCEPT ![c] = elementByKey]
    /\ Goto(c, "store")
    /\ UNCHANGED <<setVars, pathVars, txVars, stored, lock, current, key, tx, ghostVars>>

AddStore(c) ==
    /\ pc[c] = "store"
    /\ persistSet(c, snapshot[c])
    /\ snapshot' = [snapshot EXCEPT ![c] = {}]
    /\ Goto(c, "idle")
    /\ UNCHANGED <<setVars, pathVars, txVars, lock, current, key, tx, committed, added, removed>>

-----------------------------------------------------------------------------
(* Remove gets the transaction before it waits.                            *)

RemoveStart(c) ==
    /\ CanCall(c)
    /\ \E k \in Keys : key' = [key EXCEPT ![c] = k]
    /\ tx' = [tx EXCEPT ![c] = HasTx(c)]
    /\ Goto(c, "removeWait")
    /\ UNCHANGED <<setVars, pathVars, txVars, stored, lock, current, snapshot, ghostVars>>

RemoveWait(c) ==
    /\ pc[c] = "removeWait"
    /\ LetThrough(c)
    /\ Goto(c, "remove")
    /\ UNCHANGED <<setVars, pathVars, txVars, stored, lock, callVars, ghostVars>>

RemoveWithoutTx(c) ==
    /\ pc[c] = "remove" /\ ~tx[c]
    /\ AcquireLock(c)
    /\ elementByKey' = elementByKey \ {key[c]}
    /\ committed' = committed \ {key[c]}
    /\ IF key[c] \in elementByKey THEN persistSet(c, elementByKey')
       ELSE UNCHANGED <<stored, overtaken>>
    /\ Goto(c, "unlock")
    /\ UNCHANGED <<pendingInclusions, pendingRemovals, pathVars, txVars, current, callVars,
                   added, removed>>

RemoveWithTx(c) ==
    /\ pc[c] = "remove" /\ tx[c]
    /\ AcquireLock(c)
    /\ pendingRemovals' = pendingRemovals \cup {key[c]}
    /\ IF c \in withCallback THEN UNCHANGED txVars ELSE Register(c)
    /\ added' = [added EXCEPT ![c] = @ \ {key[c]}]
    /\ removed' = [removed EXCEPT ![c] = @ \cup {key[c]}]
    /\ Goto(c, "unlock")
    /\ UNCHANGED <<elementByKey, pendingInclusions, pathVars, stored, current, callVars, committed,
                   overtaken>>

UnlockSet(c) ==
    /\ pc[c] = "unlock" /\ lock = c
    /\ lock' = None
    /\ Goto(c, "idle")
    /\ UNCHANGED <<setVars, pathVars, txVars, stored, current, callVars, ghostVars>>

initPathKeyMap ==
    /\ ~pathKeysInit
    /\ pathKeysInit' = TRUE
    /\ pathKeyToKey' = elementByKey

\* The first call initializes pathKeyToKey.
GetElementByKey(c) ==
    /\ CanCall(c)
    /\ LetThrough(c)
    /\ lock = None
    /\ initPathKeyMap
    /\ UNCHANGED <<setVars, txVars, stored, lock, pc, callVars, ghostVars>>

-----------------------------------------------------------------------------
(* The end of a transaction: by its context, or by the timeout goroutine.  *)

Commit(c) ==
    /\ status[c] = "running" /\ pc[c] = "idle"
    /\ status' = [status EXCEPT ![c] = "committing"]
    /\ UNCHANGED <<setVars, pathVars, withCallback, registered, stored, lock, current, pc,
                   callVars, ghostVars>>

Timeout(c) ==
    /\ status[c] = "running" /\ (pc[c] = "idle" \/ TimeoutInCall)
    /\ status' = [status EXCEPT ![c] = "aborting"]
    /\ UNCHANGED <<setVars, pathVars, withCallback, registered, stored, lock, current, pc,
                   callVars, ghostVars>>

\* Mutant: the changes are applied without persisting the set.
CommitCallbackNoPersist(c) ==
    /\ status[c] = "committing" /\ c \in registered
    /\ lock = None
    /\ elementByKey' = (elementByKey \cup pendingInclusions) \ pendingRemovals
    /\ pendingInclusions' = {} /\ pendingRemovals' = {}
    /\ committed' = (committed \cup added[c]) \ removed[c]
    /\ status' = [status EXCEPT ![c] = "called"]
    /\ UNCHANGED <<pathVars, withCallback, registered, stored, lock, current, pc, callVars, added,
                   removed, overtaken>>

\* makeTransactionEndCallback, success
CommitCallback(c) ==
    /\ status[c] = "committing" /\ c \in registered
    /\ lock = None
    /\ elementByKey' = (elementByKey \cup pendingInclusions) \ pendingRemovals
    /\ persistSet(c, elementByKey')
    /\ pendingInclusions' = {} /\ pendingRemovals' = {}
    /\ committed' = (committed \cup added[c]) \ removed[c]
    /\ status' = [status EXCEPT ![c] = "called"]
    /\ UNCHANGED <<pathVars, withCallback, registered, lock, current, pc, callVars, added,
                   removed>>

\* Mutant: a rollback leaves the pending changes.
RollbackCallbackKeepsPending(c) ==
    /\ status[c] = "aborting" /\ c \in registered
    /\ lock \in {None, c}
    /\ status' = [status EXCEPT ![c] = "called"]
    /\ UNCHANGED <<setVars, pathVars, withCallback, registered, stored, lock, current, pc,
                   callVars, ghostVars>>

\* makeTransactionEndCallback, failure: locking panics (re-entry) if the goroutine of
\* the context holds the lock, and the pending changes stay.
RollbackCallback(c) ==
    /\ status[c] = "aborting" /\ c \in registered
    /\ lock \in {None, c}
    /\ pendingInclusions' = IF lock = c THEN pendingInclusions ELSE {}
    /\ pendingRemovals' = IF lock = c THEN pendingRemovals ELSE {}
    /\ status' = [status EXCEPT ![c] = "called"]
    /\ UNCHANGED <<elementByKey, pathVars, withCallback, registered, stored, lock, current, pc,
                   callVars, ghostVars>>

\* Finished() is closed and the context is detached.
End(c) ==
    /\ \/ status[c] = "called"
       \/ status[c] \in {"committing", "aborting"} /\ c \notin registered
    /\ status' = [status EXCEPT ![c] = "ended"]
    /\ added' = [added EXCEPT ![c] = {}]
    /\ removed' = [removed EXCEPT ![c] = {}]
    /\ UNCHANGED <<setVars, pathVars, withCallback, registered, stored, lock, current, pc,
                   callVars, committed, overtaken>>

-----------------------------------------------------------------------------
Next ==
    \E c \in Ctxs :
        \/ AddWait(c) \/ AddWithoutTx(c) \/ AddWithTx(c) \/ AddUnlock(c) \/ AddOnEnd(c)
        \/ AddSerialize(c) \/ AddStore(c)
        \/ RemoveStart(c) \/ RemoveWait(c) \/ RemoveWithoutTx(c) \/ RemoveWithTx(c)
        \/ UnlockSet(c) \/ GetElementByKey(c)
        \/ Commit(c) \/ Timeout(c) \/ CommitCallback(c) \/ RollbackCallback(c) \/ End(c)

Spec == Init /\ [][Next]_vars

-----------------------------------------------------------------------------
(* Readers.                                                                *)

\* getElem: what Has, Get and IsEmpty see.
getElem == {k \in Keys : k \notin pendingRemovals /\ k \in elementByKey \cup pendingInclusions}

\* Iterator copies the elements, deletes the removed ones, then adds the included ones.
Iterator == (elementByKey \ pendingRemovals) \cup pendingInclusions

-----------------------------------------------------------------------------
(* Properties.                                                             *)

TypeOK ==
    /\ elementByKey \subseteq Keys /\ stored \subseteq Keys /\ pathKeyToKey \subseteq Keys
    /\ pendingInclusions \subseteq Keys /\ pendingRemovals \subseteq Keys
    /\ pathKeysInit \in BOOLEAN
    /\ withCallback \subseteq Writers /\ registered \subseteq withCallback
    /\ lock \in Ctxs \cup {None} /\ current \in Writers \cup {None}
    /\ status \in [Ctxs -> {"running", "committing", "aborting", "called", "ended"}]
    /\ pc \in [Ctxs -> {"idle", "add", "register", "persist", "onEnd", "serialize", "store",
                        "removeWait", "remove", "unlock"}]
    /\ \A c \in Ctxs : pc[c] \in {"unlock", "persist"} => lock = c
    /\ key \in [Ctxs -> Keys \cup {None}] /\ tx \in [Ctxs -> BOOLEAN]

WriterInside == current # None /\ status[current] # "ended"

\* Once the transaction let through last has ended, whoever reads the set sees exactly
\* the changes of the committed transactions and of the calls without transaction:
\* nothing of a transaction that was rolled back, nothing missing.
OthersSeeCommitted == ~WriterInside => getElem = committed

\* A transaction sees its own changes on top of the committed ones.
WriterSeesOwnChanges ==
    WriterInside /\ status[current] = "running" /\ pc[current] = "idle"
        => getElem = (committed \cup added[current]) \ removed[current]

\* Between calls and transactions the persisted set is the committed one: "Set should
\* be persisted during call to .Add", "at end of successful transaction". The only
\* exception is a call of Add without transaction, whose serialization was overtaken by
\* a later one before it stored it.
StoredUnlessOvertaken ==
    /\ \A c \in Ctxs : pc[c] = "idle" /\ status[c] \in {"running", "ended"}
    /\ ~overtaken
    => stored = committed

\* Iterating over the set yields the elements it has.
IteratorAgrees == Iterator = getElem

\* "GetElementByKey should retrieve the element with the associated key": every element
\* has its entry in the map of path keys.
ElementsHavePathKeys == pathKeysInit => elementByKey \subseteq pathKeyToKey
=============================================================================
