------------------------------- MODULE FileKV -------------------------------
(***************************************************************************)
(* SingleFileKV (internal/filekv): a key-value store over a bbolt database *)
(* that gives each core transaction a bbolt write transaction, created by  *)
(* the first call made with the transaction and finished by an end         *)
(* callback.  bbolt (external) allows one write transaction at a time:     *)
(* Begin(true), Update and Close wait for the others to finish.            *)
(*                                                                         *)
(* A context has a goroutine that calls the store, the process             *)
(* <<c, "call">>, and its transaction is ended by <<c, "end">>: the same   *)
(* goroutine, the timeout goroutine of the transaction or Close.  In the   *)
(* contexts of EndWriters another end callback writes to the store, as     *)
(* the one of a persisted collection does.  tx.OnEnd is what Transaction   *)
(* promises: a callback is accepted until the end starts, refused after.   *)
(* A stored value is the context that wrote it, and whether it wrote it    *)
(* with its bbolt transaction or directly.                                 *)
(***************************************************************************)
EXTENDS FiniteSets

CONSTANTS
    Ctxs,            \* contexts
    TxCtxs,          \* contexts with a transaction
    EndWriters,      \* contexts with an end callback that calls the store
    Keys,
    TimeoutInCall,   \* whether a transaction can time out during a call of its context
    WithClose,       \* whether the store is closed
    None

ASSUME KVAssumption ==
    /\ EndWriters \subseteq TxCtxs /\ TxCtxs \subseteq Ctxs
    /\ TimeoutInCall \in BOOLEAN /\ WithClose \in BOOLEAN
    /\ None \notin Ctxs \cup Keys

Procs == Ctxs \X {"call", "end"}
Ops == {"get", "set", "insert", "delete"}
Values == Ctxs \X {"tx", "direct"}
Contents == [Keys -> Values \cup {None}]

VARIABLES
    transactionMapLock,  \* process that holds it
    transactions,        \* contexts whose transaction has an entry
    registered,          \* contexts whose end callback tx.OnEnd accepted
    status,              \* [Ctxs -> {"running", "commit", "rollback", "ended"}]
    toCall,              \* end callbacks that remain to be called
    failed,              \* contexts whose end had a callback error
    pc, op, key,         \* the call of each process
    data,                \* committed content of the database
    writer,              \* owner of the open bbolt write transaction
    work,                \* its content
    closed,
    closing, closeTx,    \* step of Close, the transaction it closes
    toClose,             \* and those that remain
    outcome,             \* how the transaction of each context ended
    wrote                \* keys that each context wrote and nobody wrote since

callVars == <<pc, op, key>>
txVars == <<status, toCall, failed, outcome>>
dbVars == <<data, writer, work>>
closeVars == <<closed, closing, closeTx, toClose>>
vars == <<transactionMapLock, transactions, registered, txVars, callVars, dbVars, closeVars, wrote>>

Init ==
    /\ transactionMapLock = None
    /\ transactions = {} /\ registered = {} /\ failed = {}
    /\ status = [c \in Ctxs |-> IF c \in TxCtxs THEN "running" ELSE "ended"]
    /\ toCall = [c \in Ctxs |-> {}]
    /\ pc = [p \in Procs |-> "idle"]
    /\ op = [p \in Procs |-> None]
    /\ key = [p \in Procs |-> None]
    /\ data = [k \in Keys |-> None] /\ work = data
    /\ writer = None
    /\ closed = FALSE /\ closing = "no" /\ closeTx = None /\ toClose = {}
    /\ outcome = [c \in Ctxs |-> None]
    /\ wrote = [c \in Ctxs |-> {}]

Goto(p, place) == pc' = [pc EXCEPT ![p] = place]

Return(p) ==
    /\ Goto(p, "idle")
    /\ op' = [op EXCEPT ![p] = None]
    /\ key' = [key EXCEPT ![p] = None]

Ending(c) == status[c] \in {"commit", "rollback"}

-----------------------------------------------------------------------------
(* Get, Has, Set, Insert, Delete                                           *)

\* The store is open; ctx.GetTx() is not nil until the end of the transaction.
Enter(p, o, k) ==
    /\ pc[p] = "idle" /\ ~closed
    /\ op' = [op EXCEPT ![p] = o]
    /\ key' = [key EXCEPT ![p] = k]
    /\ Goto(p, IF status[p[1]] # "ended" THEN "getCreate" ELSE "direct")

Call(c) ==
    /\ Ending(c) => TimeoutInCall
    /\ \E o \in Ops, k \in Keys : Enter(<<c, "call">>, o, k)
    /\ UNCHANGED <<transactionMapLock, transactions, registered, txVars, dbVars, closeVars, wrote>>

\* Mutant: the state of the transaction is tested before the map is looked up.
GetCreateEndFirst(p) ==
    /\ pc[p] = "getCreate" /\ transactionMapLock = None
    /\ \/ Ending(p[1]) /\ Goto(p, "direct") /\ UNCHANGED <<transactionMapLock, op, key>>
       \/ status[p[1]] = "ended" /\ Return(p) /\ UNCHANGED transactionMapLock
       \/ /\ status[p[1]] = "running"
          /\ IF p[1] \in transactions
             THEN Goto(p, "inTx") /\ UNCHANGED <<transactionMapLock, op, key>>
             ELSE transactionMapLock' = p /\ Goto(p, "begin") /\ UNCHANGED <<op, key>>
    /\ UNCHANGED <<transactions, registered, txVars, dbVars, closeVars, wrote>>

\* getCreateDatabaseTxn. With a finished transaction the call panics: Rollback on nil.
GetCreate(p) ==
    /\ pc[p] = "getCreate" /\ transactionMapLock = None
    /\ \/ /\ p[1] \in transactions
          /\ Goto(p, "inTx")
          /\ UNCHANGED <<transactionMapLock, op, key>>
       \/ /\ p[1] \notin transactions /\ status[p[1]] = "ended"
          /\ Return(p)
          /\ UNCHANGED transactionMapLock
       \/ /\ p[1] \notin transactions /\ Ending(p[1])
          /\ Goto(p, "direct")
          /\ UNCHANGED <<transactionMapLock, op, key>>
       \/ /\ p[1] \notin transactions /\ status[p[1]] = "running"
          /\ transactionMapLock' = p
          /\ Goto(p, "begin")
          /\ UNCHANGED <<op, key>>
    /\ UNCHANGED <<transactions, registered, txVars, dbVars, closeVars, wrote>>

\* kv.db.Begin(true), with transactionMapLock held.
Begin(p) ==
    /\ pc[p] = "begin" /\ ~closed /\ writer = None
    /\ writer' = p[1]
    /\ work' = data
    /\ transactions' = transactions \cup {p[1]}
    /\ Goto(p, "onEnd")
    /\ UNCHANGED <<transactionMapLock, registered, txVars, op, key, data, closeVars, wrote>>

BeginClosed(p) ==
    /\ pc[p] = "begin" /\ closed
    /\ transactionMapLock' = None
    /\ Return(p)
    /\ UNCHANGED <<transactions, registered, txVars, dbVars, closeVars, wrote>>

\* The errors of tx.OnEnd for a finishing or finished transaction are ignored.
OnEnd(p) ==
    /\ pc[p] = "onEnd"
    /\ registered' = IF status[p[1]] = "running" THEN registered \cup {p[1]} ELSE registered
    /\ transactionMapLock' = None
    /\ Goto(p, "inTx")
    /\ UNCHANGED <<transactions, txVars, op, key, dbVars, closeVars, wrote>>

\* What the operation leaves in content, or content itself if it reads or fails.
Result(p, content, via) ==
    IF op[p] = "set" \/ (op[p] = "insert" /\ content[key[p]] = None)
    THEN [content EXCEPT ![key[p]] = <<p[1], via>>]
    ELSE IF op[p] = "delete" THEN [content EXCEPT ![key[p]] = None]
    ELSE content

\* The keys whose value changes are no longer what the others wrote.
Overwrite(c, old, new) ==
    [d \in Ctxs |-> IF d = c THEN wrote[d] ELSE {k \in wrote[d] : new[k] = old[k]}]

Written(p, new) ==
    IF new[key[p]] \in {p[1]} \X {"tx", "direct"} THEN wrote[p[1]] \cup {key[p]}
    ELSE wrote[p[1]] \ {key[p]}

\* KVTx: the operation fails if the bbolt transaction is closed.
InTx(p) ==
    /\ pc[p] = "inTx"
    /\ IF writer = p[1]
       THEN /\ work' = Result(p, work, "tx")
            /\ wrote' = [wrote EXCEPT ![p[1]] = Written(p, work')]
       ELSE UNCHANGED <<work, wrote>>
    /\ Return(p)
    /\ UNCHANGED <<transactionMapLock, transactions, registered, txVars, data, writer, closeVars>>

\* kv.db.View, and kv.db.Update, which waits for the open write transaction.
Direct(p) ==
    /\ pc[p] = "direct"
    /\ op[p] # "get" => writer = None
    /\ IF closed THEN UNCHANGED <<data, wrote>>
       ELSE /\ data' = Result(p, data, "direct")
            /\ wrote' = [Overwrite(p[1], data, data') EXCEPT ![p[1]] = Written(p, data')]
    /\ Return(p)
    /\ UNCHANGED <<transactionMapLock, transactions, registered, txVars, writer, work, closeVars>>

-----------------------------------------------------------------------------
(* The end of a transaction                                                *)

StartEnd(c, how) ==
    /\ status[c] = "running"
    /\ status' = [status EXCEPT ![c] = how]
    /\ toCall' = [toCall EXCEPT ![c] = (IF c \in registered THEN {"kv"} ELSE {})
                                       \cup (IF c \in EndWriters THEN {"user"} ELSE {})]

Commit(c) ==
    /\ pc[<<c, "call">>] = "idle"
    /\ StartEnd(c, "commit")
    /\ UNCHANGED <<transactionMapLock, transactions, registered, failed, outcome, callVars, dbVars,
                   closeVars, wrote>>

Rollback(c) ==
    /\ pc[<<c, "call">>] # "idle" => TimeoutInCall
    /\ StartEnd(c, "rollback")
    /\ UNCHANGED <<transactionMapLock, transactions, registered, failed, outcome, callVars, dbVars,
                   closeVars, wrote>>

\* makeTxEndcallbackFn: the entry is removed under transactionMapLock, ...
EndCallback(c) ==
    /\ "kv" \in toCall[c] /\ pc[<<c, "end">>] = "idle" /\ transactionMapLock = None
    /\ toCall' = [toCall EXCEPT ![c] = @ \ {"kv"}]
    /\ transactions' = transactions \ {c}
    /\ Goto(<<c, "end">>, "finish")
    /\ UNCHANGED <<transactionMapLock, registered, status, failed, outcome, op, key, dbVars,
                   closeVars, wrote>>

\* Mutant: the bbolt transaction is rolled back on success.
FinishRollsBack(c) ==
    /\ pc[<<c, "end">>] = "finish"
    /\ writer' = IF writer = c THEN None ELSE writer
    /\ Goto(<<c, "end">>, "idle")
    /\ UNCHANGED <<transactionMapLock, transactions, registered, status, toCall, failed, outcome, op,
                   key, data, work, closeVars, wrote>>

\* Mutant: the bbolt transaction stays open after a rollback.
FinishKeepsOpen(c) ==
    /\ pc[<<c, "end">>] = "finish"
    /\ data' = IF writer = c /\ status[c] = "commit" THEN work ELSE data
    /\ writer' = IF writer = c /\ status[c] = "commit" THEN None ELSE writer
    /\ Goto(<<c, "end">>, "idle")
    /\ UNCHANGED <<transactionMapLock, transactions, registered, status, toCall, failed, outcome, op,
                   key, work, closeVars, wrote>>

\* ... then the bbolt transaction is finished. It panics if Close has rolled it back.
Finish(c) ==
    /\ pc[<<c, "end">>] = "finish"
    /\ IF writer = c
       THEN /\ data' = IF status[c] = "commit" THEN work ELSE data
            /\ wrote' = Overwrite(c, data, data')
            /\ writer' = None
            /\ UNCHANGED failed
       ELSE failed' = failed \cup {c} /\ UNCHANGED <<data, wrote, writer>>
    /\ Goto(<<c, "end">>, "idle")
    /\ UNCHANGED <<transactionMapLock, transactions, registered, status, toCall, outcome, op, key,
                   work, closeVars>>

\* The other end callback writes to the store, before or after the store's own.
\* It panics if the store is closed.
EndWrite(c) ==
    /\ "user" \in toCall[c]
    /\ toCall' = [toCall EXCEPT ![c] = @ \ {"user"}]
    /\ \/ /\ \E k \in Keys : Enter(<<c, "end">>, "set", k)
          /\ UNCHANGED failed
       \/ /\ closed /\ pc[<<c, "end">>] = "idle"
          /\ failed' = failed \cup {c}
          /\ UNCHANGED callVars
    /\ UNCHANGED <<transactionMapLock, transactions, registered, status, outcome, dbVars, closeVars,
                   wrote>>

EndReturns(c) ==
    /\ Ending(c) /\ toCall[c] = {} /\ pc[<<c, "end">>] = "idle"
    /\ status' = [status EXCEPT ![c] = "ended"]
    /\ outcome' = [outcome EXCEPT ![c] = IF c \in failed THEN "error" ELSE status[c]]
    /\ UNCHANGED <<transactionMapLock, transactions, registered, toCall, failed, callVars, dbVars,
                   closeVars, wrote>>

-----------------------------------------------------------------------------
(* Close                                                                   *)

Close ==
    /\ WithClose /\ closing = "no" /\ transactionMapLock = None
    /\ closing' = "next"
    /\ toClose' = transactions
    /\ UNCHANGED <<transactionMapLock, transactions, registered, txVars, callVars, dbVars, closed,
                   closeTx, wrote>>

\* tx.Rollback, which returns at once if the transaction is finishing or finished.
CloseRollback(c) ==
    /\ closing = "next" /\ c \in toClose
    /\ \/ StartEnd(c, "rollback") /\ closing' = "rollback"
       \/ status[c] # "running" /\ closing' = "bolt" /\ UNCHANGED <<status, toCall>>
    /\ closeTx' = c
    /\ toClose' = toClose \ {c}
    /\ UNCHANGED <<transactionMapLock, transactions, registered, failed, outcome, callVars, dbVars,
                   closed, wrote>>

\* bboltTx.Rollback, ignored if the bbolt transaction is finished.
CloseBolt(c) ==
    /\ closeTx = c
    /\ closing = "bolt" \/ (closing = "rollback" /\ status[c] = "ended")
    /\ writer' = IF writer = c THEN None ELSE writer
    /\ closing' = "next"
    /\ closeTx' = None
    /\ UNCHANGED <<transactionMapLock, transactions, registered, txVars, callVars, data, work, closed,
                   toClose, wrote>>

\* kv.db.Close waits for the open write transaction.
CloseDb ==
    /\ closing = "next" /\ toClose = {} /\ writer = None
    /\ closed' = TRUE
    /\ closing' = "done"
    /\ UNCHANGED <<transactionMapLock, transactions, registered, txVars, callVars, dbVars, closeTx,
                   toClose, wrote>>

-----------------------------------------------------------------------------
Step(p) == GetCreate(p) \/ Begin(p) \/ BeginClosed(p) \/ OnEnd(p) \/ InTx(p) \/ Direct(p)
EndStep(c) == EndCallback(c) \/ Finish(c) \/ EndWrite(c) \/ EndReturns(c)
CloseStep == (\E c \in Ctxs : CloseRollback(c) \/ CloseBolt(c)) \/ CloseDb

Next ==
    \/ \E c \in Ctxs : Call(c) \/ Commit(c) \/ Rollback(c) \/ EndStep(c)
    \/ \E p \in Procs : Step(p)
    \/ Close \/ CloseStep

Spec == Init /\ [][Next]_vars

\* Go mutexes are starvation-free and a transaction is rolled back when it times out.
FairSpec ==
    /\ Spec
    /\ \A p \in Procs : SF_vars(Step(p))
    /\ \A c \in TxCtxs : SF_vars(EndStep(c)) /\ SF_vars(Rollback(c))
    /\ SF_vars(CloseStep)

-----------------------------------------------------------------------------
TypeOK ==
    /\ transactionMapLock \in Procs \cup {None}
    /\ \A p \in Procs : pc[p] \in {"begin", "onEnd"} <=> transactionMapLock = p
    /\ transactions \subseteq TxCtxs /\ registered \subseteq TxCtxs /\ failed \subseteq TxCtxs
    /\ status \in [Ctxs -> {"running", "commit", "rollback", "ended"}]
    /\ toCall \in [Ctxs -> SUBSET {"kv", "user"}]
    /\ pc \in [Procs -> {"idle", "getCreate", "begin", "onEnd", "inTx", "direct", "finish"}]
    /\ op \in [Procs -> Ops \cup {None}]
    /\ key \in [Procs -> Keys \cup {None}]
    /\ data \in Contents /\ work \in Contents
    /\ writer \in TxCtxs \cup {None}
    /\ closed \in BOOLEAN
    /\ closing \in {"no", "next", "rollback", "bolt", "done"} /\ closeTx \in TxCtxs \cup {None}
    /\ toClose \subseteq TxCtxs
    /\ outcome \in [Ctxs -> {None, "commit", "rollback", "error"}]
    /\ wrote \in [Ctxs -> SUBSET Keys]

\* The bbolt transaction of a finished transaction is finished too, and has no entry:
\* nothing is left that would make every later write wait forever
\* (getCreateDatabaseTxn, makeTxEndcallbackFn).
EndedReleases == \A c \in Ctxs : status[c] = "ended" => writer # c /\ c \notin transactions

\* What is written with the bbolt transaction of a transaction is not in the database before
\* the transaction commits, and never is if it is rolled back (makeTxEndcallbackFn).
UncommittedIsNotStored ==
    \A c \in Ctxs, k \in Keys :
        data[k] = <<c, "tx">> => status[c] = "commit" \/ outcome[c] \in {"commit", "error"}

\* Once Commit has returned without error, the writes of the transaction are in the database
\* unless somebody wrote the key since; those of an end callback are too, whether it ran
\* before or after the store's own (getCreateDatabaseTxn, makeTxEndcallbackFn).
CommittedIsStored ==
    \A c \in TxCtxs :
        outcome[c] = "commit" => \A k \in wrote[c] : data[k] \in {c} \X {"tx", "direct"}

\* The writes of a transaction are all in the database if it commits, and none is otherwise.
AllOrNothing == UncommittedIsNotStored /\ CommittedIsStored

\* A call of the store returns, if transactions end (getCreateDatabaseTxn, makeTxEndcallbackFn).
CallReturns == \A p \in Procs : pc[p] # "idle" ~> pc[p] = "idle"

\* A call made by an end callback returns: it "should not cause a deadlock"
\* (kv_test.go:120, kv_test.go:150).
EndCallReturns == \A c \in Ctxs : pc[<<c, "end">>] # "idle" ~> pc[<<c, "end">>] = "idle"
=============================================================================
