------------------------------ MODULE RpcSession ------------------------------
(***************************************************************************)
(* A JSON-RPC session over a WebSocket                                     *)
(* (internal/projectserver/jsonrpc/session.go): the goroutine that reads   *)
(* requests, limits their rate and starts a goroutine for each; the        *)
(* executors by which $/cancelRequest finds them; and Close, which the end *)
(* of the reader and the handlers of `shutdown` and `exit` call.           *)
(*                                                                         *)
(* A request refused because the session shuts down, or because of its     *)
(* rate, changes nothing but the limiter.                                  *)
(***************************************************************************)
EXTENDS RateLimiter

CONSTANTS
    Ids,       \* ids that the client gives to its requests
    ReuseIds,  \* the client uses an id again once it has the response
    Closers    \* goroutines that call Close

VARIABLES
    pending,       \* the id of the accepted request that is not yet registered, or None
    jobs,          \* the requests accepted so far: [id, pc, cancelled]
    executors,     \* [Ids -> the number of a job, or 0]
    cancelling,    \* the job that a call of cancelJob has found, or 0
    closer,        \* Closers: where the call of Close is
    closed, shuttingDown, connClosed, ctxDone,
    inServer,      \* the session is in server.session
    callbackSet,   \* [shutdown, closed]: the field is not nil
    callbackCalls  \* history, [shutdown, closed]: number of calls

execVars == <<pending, jobs, executors, cancelling>>
closeVars == <<closer, closed, shuttingDown, connClosed, ctxDone, inServer, callbackSet, callbackCalls>>
vars == <<limiterVars, execVars, closeVars>>

None == "none"

Init ==
    /\ LimiterInit
    /\ pending = None
    /\ jobs = <<>>
    /\ executors = [id \in Ids |-> 0]
    /\ cancelling = 0
    /\ closer = [k \in Closers |-> "idle"]
    /\ closed = FALSE /\ shuttingDown = FALSE /\ connClosed = FALSE /\ ctxDone = FALSE
    /\ inServer = TRUE
    /\ callbackSet = [shutdown |-> TRUE, closed |-> TRUE]
    /\ callbackCalls = [shutdown |-> 0, closed |-> 0]

-----------------------------------------------------------------------------
\* external: the ids a client may send
CanSend(id) ==
    \A j \in DOMAIN jobs : jobs[j].id = id => ReuseIds /\ jobs[j].pc \in {"remove", "gone"}

\* handle, handlerRequest: the rate is limited unless the session is shutting down.  A request
\* whose parameters cannot be parsed is answered at once; the others are executed.
handlerRequest(m, id) ==
    /\ pending = None
    /\ ~connClosed /\ ~shuttingDown
    /\ CanSend(id)
    /\ limit(m)
    /\ \/ /\ Passed(Last(calls'))
          /\ pending' = id
          /\ UNCHANGED jobs
       \/ /\ Passed(Last(calls'))
          /\ jobs' = Append(jobs, [id |-> id, pc |-> "gone", cancelled |-> FALSE])
          /\ UNCHANGED pending
       \/ /\ ~Passed(Last(calls'))
          /\ UNCHANGED <<pending, jobs>>
    /\ UNCHANGED <<executors, cancelling, closeVars>>

\* A notification has no id and no executor: its handler can only be cancelled with the context.
Notification(m) ==
    /\ pending = None
    /\ ~connClosed /\ ~shuttingDown
    /\ limit(m)
    /\ UNCHANGED <<execVars, closeVars>>

\* execute: the executor is registered before the goroutine is started.
execute ==
    /\ pending # None
    /\ jobs' = Append(jobs, [id |-> pending, pc |-> "handler", cancelled |-> FALSE])
    /\ executors' = [executors EXCEPT ![pending] = Len(jobs) + 1]
    /\ pending' = None
    /\ UNCHANGED <<cancelling, limiterVars, closeVars>>

\* The handler returns.  There is no response if the context of the request is done.
HandlerReturns(j) ==
    /\ jobs[j].pc = "handler"
    /\ jobs' = [jobs EXCEPT ![j].pc = IF jobs[j].cancelled \/ ctxDone THEN "remove" ELSE "respond"]
    /\ UNCHANGED <<pending, executors, cancelling, limiterVars, closeVars>>

Respond(j) ==
    /\ jobs[j].pc = "respond"
    /\ jobs' = [jobs EXCEPT ![j].pc = "remove"]
    /\ UNCHANGED <<pending, executors, cancelling, limiterVars, closeVars>>

\* The deferred removeExecutor, by id
removeExecutor(j) ==
    /\ jobs[j].pc = "remove"
    /\ jobs' = [jobs EXCEPT ![j].pc = "gone"]
    /\ executors' = [executors EXCEPT ![jobs[j].id] = 0]
    /\ UNCHANGED <<pending, cancelling, limiterVars, closeVars>>

\* cancelJob, in the goroutine of a $/cancelRequest: the executor is looked up under the lock ...
getExecutor(id) ==
    /\ cancelling = 0 /\ ~connClosed
    /\ executors[id] # 0
    /\ cancelling' = executors[id]
    /\ UNCHANGED <<pending, jobs, executors, limiterVars, closeVars>>

\* Mutant: the executor removed is the one that was registered last.
CancelWrong ==
    /\ cancelling # 0
    /\ jobs' = [jobs EXCEPT ![cancelling].cancelled = TRUE]
    /\ executors' = [executors EXCEPT ![Last(jobs).id] = 0]
    /\ cancelling' = 0
    /\ UNCHANGED <<pending, limiterVars, closeVars>>

\* ... then cancelled, and removed by its id.
cancelJob ==
    /\ cancelling # 0
    /\ jobs' = [jobs EXCEPT ![cancelling].cancelled = TRUE]
    /\ executors' = [executors EXCEPT ![jobs[cancelling].id] = 0]
    /\ cancelling' = 0
    /\ UNCHANGED <<pending, limiterVars, closeVars>>

-----------------------------------------------------------------------------
\* Close by the goroutine k, one step for each operation that another goroutine can see.
At(k, pc) == closer[k] = pc
To(k, pc) == closer' = [closer EXCEPT ![k] = pc]
closeRest == <<limiterVars, execVars>>

Close(k) ==
    /\ At(k, "idle")
    /\ To(k, IF closed THEN "done" ELSE "swap")
    /\ UNCHANGED <<closeRest, closed, shuttingDown, connClosed, ctxDone, inServer, callbackSet, callbackCalls>>

\* Mutant: the flag is not tested when it is set.
SwapAlways(k) ==
    /\ At(k, "swap")
    /\ To(k, "shutdown")
    /\ shuttingDown' = TRUE
    /\ UNCHANGED <<closeRest, closed, connClosed, ctxDone, inServer, callbackSet, callbackCalls>>

\* shuttingDown.CompareAndSwap; a call that comes second goes to the deferred stores.
SwapShuttingDown(k) ==
    /\ At(k, "swap")
    /\ To(k, IF shuttingDown THEN "last" ELSE "shutdown")
    /\ shuttingDown' = TRUE
    /\ UNCHANGED <<closeRest, closed, connClosed, ctxDone, inServer, callbackSet, callbackCalls>>

\* The shutdown callback is read, and reset in a second operation that starts its goroutine.
ReadShutdownCallback(k) ==
    /\ At(k, "shutdown")
    /\ To(k, IF callbackSet.shutdown THEN "reset" ELSE "closeConn")
    /\ UNCHANGED <<closeRest, closed, shuttingDown, connClosed, ctxDone, inServer, callbackSet, callbackCalls>>

CallShutdown(k) ==
    /\ At(k, "reset")
    /\ To(k, "closeConn")
    /\ callbackSet' = [callbackSet EXCEPT !.shutdown = FALSE]
    /\ callbackCalls' = [callbackCalls EXCEPT !.shutdown = @ + 1]
    /\ UNCHANGED <<closeRest, closed, shuttingDown, connClosed, ctxDone, inServer>>

CloseConn(k) ==
    /\ At(k, "closeConn")
    /\ To(k, IF callbackSet.closed THEN "cancelAllThenCall" ELSE "cancelAll")
    /\ callbackSet' = [callbackSet EXCEPT !.closed = FALSE]
    /\ connClosed' = TRUE
    /\ UNCHANGED <<closeRest, closed, shuttingDown, ctxDone, inServer, callbackCalls>>

\* Under executorLock; a request that is registered later is cancelled with the context.
CancelExecutors(k) ==
    /\ closer[k] \in {"cancelAll", "cancelAllThenCall"}
    /\ To(k, IF At(k, "cancelAll") THEN "cancel" ELSE "cancelThenCall")
    /\ jobs' = [j \in DOMAIN jobs |->
                  [jobs[j] EXCEPT !.cancelled = @ \/ executors[jobs[j].id] = j]]
    /\ UNCHANGED <<limiterVars, pending, executors, cancelling,
                   closed, shuttingDown, connClosed, ctxDone, inServer, callbackSet, callbackCalls>>

\* removeSession, then the deferred CancelGracefully of the context and the closed callback
RemoveSession(k) ==
    /\ closer[k] \in {"cancel", "cancelThenCall"}
    /\ To(k, "last")
    /\ inServer' = FALSE
    /\ ctxDone' = TRUE
    /\ callbackCalls' = IF At(k, "cancel") THEN callbackCalls
                        ELSE [callbackCalls EXCEPT !.closed = @ + 1]
    /\ UNCHANGED <<closeRest, closed, shuttingDown, connClosed, callbackSet>>

\* The deferred stores, also those of a call that came second
LastStores(k) ==
    /\ At(k, "last")
    /\ To(k, "done")
    /\ closed' = TRUE
    /\ shuttingDown' = FALSE
    /\ UNCHANGED <<closeRest, connClosed, ctxDone, inServer, callbackSet, callbackCalls>>

CloseStep(k) ==
    \/ SwapShuttingDown(k) \/ ReadShutdownCallback(k) \/ CallShutdown(k) \/ CloseConn(k)
    \/ CancelExecutors(k) \/ RemoveSession(k) \/ LastStores(k)

-----------------------------------------------------------------------------
Next ==
    \/ ~connClosed /\ Tick /\ UNCHANGED <<execVars, closeVars>>   \* the time of requests only
    \/ \E m \in Method : Notification(m) \/ \E id \in Ids : handlerRequest(m, id)
    \/ execute \/ cancelJob
    \/ \E id \in Ids : getExecutor(id)
    \/ \E j \in DOMAIN jobs : HandlerReturns(j) \/ Respond(j) \/ removeExecutor(j)
    \/ \E k \in Closers : Close(k) \/ CloseStep(k)

Spec == Init /\ [][Next]_vars

-----------------------------------------------------------------------------
\* A request whose handler runs and that nobody has cancelled is found by its id, so that
\* $/cancelRequest and Close reach it.
RunningIsRegistered ==
    \A j \in DOMAIN jobs :
        jobs[j].pc = "handler" /\ ~jobs[j].cancelled => executors[jobs[j].id] = j

\* When the last goroutine leaves Close, the connection is closed, the context cancelled, both
\* callbacks called once and the session forgotten by the server, although a Close that comes second
\* marks the session as closed and resets shuttingDown under the first.
CloseCompletes ==
    (\E k \in Closers : At(k, "done")) /\ (\A k \in Closers : closer[k] \in {"idle", "done"}) =>
        /\ closed /\ ~shuttingDown /\ connClosed /\ ctxDone /\ ~inServer
        /\ callbackCalls.shutdown = 1 /\ callbackCalls.closed = 1
==============================================================================
