------------------------------ MODULE Watchers ------------------------------
(***************************************************************************)
(* Watching a shared object (internal/core/watcher.go, watcher_list.go,    *)
(* mutation.go, object.go): a mutation is sent to the generic watchers of  *)
(* the object with its lock held, then the mutation callbacks are called   *)
(* with their own lock held and the object's released.                     *)
(*                                                                         *)
(* Users are goroutines of different modules, so the smart lock of the     *)
(* object excludes them (SmartLock); its takeover after a timeout is left  *)
(* out.  The depth and the filter of a watcher are one set of kinds of     *)
(* values.  A slot of the callbacks is the handle of the callback whose    *)
(* function it holds, 0 if the function is nil.                            *)
(***************************************************************************)
EXTENDS Naturals, Sequences, FiniteSets, SequencesExt

CONSTANTS
    Users,
    Ws,           \* watchers
    Filter,       \* [Ws -> SUBSET Kinds]
    Capacity,     \* of the channel of a watcher: 10
    ArrayLen,     \* length of the arrays of mutationCallbackPool: 10
    TasksLock,    \* whether the microtasks lock the object
    MaxValues,    \* bound: mutations and messages
    MaxHandles,   \* bound: callbacks registered
    MaxLive,      \* bound: callbacks registered at the same time
    None

Kinds == {"mutation", "message"}

ASSUME WatchersAssumption ==
    /\ Filter \in [Ws -> SUBSET Kinds]
    /\ Capacity \in Nat \ {0}
    /\ ArrayLen \in Nat \ {0}
    /\ TasksLock \in BOOLEAN
    /\ None \notin Users

VARIABLES
    lock,         \* the object's lock: a user or None
    watchers,     \* ValueWatchers.watchers
    nextIndex,    \* ValueWatchers.nextIndex
    stopped,      \* Ws: the atomic flag
    open,         \* Ws: the channel is not closed
    values,       \* Ws: the channel
    wait,         \* Ws: where the goroutine that calls WaitNext is
    cbLock,       \* MutationCallbacks.lock
    callbacks,    \* MutationCallbacks.callbacks; <<>>: not initialized
    cbNextIndex, nextHandle, ownedSlice,
    user,         \* Users: the call: pc; n: the value's number; i: loop index or handle;
                  \* due (history): the handles that were live at the mutation
    log,          \* history: the kinds of the values, in the order of the lock
    aborted,      \* history: the numbers of the values whose sender panicked
    since,        \* history, Ws: number of values that precede the watcher
    got,          \* history, Ws: the values received
    live,         \* history: handles returned, not removed, not ended by their function
    called        \* history: [1..MaxHandles -> Seq(1..MaxValues)]

watcherVars == <<watchers, nextIndex, stopped, open, values, wait, since, got>>
callbackVars == <<cbLock, callbacks, cbNextIndex, nextHandle, ownedSlice, live, called>>
vars == <<lock, watcherVars, callbackVars, user, log, aborted>>

Idle == [pc |-> "idle", n |-> 0, i |-> 0, due |-> {}]

Init ==
    /\ lock = None
    /\ watchers = <<>>
    /\ nextIndex = 0
    /\ stopped = [w \in Ws |-> FALSE]
    /\ open = [w \in Ws |-> TRUE]
    /\ values = [w \in Ws |-> <<>>]
    /\ wait = [w \in Ws |-> "idle"]
    /\ cbLock = None
    /\ callbacks = <<>>
    /\ cbNextIndex = 0
    /\ nextHandle = 1
    /\ ownedSlice = FALSE
    /\ user = [u \in Users |-> Idle]
    /\ log = <<>>
    /\ aborted = {}
    /\ since = [w \in Ws |-> 0]
    /\ got = [w \in Ws |-> <<>>]
    /\ live = {}
    /\ called = [h \in 1..MaxHandles |-> <<>>]

At(u, pc) == user[u].pc = pc
Goto(u, pc, i) == user' = [user EXCEPT ![u].pc = pc, ![u].i = i]
Return(u) == user' = [user EXCEPT ![u] = Idle]

-----------------------------------------------------------------------------
\* Mutant: the object is not locked.
EmitUnlocked(u, kind) ==
    /\ At(u, "idle")
    /\ Len(log) < MaxValues
    /\ log' = Append(log, kind)
    /\ user' = [user EXCEPT ![u] = [pc |-> "inform", n |-> Len(log) + 1, i |-> 1, due |-> live]]
    /\ UNCHANGED <<lock, watcherVars, callbackVars, aborted>>

\* A property is changed or a message is handled, with the object's lock, which is kept ...
Emit(u, kind) ==
    /\ At(u, "idle")
    /\ lock = None
    /\ Len(log) < MaxValues
    /\ lock' = u
    /\ log' = Append(log, kind)
    /\ user' = [user EXCEPT ![u] = [pc |-> "inform", n |-> Len(log) + 1, i |-> 1, due |-> live]]
    /\ UNCHANGED <<watcherVars, callbackVars, aborted>>

\* The calls that fail (a constraint, a permission, a handler) change nothing here.
SetProp(u) == Emit(u, "mutation")

ReceiveMessage(u) == Emit(u, "message")

\* ... to inform the watchers: the stopped ones and those with another filter are passed.
Inform(u) ==
    LET i == user[u].i
        w == watchers[i]
    IN
    /\ At(u, "inform")
    /\ i <= Len(watchers)
    /\ IF stopped[w] \/ log[user[u].n] \notin Filter[w]
       THEN Goto(u, "inform", i + 1)
       ELSE Goto(u, "send", i)
    /\ UNCHANGED <<lock, watcherVars, callbackVars, log, aborted>>

\* w.values <- v, which blocks while the channel is full ...
Send(u) ==
    LET w == watchers[user[u].i] IN
    /\ At(u, "send")
    /\ open[w]
    /\ Len(values[w]) < Capacity
    /\ values' = [values EXCEPT ![w] = Append(@, user[u].n)]
    /\ Goto(u, "inform", user[u].i + 1)
    /\ UNCHANGED <<lock, watchers, nextIndex, stopped, open, wait, since, got, callbackVars, log,
                   aborted>>

\* ... and panics once it is closed; the deferred function unlocks the object.
SendPanics(u) ==
    /\ At(u, "send")
    /\ ~open[watchers[user[u].i]]
    /\ aborted' = aborted \cup {user[u].n}
    /\ lock' = None
    /\ Return(u)
    /\ UNCHANGED <<watcherVars, callbackVars, log>>

\* The lock is released before the callbacks are called; a message calls none.
Informed(u) ==
    /\ At(u, "inform")
    /\ user[u].i > Len(watchers)
    /\ lock' = None
    /\ IF log[user[u].n] = "mutation" /\ callbacks # <<>>
       THEN Goto(u, "callbacks", 0)
       ELSE Return(u)
    /\ UNCHANGED <<watcherVars, callbackVars, log, aborted>>

-----------------------------------------------------------------------------
\* MutationCallbacks.updateNextIndex: the first free slot, or the end.
FirstFree(slots) ==
    LET free == {i \in 1..Len(slots) : slots[i] = 0}
    IN  IF free = {} THEN Len(slots) ELSE Min(free) - 1

CallMicrotasks(u) ==
    /\ At(u, "callbacks")
    /\ cbLock = None
    /\ cbLock' = u
    /\ Goto(u, "calling", 1)
    /\ UNCHANGED <<lock, watcherVars, callbacks, cbNextIndex, nextHandle, ownedSlice, live, called,
                   log, aborted>>

\* A callback that returns false, or panics, is dropped.
Microtask(u, again) ==
    LET i == user[u].i
        h == callbacks[i]
    IN
    /\ At(u, "calling")
    /\ i <= Len(callbacks) /\ h # 0
    /\ TasksLock => lock = None
    /\ called' = [called EXCEPT ![h] = Append(@, user[u].n)]
    /\ callbacks' = IF again THEN callbacks ELSE [callbacks EXCEPT ![i] = 0]
    /\ live' = IF again THEN live ELSE live \ {h}
    /\ Goto(u, "calling", i + 1)
    /\ UNCHANGED <<lock, watcherVars, cbLock, cbNextIndex, nextHandle, ownedSlice, log, aborted>>

SkipSlot(u) ==
    LET i == user[u].i IN
    /\ At(u, "calling")
    /\ i <= Len(callbacks) /\ callbacks[i] = 0
    /\ Goto(u, "calling", i + 1)
    /\ UNCHANGED <<lock, watcherVars, callbackVars, log, aborted>>


MicrotasksCalled(u) ==
    /\ At(u, "calling")
    /\ user[u].i > Len(callbacks)
    /\ cbLock' = None
    /\ cbNextIndex' = FirstFree(callbacks)
    /\ Return(u)
    /\ UNCHANGED <<lock, watcherVars, callbacks, nextHandle, ownedSlice, live, called, log, aborted>>

-----------------------------------------------------------------------------
\* OnMutation and the removals take the object's lock, then the callbacks'.
LockToRegister(u, pc, h) ==
    /\ At(u, "idle")
    /\ lock = None
    /\ lock' = u
    /\ Goto(u, pc, h)
    /\ UNCHANGED <<watcherVars, callbackVars, log, aborted>>

OnMutation(u) ==
    /\ nextHandle <= MaxHandles
    /\ Cardinality(live) < MaxLive
    /\ LockToRegister(u, "add", 0)

RemoveMutationCallback(u, h) == h < nextHandle /\ LockToRegister(u, "remove", h)

RemoveMutationCallbackMicrotasks(u) == callbacks # <<>> /\ LockToRegister(u, "removeAll", 0)

\* The slots after the callback is stored.  An array of the pool that is full is replaced by a
\* longer one, without the callback.
Stored(h) ==
    LET slots == IF callbacks = <<>> THEN [i \in 1..ArrayLen |-> 0] ELSE callbacks IN
    CASE cbNextIndex < Len(slots) -> [slots EXCEPT ![cbNextIndex + 1] = h]
      [] cbNextIndex >= Len(slots) /\ ownedSlice -> Append(slots, h)
      [] OTHER -> Append(slots, 0)


AddMicrotask(u) ==
    /\ At(u, "add")
    /\ cbLock = None
    /\ callbacks' = Stored(nextHandle)
    /\ ownedSlice' = (ownedSlice \/ (callbacks # <<>> /\ cbNextIndex >= Len(callbacks)))
    /\ cbNextIndex' = FirstFree(callbacks')
    /\ nextHandle' = nextHandle + 1
    /\ live' = live \cup {nextHandle}
    /\ lock' = None
    /\ Return(u)
    /\ UNCHANGED <<watcherVars, cbLock, called, log, aborted>>

\* RemoveMicrotask and RemoveMicrotasks
EmptySlots(u, handles) ==
    /\ cbLock = None
    /\ callbacks' = [i \in 1..Len(callbacks) |-> IF callbacks[i] \in handles THEN 0 ELSE callbacks[i]]
    /\ cbNextIndex' = FirstFree(callbacks')
    /\ live' = live \ handles
    /\ lock' = None
    /\ Return(u)
    /\ UNCHANGED <<watcherVars, cbLock, nextHandle, ownedSlice, called, log, aborted>>

RemoveMicrotask(u) == At(u, "remove") /\ EmptySlots(u, {user[u].i})

RemoveMicrotasks(u) == At(u, "removeAll") /\ EmptySlots(u, 1..MaxHandles)

-----------------------------------------------------------------------------
\* Watcher: ValueWatchers.Add, under the object's lock.  nextIndex is looked for again only when
\* a slot was reused.
Watcher(u, w) ==
    LET reuse == nextIndex < Len(watchers)
        list == IF reuse THEN [watchers EXCEPT ![nextIndex + 1] = w] ELSE Append(watchers, w)
        free == {i \in 1..Len(list) : stopped[list[i]]}
    IN
    /\ At(u, "idle")
    /\ lock = None
    /\ w \notin ToSet(watchers)
    /\ watchers' = list
    /\ nextIndex' = CASE ~reuse -> nextIndex + 1
                       [] reuse /\ free = {} -> Len(list)
                       [] OTHER -> Min(free) - 1
    /\ since' = [since EXCEPT ![w] = Len(log)]
    /\ UNCHANGED <<lock, stopped, open, values, wait, got, callbackVars, user, log, aborted>>

\* Stop, by any goroutine that has the watcher: the flag ...
Stop(w) ==
    /\ w \in ToSet(watchers)
    /\ ~stopped[w]
    /\ stopped' = [stopped EXCEPT ![w] = TRUE]
    /\ UNCHANGED <<lock, watchers, nextIndex, open, values, wait, since, got, callbackVars, user, log,
                   aborted>>

\* ... then the channel.
CloseValues(w) ==
    /\ stopped[w] /\ open[w]
    /\ open' = [open EXCEPT ![w] = FALSE]
    /\ wait' = [wait EXCEPT ![w] = IF @ = "stopping" THEN "idle" ELSE @]
    /\ UNCHANGED <<lock, watchers, nextIndex, stopped, values, since, got, callbackVars, user, log,
                   aborted>>

\* WaitNext, by one goroutine; it returns at once if the watcher is stopped.
WaitNext(w) ==
    /\ w \in ToSet(watchers)
    /\ wait[w] = "idle"
    /\ ~stopped[w]
    /\ wait' = [wait EXCEPT ![w] = "wait"]
    /\ UNCHANGED <<lock, watchers, nextIndex, stopped, open, values, since, got, callbackVars, user,
                   log, aborted>>

\* A value is received; one that the additional filter refuses is dropped and the wait goes on.
Receive(w, refused) ==
    /\ wait[w] = "wait"
    /\ values[w] # <<>>
    /\ values' = [values EXCEPT ![w] = Tail(@)]
    /\ got' = [got EXCEPT ![w] = Append(@, Head(values[w]))]
    /\ wait' = [wait EXCEPT ![w] = IF refused THEN @ ELSE "idle"]
    /\ UNCHANGED <<lock, watchers, nextIndex, stopped, open, since, callbackVars, user, log, aborted>>

\* The timeout elapses, or the channel is closed and empty ...
WaitEnds(w) ==
    /\ wait[w] = "wait"
    /\ wait' = [wait EXCEPT ![w] = "idle"]
    /\ UNCHANGED <<lock, watchers, nextIndex, stopped, open, values, since, got, callbackVars, user,
                   log, aborted>>

\* ... or the context of the goroutine is done, and the watcher is stopped.
WaitCancelled(w) ==
    /\ wait[w] = "wait"
    /\ ~stopped[w]
    /\ stopped' = [stopped EXCEPT ![w] = TRUE]
    /\ wait' = [wait EXCEPT ![w] = "stopping"]
    /\ UNCHANGED <<lock, watchers, nextIndex, open, values, since, got, callbackVars, user, log,
                   aborted>>

-----------------------------------------------------------------------------
\* The rest of a call once it has begun
UserStep(u) ==
    \/ Inform(u) \/ Send(u) \/ SendPanics(u) \/ Informed(u)
    \/ CallMicrotasks(u) \/ SkipSlot(u) \/ MicrotasksCalled(u)
    \/ \E again \in BOOLEAN : Microtask(u, again)
    \/ AddMicrotask(u) \/ RemoveMicrotask(u) \/ RemoveMicrotasks(u)

Call(u) ==
    \/ SetProp(u) \/ ReceiveMessage(u)
    \/ OnMutation(u)
    \/ \E h \in 1..MaxHandles : RemoveMutationCallback(u, h)
    \/ RemoveMutationCallbackMicrotasks(u)
    \/ \E w \in Ws : Watcher(u, w)

WaitStep(w) ==
    \/ \E refused \in BOOLEAN : Receive(w, refused)
    \/ WaitEnds(w)

Next ==
    \/ \E u \in Users : UserStep(u) \/ Call(u)
    \/ \E w \in Ws : WaitNext(w) \/ WaitStep(w) \/ WaitCancelled(w) \/ Stop(w) \/ CloseValues(w)

Spec == Init /\ [][Next]_vars

\* Goroutines inside a call go on; nobody is forced to call WaitNext or Stop.
FairSpec ==
    /\ Spec
    /\ \A u \in Users : WF_vars(UserStep(u))
    /\ \A w \in Ws : WF_vars(WaitStep(w)) /\ WF_vars(CloseValues(w))

-----------------------------------------------------------------------------
Position(w) == CHOOSE i \in 1..Len(watchers) : watchers[i] = w

\* The value n is still to be sent to w by the call that emitted it.
ToBeSent(n, w) ==
    \E u \in Users : user[u].pc \in {"inform", "send"} /\ user[u].n = n /\ user[u].i <= Position(w)

\* A watcher that is not stopped gets every mutation and message it is interested in, once, in
\* the order in which the object changed, from the moment it is created; only those whose sender
\* panicked on another watcher may be missing.
InformedOfAll ==
    \A w \in ToSet(watchers) : ~stopped[w] =>
        LET Sent(n) == /\ n > since[w]
                       /\ log[n] \in Filter[w]
                       /\ ~ToBeSent(n, w)
            Seen == got[w] \o values[w]
            Numbers == [n \in 1..Len(log) |-> n]
            NotSeenAborted(n) == Sent(n) /\ (n \in aborted => n \in ToSet(Seen))
        IN  Seen = SelectSeq(Numbers, NotSeenAborted)

Occurrences(n, s) == Cardinality({i \in 1..Len(s) : s[i] = n})


BlockedSender(u) ==
    /\ At(u, "send")
    /\ LET w == watchers[user[u].i] IN open[w] /\ Len(values[w]) = Capacity


\* watcher.go: InformAboutAsync "should inform asynchronously the user of the watcher".
MutationReturnsAlways == \A u \in Users : ~At(u, "idle") ~> At(u, "idle")

\* watcher.go: "InformAboutAsync should be thread safe": no send on a closed channel.
SenderNeverPanics == aborted = {}

\* watcher.go: the mutations passed to a microtask "should be same as the one returned by the
\* watcher": they come in the same order.
CallbacksInOrder ==
    \A h \in 1..MaxHandles : \A i, j \in 1..Len(called[h]) : i < j => called[h][i] < called[h][j]
=============================================================================
