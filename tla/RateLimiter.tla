----------------------------- MODULE RateLimiter -----------------------------
(***************************************************************************)
(* The request windows of internal/reqratelimit/rate_limiting.go, and the  *)
(* rate limiter that a JSON-RPC session makes of them                      *)
(* (internal/projectserver/jsonrpc/rate_limiter.go).  `limit` reads the    *)
(* clock under its lock, so the calls are steps and their times never      *)
(* decrease.  Request ids are not empty.  A window of the limiter has no   *)
(* IP-level window behind it.                                              *)
(***************************************************************************)
EXTENDS Integers, Sequences, FiniteSets, SequencesExt

CONSTANTS
    Method,         \* the methods, $/cancelRequest and exit excluded
    RateLimits,     \* [Method -> Seq(Nat)]: MethodInfo.RateLimits
    DefaultLimits,  \* DEFAULT_METHOD_RATE_LIMITS
    MessageLimits,  \* DEFAULT_MESSAGE_RATE_LIMITS
    Second,         \* the shortest window, in ticks of the clock
    Scale,          \* each window is this much longer than the one before: 10
    MaxTime,        \* bound: ticks of a behaviour
    MaxCalls        \* bound: calls of limit

VARIABLES
    now,
    messageWindows,   \* one window per element of MessageLimits
    methodToLimiter,  \* the methods invoked so far, and their windows
    calls             \* history of limit: [time, method, verdict]

limiterVars == <<now, messageWindows, methodToLimiter, calls>>

Empty == 0   \* a slot without a request; times start at 1

NewWindow(count) == [i \in 1..count |-> Empty]

Duration(i) == Second * Scale^(i - 1)


\* Window.AllowRequest: the first empty slot, else the first of the oldest requests
\* among those older than the window; with none the request is recorded in place of
\* the first request older than the one in the first slot, and is refused.
AllowRequest(requests, duration, time) ==
    LET First(S) == CHOOSE i \in S : \A j \in S : i <= j
        empty == {i \in DOMAIN requests : requests[i] = Empty}
        candidates == {i \in DOMAIN requests : time - requests[i] > duration}
        oldest == {i \in candidates : \A j \in candidates : requests[i] <= requests[j]}
        older == {i \in DOMAIN requests : requests[i] < requests[1]}
        slot == CASE empty # {} -> First(empty)
                  [] empty = {} /\ candidates # {} -> First(oldest)
                  [] OTHER -> IF older # {} THEN First(older) ELSE 1
    IN [ok |-> empty # {} \/ candidates # {}, requests |-> [requests EXCEPT ![slot] = time]]

\* Informs every window of a list; a limit of 0 has no window.
Inform(windows) ==
    [i \in DOMAIN windows |->
        IF windows[i] = <<>> THEN [ok |-> TRUE, requests |-> <<>>]
        ELSE AllowRequest(windows[i], Duration(i), now)]

AllOK(answers) == \A i \in DOMAIN answers : answers[i].ok

Requests(answers) == [i \in DOMAIN answers |-> answers[i].requests]

\* The limits of a method, the default ones when it states none.
Limits(m) == IF RateLimits[m] = <<>> THEN DefaultLimits ELSE RateLimits[m]


MethodWindows(m) ==
    IF methodToLimiter[m] # <<>> THEN methodToLimiter[m]
    ELSE [i \in DOMAIN Limits(m) |-> NewWindow(Limits(m)[i])]

LimiterInit ==
    /\ now = 1
    /\ messageWindows = [i \in DOMAIN MessageLimits |-> NewWindow(MessageLimits[i])]
    /\ methodToLimiter = <<>>
    /\ calls = <<>>

Record(m, verdict) ==
    calls' = Append(calls, [time |-> now, method |-> m, verdict |-> verdict])

\* rateLimiter.limit for a method other than $/cancelRequest, which is let through
\* before anything is recorded.
limit(m) ==
    LET messages == Inform(messageWindows) IN
    /\ Len(calls) < MaxCalls
    /\ messageWindows' = Requests(messages)
    /\ \/ /\ ~AllOK(messages)
          /\ Record(m, "limited")
          /\ UNCHANGED methodToLimiter
       \/ /\ AllOK(messages)
          /\ m \notin DOMAIN methodToLimiter
          /\ Record(m, "first")
          /\ methodToLimiter' = [x \in DOMAIN methodToLimiter \cup {m} |->
                                    IF x = m THEN <<>> ELSE methodToLimiter[x]]
       \/ /\ AllOK(messages)
          /\ m \in DOMAIN methodToLimiter
          /\ LET answers == Inform(MethodWindows(m)) IN
             /\ Record(m, IF AllOK(answers) THEN "ok" ELSE "methodLimited")
             /\ methodToLimiter' = [methodToLimiter EXCEPT ![m] = Requests(answers)]
    /\ UNCHANGED now

\* Time passes between calls.
Tick ==
    /\ now < MaxTime
    /\ Len(calls) < MaxCalls
    /\ now' = now + 1
    /\ UNCHANGED <<messageWindows, methodToLimiter, calls>>

-----------------------------------------------------------------------------
Passed(call) == call.verdict \in {"first", "ok"}

\* The calls that the windows of a method are informed about.
Counted(call) == call.verdict \in {"ok", "methodLimited"}

\* The earlier calls, among those in S, that are at most `duration` old at call k.
Recent(S, k, duration) == {j \in S : j < k /\ calls[k].time - calls[j].time <= duration}

\* A message is refused exactly when some message window has, within its duration, seen
\* as many messages as its limit, the refused ones included: rate_limiting.go replaces
\* "the oldest" with a scan that stops early, and no message may be lost by it.
MessagesLimitedExactly ==
    \A k \in DOMAIN calls :
        calls[k].verdict = "limited" <=>
            \E i \in DOMAIN MessageLimits :
                Cardinality(Recent(DOMAIN calls, k, Duration(i))) >= MessageLimits[i]

\* A method is refused exactly when one of its windows has seen as many invocations as
\* its limit; the first invocation creates the limiter and is seen by no window.
MethodsLimitedExactly ==
    \A k \in DOMAIN calls :
        LET m == calls[k].method
            same == {j \in DOMAIN calls : calls[j].method = m /\ Counted(calls[j])}
        IN Counted(calls[k]) =>
            (calls[k].verdict = "methodLimited" <=>
                \E i \in DOMAIN Limits(m) :
                    /\ Limits(m)[i] > 0
                    /\ Cardinality(Recent(same, k, Duration(i))) >= Limits(m)[i])



\* server.go: "[10, 50, 200] means at most 10 calls in 1s".  The first call is not counted.
MethodRateBounded ==
    \A m \in Method, k \in DOMAIN calls : \A i \in DOMAIN Limits(m) :
        Limits(m)[i] > 0 =>
            Cardinality({j \in DOMAIN calls :
                            /\ calls[j].method = m
                            /\ Passed(calls[j])
                            /\ calls[j].time >= calls[k].time
                            /\ calls[j].time <= calls[k].time + Duration(i)}) <= Limits(m)[i]
==============================================================================
