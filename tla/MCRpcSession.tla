----------------------------- MODULE MCRpcSession -----------------------------
\* A session with few requests, for TLC.
EXTENDS RpcSession, TLC

\* Method a states its limits, method b has the default ones.
MCRateLimits == [m \in Method |-> IF m = "a" THEN <<1, 0>> ELSE <<>>]
MCDefaultLimits == <<1, 2>>
MCMessageLimits == <<2, 3>>

\* Two instances in one: the clock reaches its bound, or the session is closed before it does.
TimeOrClose == now < MaxTime \/ \A k \in Closers : closer[k] = "idle"

Symmetry == Permutations(Ids) \cup Permutations(Closers)
==============================================================================
