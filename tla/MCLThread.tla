------------------------------ MODULE MCLThread ------------------------------
\* One or two threads under a root context, for TLC.
EXTENDS LThread, TLC

\* The thread was spawned running, and does nothing but run and end.
Plain(t) ==
    /\ ~spawnArgs[t].StartPaused /\ ~spawnArgs[t].PauseAfterYield
    /\ yields[t] = 0
    /\ io[t] = "out"

\* Bound: tasks and microtasks are registered only while the threads run, end and are
\* cancelled; nobody waits for them or resumes them.
TasksOrThreads ==
    \/ Registrations = 0
    \/ /\ \A t \in Threads : Plain(t)
       /\ \A u \in Users : resumer[u] = None
       /\ \A w \in Waiters : waiter[w].pc = "idle"
==============================================================================
