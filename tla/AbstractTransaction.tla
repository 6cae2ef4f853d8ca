------------------------ MODULE AbstractTransaction ------------------------
(***************************************************************************)
(* What a transaction of internal/core/transaction.go promises: it runs,   *)
(* is decided once (commit or rollback), tells the decision to each end    *)
(* callback at most once, and ends.  No callback is told anything before   *)
(* the decision or after the end.                                          *)
(***************************************************************************)
CONSTANTS Txs, Keys

VARIABLES
    status,  \* [Txs -> {"created", "running", "commit", "rollback", "ended"}]
    told     \* [Txs -> [Keys -> {"nothing", "success", "failure"}]]

absVars == <<status, told>>

Init ==
    /\ status = [t \in Txs |-> "created"]
    /\ told = [t \in Txs |-> [k \in Keys |-> "nothing"]]

Start(t) ==
    /\ status[t] = "created"
    /\ status' = [status EXCEPT ![t] = "running"]
    /\ UNCHANGED told

Decide(t, decision) ==
    /\ status[t] = "running"
    /\ status' = [status EXCEPT ![t] = decision]
    /\ UNCHANGED told

Tell(t, k) ==
    /\ status[t] \in {"commit", "rollback"}
    /\ told[t][k] = "nothing"
    /\ told' = [told EXCEPT ![t][k] = IF status[t] = "commit" THEN "success" ELSE "failure"]
    /\ UNCHANGED status

End(t) ==
    /\ status[t] \in {"commit", "rollback"}
    /\ status' = [status EXCEPT ![t] = "ended"]
    /\ UNCHANGED told

Next ==
    \E t \in Txs :
        \/ Start(t)
        \/ \E decision \in {"commit", "rollback"} : Decide(t, decision)
        \/ \E k \in Keys : Tell(t, k)
        \/ End(t)

Spec == Init /\ [][Next]_absVars
=============================================================================
