--------------------------- MODULE MCTransaction ---------------------------
(* Small instances of Transaction.                                         *)
EXTENDS Transaction, TLC

CONSTANTS p1, p2, t1, t2, k1, k2, e1, e2

SymKeys == Permutations({k1, k2})

-----------------------------------------------------------------------------
(* Bound: one transaction with two callbacks and two effects, or two       *)
(* transactions with one of each.  Only new calls are kept out.            *)

SecondTxUnused == ~started[t2] /\ \A a \in Actors : on[a] # t2

SecondsUnused ==
    /\ \A a \in Actors : arg[a] \notin {k2, e2}
    /\ \A t \in Txs : k2 \notin accepted[t] /\ \A i \in 1..Len(effects[t]) : effects[t][i] # e2

OneOrTwoTxs == SecondTxUnused \/ SecondsUnused
=============================================================================
