-------------------- MODULE MCStrongTransactionIsolator --------------------
(* Small instances of StrongTransactionIsolator: up to three readonly and  *)
(* two read-write transactions.                                            *)
EXTENDS StrongTransactionIsolator

CONSTANTS r1, r2, r3, w1, w2

-----------------------------------------------------------------------------
(* Bound: of two readers and two writers, a reader or a writer leaves      *)
(* without having called, before the others call.  The states are those of *)
(* two readers with a writer and of a reader with two writers.             *)

Uncalled(c) == pc[c] = "idle" /\ result[c] = "none" /\ ~ctxDone[c]

Left(c) == Uncalled(c) /\ finished[c]

OneLeaves ==
    \/ Left(r2)
    \/ Left(w2)
    \/ \E c \in {r2, w2} :
            /\ \A d \in Ctxs : Uncalled(d)
            /\ \A d \in Ctxs \ {c} : attached[d]
=============================================================================
