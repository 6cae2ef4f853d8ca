--------------------------- MODULE MCMessageThread ---------------------------
(* Small instances of MessageThread.                                       *)
EXTENDS MessageThread, TLC

Symmetry == Permutations(Txs)
==============================================================================
