---------------------------- MODULE MCSharedSet ----------------------------
(* Small instances of SharedSet.                                           *)
EXTENDS SharedSet, TLC

CONSTANTS w1, w2, n1, k1, k2

Sym == Permutations({w1, w2}) \cup Permutations({k1, k2})
=============================================================================
