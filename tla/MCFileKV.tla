------------------------------ MODULE MCFileKV ------------------------------
(* Small instances of FileKV.                                              *)
EXTENDS FileKV, TLC

CONSTANTS t1, t2, n1, k1, k2

Sym == Permutations({k1, k2})
=============================================================================
