---------------------------- MODULE MCSmartLock ----------------------------
(* Small instances of SmartLock: three modules, one of which has a second  *)
(* goroutine.                                                              *)
EXTENDS SmartLock

CONSTANTS s1, s2, s3, g1, g2, g3, g4

MCStateOf == [g \in Goroutines |-> CASE g \in {g1, g4} -> s1 [] g = g2 -> s2 [] g = g3 -> s3]
=============================================================================
