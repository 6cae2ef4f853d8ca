----------------------------- MODULE MCWatchers -----------------------------
(* Two goroutines and one or two watchers of an object, for TLC.           *)
EXTENDS Watchers, TLC

CONSTANTS u1, u2, w1, w2

OneFilter == w1 :> Kinds
TwoFilters == w1 :> Kinds @@ w2 :> {"mutation"}

\* Watchers and callbacks together: two of them, or three callbacks.  Only new calls are left out.
Handles == nextHandle - 1 + Cardinality({u \in Users : At(u, "add")})
TwoOfThem == Len(watchers) + Handles <= IF watchers = <<>> THEN 3 ELSE 2

Symmetry == Permutations(Users)
=============================================================================
