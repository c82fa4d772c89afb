----------------------------- MODULE MCWeakRefs -----------------------------
EXTENDS WeakRefs, TLC
CONSTANTS a1, a2, b1, p, q
MCHome == (a1 :> p) @@ (a2 :> p) @@ (b1 :> q)
Symmetry == Permutations({a1, a2})
=============================================================================
