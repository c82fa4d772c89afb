----------------------------- MODULE MCMarkSweep -----------------------------
EXTENDS MarkSweep, TLC
CONSTANTS a1, a2, a3, b1, p, q

\* Three nodes in one partition.
OnePartition == (a1 :> p) @@ (a2 :> p) @@ (a3 :> p)
Symmetry3 == Permutations({a1, a2, a3})

\* Two nodes in p, one in q.
TwoPartitions == (a1 :> p) @@ (a2 :> p) @@ (b1 :> q)
Symmetry2 == Permutations({a1, a2})
=============================================================================
