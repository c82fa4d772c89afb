\* Two partitions and references between them.
CONSTANTS
    a1 = a1
    a2 = a2
    a3 = a3
    b1 = b1
    p = p
    q = q
    Nodes = {a1, a2, b1}
    Partitions = {p, q}
    Home <- TwoPartitions
    CrossRefs = TRUE
    ForeignScopes = FALSE
SPECIFICATION Spec
SYMMETRY Symmetry2
INVARIANT ReachableAlive
\* the host may stop calling the heap at any time
CHECK_DEADLOCK FALSE
