\* Two nodes in partition p, one in q; the host keeps references inside a partition.
CONSTANTS
    a1 = a1
    a2 = a2
    b1 = b1
    p = p
    q = q
    Idle = Idle
    Nodes = {a1, a2, b1}
    Partitions = {p, q}
    Home <- MCHome
    CrossRefs = FALSE
    ForeignScopes = FALSE
SPECIFICATION GcSpec
INVARIANT GcInv
PROPERTIES
    KeepsPromise
    CollectsAllGarbage
    Terminates
\* the host may stop calling the heap at any time
CHECK_DEADLOCK FALSE
