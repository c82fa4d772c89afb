\* One partition of three nodes: long chains, cycles, self references.
CONSTANTS
    a1 = a1
    a2 = a2
    a3 = a3
    b1 = b1
    p = p
    q = q
    Nodes = {a1, a2, a3}
    Partitions = {p}
    Home <- OnePartition
    CrossRefs = FALSE
    ForeignScopes = FALSE
SPECIFICATION Spec
SYMMETRY Symmetry3
INVARIANTS
    TypeOK
    NoDangling
    TriColor
    GraysPending
    ProtectedShaded
    ListedSound
    GrayListsOwned
\* the host may stop calling the heap at any time
CHECK_DEADLOCK FALSE
