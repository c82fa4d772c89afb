\* Two nodes in two partitions, up to three stacks, of depth two: the stacks
\* can all be of one partition, or an idle one lie between two others.
CONSTANTS
    a = a
    b = b
    p = p
    q = q
    None = None
    Nodes = {a, b}
    Partitions = {p, q}
    Home <- MCHome
    MaxStacks = 3
    MaxDepth = 2
    Rescopes = FALSE
SPECIFICATION Spec
INVARIANTS
    TypeOK
    CachedAlive
    OneCache
