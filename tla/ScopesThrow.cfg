\* A node thrown out of one scope is protected by another.
CONSTANTS
    a = a
    b = b
    p = p
    q = q
    None = None
    Nodes = {a, b}
    Partitions = {p, q}
    Home <- MCHome
    MaxStacks = 3
    MaxDepth = 2
    Rescopes = TRUE
SPECIFICATION Spec
INVARIANT CachedAlive
