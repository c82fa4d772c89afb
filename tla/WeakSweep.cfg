\* Weak references between the steps of a three-step sweep.
CONSTANTS
    a1 = a1
    a2 = a2
    b1 = b1
    p = p
    q = q
    None = None
    Nodes = {a1, a2, b1}
    Partitions = {p, q}
    Home <- MCHome
    MaxVersion = 2
    MaxSlots = 2
    SplitTeardown = FALSE
    MaxUses = 3
SPECIFICATION Spec
SYMMETRY Symmetry
INVARIANT NoDroppedUpgrade
\* every slot may have been used as often as the bound allows
CHECK_DEADLOCK FALSE
