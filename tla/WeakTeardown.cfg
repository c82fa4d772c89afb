\* The host makes weak references while another partition is being torn down.
CONSTANTS
    a1 = a1
    a2 = a2
    b1 = b1
    p = p
    q = q
    None = None
    Nodes = {a1, a2, b1}
    Partitions = {p, q}
    Home <- MCHome
    MaxVersion = 2
    MaxSlots = 2
    SplitTeardown = TRUE
    MaxUses = 3
SPECIFICATION Spec
SYMMETRY Symmetry
INVARIANT LiveUpgrade
\* every slot may have been used as often as the bound allows
CHECK_DEADLOCK FALSE
