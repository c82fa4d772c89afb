\* Versions wrap after 2 uses of a slot, and a slot is used up to 3 times.  Three
\* nodes share two slots, or take a third, after which downgrade panics.
CONSTANTS
    a1 = a1
    a2 = a2
    b1 = b1
    p = p
    q = q
    None = None
    Nodes = {a1, a2, b1}
    Partitions = {p, q}
    Home <- MCHome
    MaxVersion = 2
    MaxSlots = 3
    SplitTeardown = FALSE
    MaxUses = 3
SPECIFICATION Spec
SYMMETRY Symmetry
INVARIANTS
    TypeOK
    UpgradeSound
    LiveUpgrade
    NoFreedUpgrade
    NoFinalizedUpgrade
PROPERTY NeverRevives
\* every slot may have been used as often as the bound allows
CHECK_DEADLOCK FALSE
