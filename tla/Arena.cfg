\* Room for three or four nodes in the arena, and one node outside it at a time.
CONSTANTS
    Base = 2
    Capacity = 12
    MinAlloc = 2
    HeadSize = 3
    HeadAlign = 1
    MaxTypes = 256
    LastPass = 3
    Omitted = Omitted
    Registry <- MCRegistry
    Layouts <- MCLayouts
    MaxPartitions = 2
    ArenaPartition = 1
    MaxAlloc = 6
    HalfRange = 16
    Limits = {0, 8, 30}
    Thresholds = {0, 4, 20}
    MaxOutside = 1
SPECIFICATION MemSpec
INVARIANTS
    TypeOK
    Disjoint
    BelowFrontier
    CountExact
    EmptyIsWhole
    Coalesced
    MemTypeOK
    UsedExact
    WithinLimit
    FullAsksForGc
    NoLeak
