\* Three nodes of three types and drop passes, in any of two partitions; an
\* address is used again after its node is freed.
CONSTANTS
    n1 = n1
    n2 = n2
    n3 = n3
    None = None
    Garbage = Garbage
    Nodes = {n1, n2, n3}
    MaxPartitions = 2
    HeadSize = 3
    HeadAlign = 1
    MaxTypes = 256
    LastPass = 3
    Omitted = Omitted
    Registry <- MCRegistry
    TypeOf <- MCTypeOf
    Stored <- MCStored
    NoRefs <- Leaf
    GcChildren <- Children
SPECIFICATION Spec
INVARIANTS
    LinksTypeOK
    EachInOneList
    DropsOnce
    TraceExact
    VisitsReachable
    ParentsLead
PROPERTIES
    OrderKept
    PassesInOrder
    LoopsEnd
\* a heap that was dropped does nothing
CHECK_DEADLOCK FALSE
