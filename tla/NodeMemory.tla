----------------------------- MODULE NodeMemory -----------------------------
(***************************************************************************)
(* Memory of nodes: where alloc_node_mem takes it from (the arena of the   *)
(* partition, or the system), the accounting per partition and in total,   *)
(* the memory limit and the GC threshold.                                  *)
(*                                                                         *)
(* Partitions are numbered in the order create_partition makes them.  One  *)
(* of them has an arena, whose blocks are the nodes in it; nodes outside   *)
(* the arena are counted by partition and type.                            *)
(***************************************************************************)
EXTENDS Arena, GcTypes

CONSTANTS
    Registry,        \* the entries of gc_type_register!, one per type
    MaxPartitions,   \* bound: partitions ever created
    ArenaPartition,  \* the partition created with an arena
    MaxAlloc,        \* arena_max_alloc: larger nodes skip the arena
    HalfRange,       \* 2^31: deltas of the accounting are i32
    Limits,          \* the values the host sets as limit and as threshold,
    Thresholds,      \* 0 for none
    MaxOutside       \* bound: nodes outside the arena at one time

ASSUME NodeMemoryAssumption ==
    /\ Registers(Registry)
    /\ Limits \subseteq Nat /\ Thresholds \subseteq Nat
    /\ MaxAlloc \in Nat /\ HalfRange \in Nat \ {0}
    /\ MaxPartitions \in Nat /\ ArenaPartition \in 1..MaxPartitions
    /\ Layouts = {Layout(e) : e \in Range(Registry)}
    /\ \A e \in Range(Registry) : LayoutSize(e) < HalfRange
    /\ HeadSize >= 3 /\ MinAlloc <= HeadSize

VARIABLES
    created,    \* how many partitions there are
    outside,    \* nodes outside the arena: outside[p][t] of type t in p
    mallocs,    \* blocks of each type the system gave out and did not get back
    used,       \* GcPartition.memory_used
    total,      \* GcHeap.total_memory_used
    limit,      \* GcHeap.memory_limit
    threshold   \* GcHeap.gc_threshold

memVars == <<live, bump, free, liveCount, dead, holes, sweeping,
             created, outside, mallocs, used, total, limit, threshold>>
arenaVars == <<live, bump, free, liveCount, dead, holes, sweeping>>

PartitionIds == 1..MaxPartitions
Types == DOMAIN Registry
SizeOf(t) == LayoutSize(Registry[t])
MinGcThreshold == HeadSize + RoundUp(1, HeadAlign)

OutsideNodes == SumFunction([pt \in PartitionIds \X Types |-> outside[pt[1]][pt[2]]])

MemInit ==
    /\ Init
    /\ created = 0
    /\ outside = [p \in PartitionIds |-> [t \in Types |-> 0]]
    /\ mallocs = [t \in Types |-> 0]
    /\ used = [p \in PartitionIds |-> 0]
    /\ total = 0 /\ limit = 0 /\ threshold = 0

-----------------------------------------------------------------------------

\* Defect: the cast is too narrow for the sizes there are.
AsI3(size) == ((size + 4) % 8) - 4

\* A size cast to i32.
AsI32(size) == ((size + HalfRange) % (2 * HalfRange)) - HalfRange

\* Defect: what is freed is taken from the partition only.
UpdatePartitionOnly(p, delta) ==
    /\ used' = [used EXCEPT ![p] = @ + delta]
    /\ total' = IF delta < 0 THEN total ELSE total + delta

UpdateMemUse(p, delta) ==
    /\ used' = [used EXCEPT ![p] = @ + delta]
    /\ total' = total + delta

CreatePartition ==
    /\ created < MaxPartitions
    /\ created' = created + 1
    /\ UNCHANGED <<arenaVars, outside, mallocs, used, total, limit, threshold>>

-----------------------------------------------------------------------------
(* Allocation.                                                             *)

FitsLimit(t) == limit > 0 => total + SizeOf(t) <= limit

ArenaHasRoom(layout) ==
    AlignUp(layout) + Needed(layout) <= Capacity \/ Fitting(layout) # {}

\* Small nodes that are no roots (skip_arena) go to the arena if it has room.
UsesArena(p, t, skip_arena) ==
    /\ ~skip_arena
    /\ p = ArenaPartition
    /\ SizeOf(t) <= MaxAlloc
    /\ ArenaHasRoom(Layout(Registry[t]))

AllocOutside(p, t) ==
    /\ OutsideNodes < MaxOutside
    /\ outside' = [outside EXCEPT ![p][t] = @ + 1]
    /\ mallocs' = [mallocs EXCEPT ![t] = @ + 1]
    /\ UNCHANGED arenaVars

\* alloc_node_mem.  It fails, and changes nothing, for an unknown partition and
\* beyond the limit.
AllocNodeMem(p, t, skip_arena) ==
    /\ ~sweeping
    /\ p <= created
    /\ FitsLimit(t)
    /\ IF UsesArena(p, t, skip_arena)
       THEN Alloc(Layout(Registry[t])) /\ UNCHANGED <<outside, mallocs>>
       ELSE AllocOutside(p, t)
    /\ UpdateMemUse(p, AsI32(SizeOf(t)))
    /\ UNCHANGED <<created, limit, threshold>>

-----------------------------------------------------------------------------
(* Disposal.                                                               *)

\* dispose_mem_only for a node outside the arena.
DisposeOutside(p, t) ==
    /\ outside[p][t] > 0
    /\ outside' = [outside EXCEPT ![p][t] = @ - 1]
    /\ mallocs' = [mallocs EXCEPT ![t] = @ - 1]
    /\ UpdateMemUse(p, -AsI32(SizeOf(t)))
    /\ UNCHANGED <<arenaVars, created, limit, threshold>>

StartSweep(D) ==
    /\ BeginSweep(D)
    /\ UNCHANGED <<created, outside, mallocs, used, total, limit, threshold>>

\* dispose_mem_only for a node in the arena, then collect_hole.
DisposeInArena(b) ==
    /\ CollectHole(b)
    /\ UpdateMemUse(ArenaPartition, -AsI32(b.size))
    /\ UNCHANGED <<created, outside, mallocs, limit, threshold>>

EndSweep ==
    /\ FinishSweep
    /\ UNCHANGED <<created, outside, mallocs, used, total, limit, threshold>>

\* Defect, the one a debug build has: attrs are poisoned before ARENA_ALLOC is
\* read from them, and the poison has that bit, so nothing goes back.
DeallocPartitionPoisoned(p) ==
    /\ p <= created
    /\ IF p = ArenaPartition THEN ResetArena ELSE ~sweeping /\ UNCHANGED arenaVars
    /\ outside' = [outside EXCEPT ![p] = [t \in Types |-> 0]]
    /\ mallocs' = mallocs
    /\ total' = total - used[p]
    /\ used' = [used EXCEPT ![p] = 0]
    /\ UNCHANGED <<created, limit, threshold>>

\* dealloc_partition frees the nodes without accounting for each: the
\* partition's sum is subtracted instead.  The partition stays, and is empty.
DeallocPartition(p) ==
    /\ p <= created
    /\ IF p = ArenaPartition THEN ResetArena ELSE ~sweeping /\ UNCHANGED arenaVars
    /\ outside' = [outside EXCEPT ![p] = [t \in Types |-> 0]]
    /\ mallocs' = [t \in Types |-> mallocs[t] - outside[p][t]]
    /\ total' = total - used[p]
    /\ used' = [used EXCEPT ![p] = 0]
    /\ UNCHANGED <<created, limit, threshold>>

-----------------------------------------------------------------------------
(* Limit and threshold.                                                    *)

AtLeast(a, b) == IF a > b THEN a ELSE b

\* Defect: a limit below what is in use is taken as it is.
AppliedAsIs(l) == l

\* The limit is never below what is in use.
Applied(l) == AtLeast(total, l)

\* A threshold that a new limit overtakes goes to three quarters of it.
SetMemoryLimit(l) ==
    /\ IF l = 0
       THEN limit' = 0 /\ threshold' = threshold
       ELSE /\ limit' = Applied(l)
            /\ threshold' =
                  IF threshold > 0 /\ threshold >= Applied(l)
                  THEN AtLeast(Applied(l) - Applied(l) \div 4, MinGcThreshold)
                  ELSE threshold
    /\ UNCHANGED <<arenaVars, created, outside, mallocs, used, total>>

\* Defect: the threshold is not capped.
CappedNever(t) == t

\* At most eight tenths of a limit there is.
Capped(t) ==
    IF t > 0 /\ limit > 0 /\ t > (limit * 8) \div 10 THEN (limit * 8) \div 10 ELSE t

SetGcThreshold(t) ==
    /\ threshold' = Capped(t)
    /\ UNCHANGED <<arenaVars, created, outside, mallocs, used, total, limit>>

MemNext ==
    \/ CreatePartition
    \/ \E p \in PartitionIds, t \in Types :
        \/ \E skip_arena \in BOOLEAN : AllocNodeMem(p, t, skip_arena)
        \/ DisposeOutside(p, t)
    \/ \E D \in SUBSET live : StartSweep(D)
    \/ \E b \in dead : DisposeInArena(b)
    \/ EndSweep
    \/ \E p \in PartitionIds : DeallocPartition(p)
    \/ \E l \in Limits : SetMemoryLimit(l)
    \/ \E t \in Thresholds : SetGcThreshold(t)

MemSpec == MemInit /\ [][MemNext]_memVars

-----------------------------------------------------------------------------

\* No counter falls below zero: the underflow update_mem_use asserts against.
MemTypeOK ==
    /\ created \in 0..MaxPartitions
    /\ outside \in [PartitionIds -> [Types -> Nat]]
    /\ mallocs \in [Types -> Nat]
    /\ used \in [PartitionIds -> Nat] /\ total \in Nat
    /\ limit \in Nat /\ threshold \in Nat

\* What memory_used reports is the size of the nodes there are, per partition and
\* in total, though a sweep subtracts node by node and a teardown all at once.
UsedExact ==
    /\ \A p \in PartitionIds :
        used[p] = SumFunction([t \in Types |-> outside[p][t] * SizeOf(t)])
                  + (IF p = ArenaPartition THEN SumFunction([b \in live |-> b.size]) ELSE 0)
    /\ total = SumFunction(used)

\* The limit holds whatever the order of allocations and changes of the limit.
WithinLimit == limit > 0 => total <= limit

should_gc == threshold > 0 /\ total >= threshold

\* A heap that is full to its limit, where every allocation fails, asks for a
\* collection if the host set a threshold, whether it got full by allocations or the
\* limit came down to what is in use.  No more than that: a node larger than what is
\* left fails while should_gc is false, and so it stays in a heap that is full with
\* less than the least threshold, which is one node without payload.
FullAsksForGc ==
    threshold > 0 /\ limit > 0 /\ total = limit /\ total >= MinGcThreshold => should_gc

\* Every block the system gave out belongs to a node.
NoLeak == \A t \in Types : mallocs[t] = SumFunction([p \in PartitionIds |-> outside[p][t]])
=============================================================================
