-------------------------------- MODULE Arena --------------------------------
(***************************************************************************)
(* GcArena: a bump pointer and a free list over one block of memory.       *)
(* Offsets and sizes count units of 8 bytes, the least alignment of a      *)
(* node.  A block is live from GcArena::alloc until the sweep collects it. *)
(* sweep_dispose collects the dead nodes one by one (collect_hole) and     *)
(* then rebuilds the free list (finish_sweep); nothing is allocated while  *)
(* it runs.                                                                *)
(*                                                                         *)
(* finish_sweep leaves the free list sorted by address and taking an entry *)
(* out keeps it so: it is a set, and the first entry that fits is the one  *)
(* with the least offset.                                                  *)
(***************************************************************************)
EXTENDS Integers, FiniteSets

CONSTANTS
    Base,      \* address of the block: a multiple of 16 bytes
    Capacity,  \* its size
    MinAlloc,  \* MIN_ALLOC_SIZE: room for the size and next of a free entry
    Layouts    \* the sizes and alignments of the registered node types

ASSUME ArenaAssumption ==
    /\ Base \in Nat /\ Base % 2 = 0
    /\ Capacity \in Nat /\ MinAlloc \in Nat \ {0}
    /\ Layouts \subseteq [size : Nat, align : Nat \ {0}]

VARIABLES
    live,       \* blocks in use, with the alignment they were asked for
    bump,       \* the frontier: all from here to Capacity is unused
    free,       \* the free list
    liveCount,
    dead,       \* live blocks the running sweep has yet to collect
    holes,      \* blocks it has collected
    sweeping

vars == <<live, bump, free, liveCount, dead, holes, sweeping>>

Block(o, s) == [off |-> o, size |-> s]
Extent(b) == b.off .. (b.off + b.size - 1)
Space(l) == Block(l.off, l.size)

Init ==
    /\ live = {} /\ dead = {} /\ holes = {} /\ free = {}
    /\ bump = 0 /\ liveCount = 0
    /\ sweeping = FALSE

-----------------------------------------------------------------------------

Needed(layout) == IF layout.size < MinAlloc THEN MinAlloc ELSE layout.size

\* The bump pointer rounded up.  Relative to the block, not to the address.
AlignUp(layout) == ((bump + layout.align - 1) \div layout.align) * layout.align

Live(o, layout) == [off |-> o, size |-> Needed(layout), align |-> layout.align]

\* Defect: the size is not compared.
AnyEntry(layout) == free

\* The entries large enough; their alignment is not looked at.
Fitting(layout) == {f \in free : f.size >= Needed(layout)}

Bump(layout) ==
    /\ AlignUp(layout) + Needed(layout) <= Capacity
    /\ live' = live \union {Live(AlignUp(layout), layout)}
    /\ bump' = AlignUp(layout) + Needed(layout)
    /\ free' = free

\* First fit.  What the entry has over the need is given up.
Reuse(layout) ==
    /\ AlignUp(layout) + Needed(layout) > Capacity
    /\ \E f \in Fitting(layout) :
        /\ \A g \in Fitting(layout) : f.off <= g.off
        /\ live' = live \union {Live(f.off, layout)}
        /\ free' = free \ {f}
    /\ bump' = bump

\* When neither is possible the node is allocated outside the arena.
Alloc(layout) ==
    /\ ~sweeping
    /\ Bump(layout) \/ Reuse(layout)
    /\ liveCount' = liveCount + 1
    /\ UNCHANGED <<dead, holes, sweeping>>

-----------------------------------------------------------------------------

\* sweep_dispose starts on a list of dead nodes, with no arena node perhaps.
BeginSweep(D) ==
    /\ ~sweeping
    /\ D \subseteq live
    /\ sweeping' = TRUE
    /\ dead' = D
    /\ UNCHANGED <<live, bump, free, liveCount, holes>>

\* Defect: the frontier is rewound whichever block dies.
RewindAlways(b) == TRUE

AtFrontier(b) == b.off + b.size = bump

\* Defect: the walk over the dead nodes does not move on.
CollectHoleStays(b) ==
    /\ b \in dead
    /\ dead' = dead
    /\ live' = live \ {b}
    /\ liveCount' = liveCount - 1
    /\ holes' = holes \union {Space(b)}
    /\ UNCHANGED <<bump, free, sweeping>>

\* A block at the frontier moves it back, any other becomes a hole.
CollectHole(b) ==
    /\ b \in dead
    /\ dead' = dead \ {b}
    /\ live' = live \ {b}
    /\ liveCount' = (IF liveCount = 0 THEN 0 ELSE liveCount - 1)
    /\ IF AtFrontier(b)
       THEN bump' = b.off /\ holes' = holes
       ELSE holes' = holes \union {Space(b)} /\ bump' = bump
    /\ UNCHANGED <<free, sweeping>>

\* Defect: holes are listed as they were collected.
Unmerged == holes

\* Holes that touch are merged: the longest runs of units that all lie in holes.
Merged ==
    LET units == UNION {Extent(h) : h \in holes}
    IN {b \in [off : units, size : 1..Capacity] :
            /\ Extent(b) \subseteq units
            /\ b.off - 1 \notin units
            /\ b.off + b.size \notin units}

\* Defect: an empty arena is treated like any other.
FinishSweepNoReset ==
    /\ sweeping /\ dead = {}
    /\ sweeping' = FALSE
    /\ holes' = {}
    /\ bump' = bump /\ free' = Merged
    /\ UNCHANGED <<live, liveCount, dead>>

\* The free list is rebuilt from this sweep's holes alone.
FinishSweep ==
    /\ sweeping /\ dead = {}
    /\ sweeping' = FALSE
    /\ holes' = {}
    /\ IF liveCount = 0
       THEN bump' = 0 /\ free' = {}
       ELSE bump' = bump /\ free' = Merged
    /\ UNCHANGED <<live, liveCount, dead>>

\* Defect: only the nodes are forgotten.
ResetLiveOnly ==
    /\ ~sweeping
    /\ live' = {} /\ free' = {} /\ bump' = 0
    /\ UNCHANGED <<liveCount, dead, holes, sweeping>>

\* dealloc_partition replaces the arena by a new one.
ResetArena ==
    /\ ~sweeping
    /\ live' = {} /\ free' = {} /\ bump' = 0 /\ liveCount' = 0
    /\ UNCHANGED <<dead, holes, sweeping>>

Next ==
    \/ \E layout \in Layouts : Alloc(layout)
    \/ \E D \in SUBSET live : BeginSweep(D)
    \/ \E b \in dead : CollectHole(b)
    \/ FinishSweep
    \/ ResetArena

Spec == Init /\ [][Next]_vars

-----------------------------------------------------------------------------

Blocks == [off : Nat, size : Nat \ {0}]

TypeOK ==
    /\ live \subseteq [off : Nat, size : Nat \ {0}, align : Nat \ {0}]
    /\ dead \subseteq live
    /\ free \subseteq Blocks /\ holes \subseteq Blocks
    /\ bump \in 0..Capacity
    /\ liveCount \in Nat
    /\ sweeping \in BOOLEAN

\* Every unit belongs to at most one block: a live one, a hole or a free entry.
Disjoint ==
    /\ \A a, b \in live : a # b => Extent(a) \intersect Extent(b) = {}
    /\ \A a, b \in free \union holes : a # b => Extent(a) \intersect Extent(b) = {}
    /\ \A a \in live, b \in free \union holes : Extent(a) \intersect Extent(b) = {}

\* Nothing lies beyond the frontier, so bump allocation takes unused memory.
BelowFrontier == \A b \in live \union free \union holes : b.off + b.size <= bump

\* live_count is the number of live blocks: it decides when the arena is reset.
CountExact == liveCount = Cardinality(live)

\* Outside a sweep, an arena without live blocks is as good as new.
EmptyIsWhole == ~sweeping /\ live = {} => bump = 0 /\ free = {}

\* Outside a sweep no two free entries touch.
Coalesced == ~sweeping => \A f, g \in free : f.off + f.size # g.off

\* The address of a node is a multiple of its type's alignment.
Aligned == \A b \in live : (Base + b.off) % b.align = 0
=============================================================================
