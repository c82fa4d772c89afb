---------------------------- MODULE ArenaProofs ----------------------------
(***************************************************************************)
(* Theorems about the arena, for blocks of any capacity and node types of  *)
(* any layout: blocks never overlap, the frontier is above all of them,    *)
(* live_count is exact, so the arena is reset when and only when it is     *)
(* empty.  None needs the alignment of free entries or of the block.       *)
(***************************************************************************)
EXTENDS Arena, FiniteSetTheorems, TLAPS

\* Two blocks do not overlap, said of their bounds.
Apart(a, b) == a.off + a.size <= b.off \/ b.off + b.size <= a.off

\* In terms of bounds, what Disjoint says in terms of units.
AllApart ==
    /\ \A a, b \in live : a # b => Apart(a, b)
    /\ \A a, b \in free \union holes : a # b => Apart(a, b)
    /\ \A a \in live, b \in free \union holes : Apart(a, b)

\* Holes are kept during a sweep only.
HolesOfSweep == ~sweeping => holes = {} /\ dead = {}

IInv ==
    /\ TypeOK
    /\ AllApart
    /\ BelowFrontier
    /\ IsFiniteSet(live) /\ CountExact
    /\ EmptyIsWhole
    /\ Coalesced
    /\ HolesOfSweep

-----------------------------------------------------------------------------

\* Rounding up to an alignment does not lower the frontier.
LEMMA RoundedUp ==
  ASSUME NEW b \in Nat, NEW a \in Nat \ {0}
  PROVE  /\ ((b + a - 1) \div a) * a \in Nat
         /\ ((b + a - 1) \div a) * a >= b
<1> DEFINE q == (b + a - 1) \div a
           r == (b + a - 1) % a
<1>1. b + a - 1 \in Nat
  OBVIOUS
<1>2. q \in Nat /\ r \in 0..(a - 1)
  BY <1>1
<1>3. b + a - 1 = a * q + r
  BY <1>1
<1> HIDE DEF q, r
<1>4. a * q >= b /\ a * q \in Nat /\ q * a = a * q
  BY <1>2, <1>3
<1> QED
  BY <1>4 DEF q

\* Blocks that are apart share no unit, and conversely.
LEMMA ApartDisjoint ==
  ASSUME NEW a, NEW b, a.off \in Nat, b.off \in Nat,
         a.size \in Nat \ {0}, b.size \in Nat \ {0}
  PROVE  Apart(a, b) <=> Extent(a) \intersect Extent(b) = {}
<1>1. Apart(a, b) => Extent(a) \intersect Extent(b) = {}
  BY DEF Apart, Extent
<1>2. ASSUME ~Apart(a, b)
      PROVE  Extent(a) \intersect Extent(b) # {}
  <2>1. CASE a.off <= b.off
    BY <1>2, <2>1 DEF Apart, Extent
  <2>2. CASE b.off <= a.off
    BY <1>2, <2>2 DEF Apart, Extent
  <2> QED
    BY <2>1, <2>2
<1> QED
  BY <1>1, <1>2

\* GcArena::new is empty.
LEMMA InitIInv == Init => IInv
<1> SUFFICES ASSUME Init PROVE IInv
  OBVIOUS
<1>1. TypeOK
  <2>1. sweeping \in BOOLEAN
    BY Zenon DEF Init
  <2>2. bump \in 0..Capacity
    BY ArenaAssumption DEF Init
  <2> QED
    BY <2>1, <2>2 DEF Init, TypeOK
<1>2. AllApart /\ BelowFrontier /\ EmptyIsWhole /\ Coalesced /\ HolesOfSweep
  BY DEF Init, AllApart, BelowFrontier, EmptyIsWhole, Coalesced, HolesOfSweep
<1>3. IsFiniteSet(live) /\ CountExact
  BY FS_EmptySet DEF Init, CountExact
<1> QED
  BY <1>1, <1>2, <1>3 DEF IInv

\* What alloc takes has at least the size asked for, never none.
LEMMA NeededSize ==
  ASSUME NEW layout \in Layouts
  PROVE  /\ layout.size \in Nat /\ layout.align \in Nat \ {0}
         /\ Needed(layout) \in Nat \ {0}
BY ArenaAssumption DEF Needed

\* Bump allocation takes memory above the frontier, all the rest is below.
LEMMA BumpIInv ==
  ASSUME IInv, NEW layout \in Layouts, Alloc(layout), Bump(layout)
  PROVE  IInv'
<1> DEFINE o == AlignUp(layout)
           s == Needed(layout)
           new == Live(o, layout)
<1>1. o \in Nat /\ o >= bump /\ s \in Nat \ {0} /\ o + s <= Capacity
  <2>1. bump \in Nat
    BY ArenaAssumption DEF IInv, TypeOK
  <2> QED
    BY <2>1, NeededSize, RoundedUp DEF AlignUp, Bump
<1>2. /\ new.off = o /\ new.size = s
      /\ new \in [off : Nat, size : Nat \ {0}, align : Nat \ {0}]
  BY <1>1, NeededSize DEF Live
<1>3. /\ live' = live \union {new} /\ bump' = o + s /\ free' = free
      /\ liveCount' = liveCount + 1
      /\ UNCHANGED <<dead, holes, sweeping>> /\ ~sweeping
  BY DEF Alloc, Bump
<1> HIDE DEF o, s, new
<1>4. TypeOK'
  BY <1>1, <1>2, <1>3, ArenaAssumption DEF IInv, TypeOK
<1>5. \A b \in live \union free \union holes : b.off + b.size <= o
                                      /\ b.off \in Nat /\ b.size \in Nat \ {0}
  BY <1>1, ArenaAssumption DEF IInv, BelowFrontier, TypeOK, Blocks
<1>6. BelowFrontier'
  BY <1>1, <1>2, <1>3, <1>5 DEF BelowFrontier
<1>7. \A b \in live \union free \union holes : Apart(new, b) /\ Apart(b, new)
  BY <1>2, <1>5 DEF Apart
<1>8. AllApart'
  BY <1>3, <1>7 DEF IInv, AllApart
<1>9. new \notin live
  BY <1>1, <1>2, <1>5
<1>10. IsFiniteSet(live)' /\ CountExact'
  BY <1>3, <1>9, FS_AddElement DEF IInv, CountExact
<1>11. EmptyIsWhole' /\ Coalesced' /\ HolesOfSweep'
  BY <1>3 DEF IInv, EmptyIsWhole, Coalesced, HolesOfSweep
<1> QED
  BY <1>4, <1>6, <1>8, <1>10, <1>11 DEF IInv

\* A free entry is below the frontier and apart from all others; what is taken of it
\* is its beginning.
LEMMA ReuseIInv ==
  ASSUME IInv, NEW layout \in Layouts, Alloc(layout), Reuse(layout)
  PROVE  IInv'
<1>1. PICK f \in Fitting(layout) : /\ live' = live \union {Live(f.off, layout)}
                                   /\ free' = free \ {f}
  BY DEF Reuse
<1> DEFINE new == Live(f.off, layout)
<1>2. /\ f \in free /\ f \in Blocks /\ f.size >= Needed(layout)
      /\ f.off \in Nat /\ f.size \in Nat \ {0}
  BY <1>1 DEF Fitting, IInv, TypeOK, Blocks
<1>3. /\ new.off = f.off /\ new.size \in Nat \ {0} /\ new.size <= f.size
      /\ new \in [off : Nat, size : Nat \ {0}, align : Nat \ {0}]
  BY <1>2, NeededSize DEF Live
<1>4. /\ live' = live \union {new} /\ free' = free \ {f} /\ bump' = bump
      /\ liveCount' = liveCount + 1
      /\ UNCHANGED <<dead, holes, sweeping>> /\ ~sweeping
  BY <1>1 DEF Alloc, Reuse
<1> HIDE DEF new
<1>5. TypeOK'
  BY <1>3, <1>4 DEF IInv, TypeOK
<1>6. BelowFrontier'
  BY <1>2, <1>3, <1>4, ArenaAssumption DEF IInv, TypeOK, BelowFrontier
<1>7. \A b \in live \union (free \ {f}) \union holes : Apart(new, b) /\ Apart(b, new)
  <2> TAKE b \in live \union (free \ {f}) \union holes
  <2>1. b.off \in Nat /\ b.size \in Nat \ {0}
    BY DEF IInv, TypeOK, Blocks
  <2>2. Apart(f, b) \/ Apart(b, f)
    BY <1>2, <1>4 DEF IInv, AllApart, HolesOfSweep
  <2> QED
    BY <1>2, <1>3, <2>1, <2>2 DEF Apart
<1>8. AllApart'
  BY <1>4, <1>7 DEF IInv, AllApart
<1>9. new \notin live
  <2>1. new \in live => Apart(new, f)
    BY <1>2, <1>4 DEF IInv, AllApart, HolesOfSweep
  <2> QED
    BY <1>2, <1>3, <2>1 DEF Apart
<1>10. IsFiniteSet(live)' /\ CountExact'
  BY <1>4, <1>9, FS_AddElement DEF IInv, CountExact
<1>11. EmptyIsWhole' /\ Coalesced' /\ HolesOfSweep'
  BY <1>4 DEF IInv, EmptyIsWhole, Coalesced, HolesOfSweep
<1> QED
  BY <1>5, <1>6, <1>8, <1>10, <1>11 DEF IInv

\* sweep_dispose begins: nothing but its list changes.
LEMMA BeginSweepIInv ==
  ASSUME IInv, NEW D \in SUBSET live, BeginSweep(D)
  PROVE  IInv'
<1>1. /\ UNCHANGED <<live, bump, free, liveCount, holes>>
      /\ sweeping' = TRUE /\ dead' = D /\ ~sweeping
  BY DEF BeginSweep
<1> QED
  BY <1>1 DEF IInv, TypeOK, AllApart, BelowFrontier, CountExact, EmptyIsWhole,
              Coalesced, HolesOfSweep

\* A dead block that ends at the frontier is the highest one, since all are apart:
\* rewinding to its start leaves the others below.
LEMMA CollectHoleIInv ==
  ASSUME IInv, NEW b \in dead, CollectHole(b)
  PROVE  IInv'
<1>1. /\ b \in live /\ sweeping
      /\ b.off \in Nat /\ b.size \in Nat \ {0} /\ b.off + b.size <= bump
  BY DEF IInv, TypeOK, BelowFrontier, HolesOfSweep
<1>2. /\ live' = live \ {b} /\ dead' = dead \ {b} /\ UNCHANGED <<free, sweeping>>
      /\ liveCount' = IF liveCount = 0 THEN 0 ELSE liveCount - 1
      /\ \/ AtFrontier(b) /\ bump' = b.off /\ holes' = holes
         \/ ~AtFrontier(b) /\ bump' = bump /\ holes' = holes \union {Space(b)}
  BY DEF CollectHole
<1>3. /\ Space(b).off = b.off /\ Space(b).size = b.size /\ Space(b) \in Blocks
  BY <1>1 DEF Space, Block, Blocks
<1>4. TypeOK'
  BY <1>1, <1>2, <1>3, ArenaAssumption DEF IInv, TypeOK
<1>5. \A c \in (live \ {b}) \union free \union holes :
          /\ Apart(c, b) \/ Apart(b, c)
          /\ c.off \in Nat /\ c.size \in Nat \ {0} /\ c.off + c.size <= bump
  BY <1>1 DEF IInv, TypeOK, Blocks, AllApart, BelowFrontier
<1>6. BelowFrontier'
  <2>1. CASE AtFrontier(b)
    BY <1>1, <1>2, <1>5, <2>1 DEF AtFrontier, Apart, BelowFrontier
  <2>2. CASE ~AtFrontier(b)
    BY <1>1, <1>2, <1>3, <1>5, <2>2 DEF BelowFrontier
  <2> QED
    BY <2>1, <2>2
<1>7. \A c \in (live \ {b}) \union free \union holes :
          Apart(c, Space(b)) /\ Apart(Space(b), c)
  BY <1>1, <1>3, <1>5 DEF Apart
<1>8. AllApart'
  BY <1>2, <1>7 DEF IInv, AllApart
<1>9. /\ IsFiniteSet(live') /\ Cardinality(live') = Cardinality(live) - 1
      /\ Cardinality(live) \in Nat /\ Cardinality(live) # 0
  BY <1>1, <1>2, FS_RemoveElement, FS_EmptySet, FS_CardinalityType DEF IInv
<1>10. IsFiniteSet(live)' /\ CountExact'
  BY <1>2, <1>9 DEF IInv, CountExact
<1>11. EmptyIsWhole' /\ Coalesced' /\ HolesOfSweep'
  BY <1>1, <1>2 DEF EmptyIsWhole, Coalesced, HolesOfSweep
<1> QED
  BY <1>4, <1>6, <1>8, <1>10, <1>11 DEF IInv

-----------------------------------------------------------------------------

\* The entries of the new free list are maximal runs of units of holes: a unit
\* belongs to one of them only, and none ends where another begins.
LEMMA MergedRuns ==
  ASSUME IInv
  PROVE  /\ Merged \subseteq Blocks
         /\ \A a \in Merged : a.off + a.size <= bump
         /\ \A a, b \in Merged : a # b => Apart(a, b) /\ a.off + a.size # b.off
         /\ \A a \in live, b \in Merged : Apart(a, b)
<1> DEFINE units == UNION {Extent(h) : h \in holes}
<1>1. \A h \in holes : /\ h.off \in Nat /\ h.size \in Nat \ {0}
                       /\ h.off + h.size <= bump
  BY DEF IInv, TypeOK, Blocks, BelowFrontier
<1>2. bump \in Nat
  BY ArenaAssumption DEF IInv, TypeOK
<1>3. \A u \in units : u \in Nat /\ u < bump
  BY <1>1, <1>2 DEF Extent
<1>4. \A a \in Merged : /\ a \in Blocks /\ a.off \in Nat /\ a.size \in Nat \ {0}
                        /\ \A u \in Extent(a) : u \in units
                        /\ a.off - 1 \notin units /\ a.off + a.size \notin units
  <2> TAKE a \in Merged
  <2>1. /\ a \in [off : units, size : 1..Capacity]
        /\ Extent(a) \subseteq units
        /\ a.off - 1 \notin units /\ a.off + a.size \notin units
    BY Zenon DEF Merged
  <2> HIDE DEF units
  <2>2. a.off \in Nat /\ a.size \in Nat \ {0} /\ a = [off |-> a.off, size |-> a.size]
    BY <1>3, <2>1, ArenaAssumption
  <2>3. a \in Blocks
    BY <2>2 DEF Blocks
  <2> QED
    BY <2>1, <2>2, <2>3
<1>5. \A a \in live, u \in units : u \notin Extent(a)
  <2> TAKE a \in live, u \in units
  <2>1. PICK h \in holes : u \in Extent(h)
    OBVIOUS
  <2>2. Apart(a, h) /\ a.off \in Nat /\ a.size \in Nat
    BY DEF IInv, AllApart, TypeOK
  <2> QED
    BY <1>1, <2>1, <2>2 DEF Apart, Extent
<1> HIDE DEF units
<1>6. \A a \in Merged : a.off + a.size <= bump
  <2> TAKE a \in Merged
  <2>1. a.off + a.size - 1 \in Extent(a)
    BY <1>4 DEF Extent
  <2> QED
    BY <1>2, <1>3, <1>4, <2>1
<1>7. ASSUME NEW a \in Merged, NEW b \in Merged, a # b
      PROVE  Apart(a, b) /\ a.off + a.size # b.off
  <2>1. b.off \in units /\ b.off - 1 \notin units /\ b.off + b.size \notin units
        /\ a.off \in units /\ a.off - 1 \notin units /\ a.off + a.size \notin units
    BY <1>4 DEF Extent
  <2>2. a.off # b.off \/ a.size # b.size
    BY <1>4, <1>7 DEF Blocks
  <2>3. ASSUME a.off < b.off, b.off < a.off + a.size PROVE FALSE
    <3>1. b.off - 1 \in Extent(a)
      BY <1>4, <2>3 DEF Extent
    <3> QED
      BY <1>4, <2>1, <3>1
  <2>4. ASSUME b.off < a.off, a.off < b.off + b.size PROVE FALSE
    <3>1. a.off - 1 \in Extent(b)
      BY <1>4, <2>4 DEF Extent
    <3> QED
      BY <1>4, <2>1, <3>1
  <2>5. ASSUME a.off = b.off, a.size < b.size PROVE FALSE
    <3>1. a.off + a.size \in Extent(b)
      BY <1>4, <2>5 DEF Extent
    <3> QED
      BY <1>4, <2>1, <3>1
  <2>6. ASSUME a.off = b.off, b.size < a.size PROVE FALSE
    <3>1. b.off + b.size \in Extent(a)
      BY <1>4, <2>6 DEF Extent
    <3> QED
      BY <1>4, <2>1, <3>1
  <2>7. Apart(a, b)
    BY <1>4, <2>2, <2>3, <2>4, <2>5, <2>6 DEF Apart
  <2> QED
    BY <2>1, <2>7
<1>8. ASSUME NEW a \in live, NEW b \in Merged
      PROVE  Apart(a, b)
  <2>1. a.off \in Nat /\ a.size \in Nat \ {0} /\ b.off \in Nat /\ b.size \in Nat \ {0}
    BY <1>4 DEF IInv, TypeOK
  <2>2. Extent(a) \intersect Extent(b) = {}
    BY <1>4, <1>5
  <2> QED
    BY <2>1, <2>2, ApartDisjoint
<1> QED
  BY <1>4, <1>6, <1>7, <1>8

\* finish_sweep: reset if no block is left, the runs of holes otherwise.
LEMMA FinishSweepIInv ==
  ASSUME IInv, FinishSweep
  PROVE  IInv'
<1>1. /\ UNCHANGED <<live, liveCount>> /\ sweeping' = FALSE
      /\ holes' = {} /\ dead' = {}
      /\ \/ liveCount = 0 /\ bump' = 0 /\ free' = {}
         \/ liveCount # 0 /\ bump' = bump /\ free' = Merged
  BY DEF FinishSweep
<1>2. liveCount = 0 <=> live = {}
  BY FS_EmptySet DEF IInv, CountExact
<1>3. CASE liveCount = 0
  <2>1. live' = {} /\ free' = {} /\ holes' = {} /\ dead' = {} /\ bump' = 0
    BY <1>1, <1>2, <1>3
  <2>2. sweeping' \in BOOLEAN
    BY <1>1, Zenon
  <2>3. TypeOK'
    BY <1>1, <2>1, <2>2, ArenaAssumption DEF IInv, TypeOK
  <2>4. IsFiniteSet(live)' /\ CountExact'
    BY <1>1 DEF IInv, CountExact
  <2> QED
    BY <2>1, <2>3, <2>4
       DEF IInv, AllApart, BelowFrontier, EmptyIsWhole, Coalesced, HolesOfSweep
<1>4. CASE liveCount # 0
  <2>1. TypeOK'
    BY <1>1, <1>4, MergedRuns DEF IInv, TypeOK
  <2>2. AllApart'
    BY <1>1, <1>4, MergedRuns DEF IInv, AllApart
  <2>3. BelowFrontier'
    BY <1>1, <1>4, MergedRuns DEF IInv, BelowFrontier
  <2>4. Coalesced'
    <3>1. \A a \in Merged : a.off + a.size # a.off
      BY MergedRuns DEF Blocks
    <3> QED
      BY <1>1, <1>4, <3>1, MergedRuns DEF Coalesced
  <2>5. IsFiniteSet(live)' /\ CountExact' /\ EmptyIsWhole' /\ HolesOfSweep'
    BY <1>1, <1>2, <1>4 DEF IInv, CountExact, EmptyIsWhole, HolesOfSweep
  <2> QED
    BY <2>1, <2>2, <2>3, <2>4, <2>5 DEF IInv
<1> QED
  BY <1>3, <1>4

\* dealloc_partition starts over with a new arena.
LEMMA ResetArenaIInv ==
  ASSUME IInv, ResetArena
  PROVE  IInv'
<1>1. /\ live' = {} /\ free' = {} /\ bump' = 0 /\ liveCount' = 0
      /\ UNCHANGED <<dead, holes, sweeping>> /\ holes = {} /\ dead = {}
  BY DEF ResetArena, IInv, HolesOfSweep
<1>2. IsFiniteSet(live)' /\ CountExact'
  BY <1>1, FS_EmptySet DEF CountExact
<1> QED
  BY <1>1, <1>2, ArenaAssumption
     DEF IInv, TypeOK, AllApart, BelowFrontier, EmptyIsWhole, Coalesced, HolesOfSweep

\* Every operation of the arena keeps the invariant.
LEMMA NextIInv ==
  ASSUME IInv, [Next]_vars
  PROVE  IInv'
<1>1. ASSUME NEW layout \in Layouts, Alloc(layout)
      PROVE  IInv'
  BY <1>1, BumpIInv, ReuseIInv DEF Alloc
<1>2. CASE UNCHANGED vars
  BY <1>2 DEF vars, IInv, TypeOK, AllApart, BelowFrontier, CountExact, EmptyIsWhole,
              Coalesced, HolesOfSweep
<1> QED
  BY <1>1, <1>2, BeginSweepIInv, CollectHoleIInv, FinishSweepIInv, ResetArenaIInv DEF Next

\* The inductive invariant holds for whatever order blocks are allocated and die in.
THEOREM ArenaSafety == Spec => []IInv
<1>1. Init => IInv
  BY InitIInv
<1>2. IInv /\ [Next]_vars => IInv'
  BY NextIInv
<1> QED
  BY <1>1, <1>2, PTL DEF Spec

\* No unit of the arena is handed out twice: GcArena::alloc never returns memory a
\* live node has, whichever way frontier, holes and free list got where they are.
THEOREM BlocksDisjoint == Spec => []Disjoint
<1>1. IInv => Disjoint
  <2> SUFFICES ASSUME IInv PROVE Disjoint
    OBVIOUS
  <2>1. \A b \in live \union free \union holes : b.off \in Nat /\ b.size \in Nat \ {0}
    BY DEF IInv, TypeOK, Blocks
  <2>2. \A a, b \in live \union free \union holes :
            Apart(a, b) => Extent(a) \intersect Extent(b) = {}
    BY <2>1, ApartDisjoint
  <2> QED
    BY <2>2 DEF IInv, AllApart, Disjoint
<1> QED
  BY <1>1, ArenaSafety, PTL

\* live_count is the number of live blocks, so the reset of finish_sweep takes no
\* memory from a live node.
THEOREM CountedExactly == Spec => []CountExact
<1>1. IInv => CountExact
  BY DEF IInv
<1> QED
  BY <1>1, ArenaSafety, PTL

\* The reset of finish_sweep comes when the last block has gone: whatever earlier
\* sweeps forgot of their holes is whole again then.
THEOREM EmptyStartsOver == Spec => []EmptyIsWhole
<1>1. IInv => EmptyIsWhole
  BY DEF IInv
<1> QED
  BY <1>1, ArenaSafety, PTL

\* No block and no free entry reaches above the frontier, where GcArena::alloc takes
\* new ones from.
THEOREM FrontierHolds == Spec => []BelowFrontier
<1>1. IInv => BelowFrontier
  BY DEF IInv
<1> QED
  BY <1>1, ArenaSafety, PTL

\* finish_sweep leaves no two free entries that touch: a block that fits into both is
\* not refused.
THEOREM HolesMerged == Spec => []Coalesced
<1>1. IInv => Coalesced
  BY DEF IInv
<1> QED
  BY <1>1, ArenaSafety, PTL

\* Blocks keep their shape and live_count does not go below zero.
THEOREM ArenaTypes == Spec => []TypeOK
<1>1. IInv => TypeOK
  BY DEF IInv
<1> QED
  BY <1>1, ArenaSafety, PTL
=============================================================================
