-------------------------- MODULE NodeMemoryProofs --------------------------
(***************************************************************************)
(* Theorems about the memory of nodes: its arena is an arena as Arena has  *)
(* it, so what ArenaProofs proves is true of it; a heap that is full asks  *)
(* for a collection, in whatever order the host sets limit and threshold;  *)
(* and the accounting is exact, so the limit holds and no counter          *)
(* underflows.  The last rests on facts about sums over finite sets,       *)
(* proved here.                                                            *)
(***************************************************************************)
EXTENDS NodeMemory, ArenaProofs, FiniteInduction

\* Each operation on nodes is one operation of the arena or leaves it alone.
LEMMA ArenaStep ==
  ASSUME [MemNext]_memVars
  PROVE  [Next]_vars
<1>1. ASSUME NEW p \in PartitionIds, NEW t \in Types, NEW skip_arena \in BOOLEAN,
             AllocNodeMem(p, t, skip_arena)
      PROVE  [Next]_vars
  <2>1. CASE UsesArena(p, t, skip_arena)
    <3>1. Alloc(Layout(Registry[t]))
      BY <1>1, <2>1 DEF AllocNodeMem
    <3>2. Layout(Registry[t]) \in Layouts
      BY NodeMemoryAssumption DEF Types, Range
    <3> QED
      BY <3>1, <3>2 DEF Next
  <2>2. CASE ~UsesArena(p, t, skip_arena)
    BY <1>1, <2>2 DEF AllocNodeMem, AllocOutside, arenaVars, vars
  <2> QED
    BY <2>1, <2>2
<1>2. ASSUME NEW p \in PartitionIds, NEW t \in Types, DisposeOutside(p, t)
      PROVE  [Next]_vars
  BY <1>2 DEF DisposeOutside, arenaVars, vars
<1>3. ASSUME NEW D \in SUBSET live, StartSweep(D)
      PROVE  [Next]_vars
  BY <1>3 DEF StartSweep, Next
<1>4. ASSUME NEW b \in dead, DisposeInArena(b)
      PROVE  [Next]_vars
  BY <1>4 DEF DisposeInArena, Next
<1>5. ASSUME EndSweep PROVE [Next]_vars
  BY <1>5 DEF EndSweep, Next
<1>6. ASSUME NEW p \in PartitionIds, DeallocPartition(p)
      PROVE  [Next]_vars
  BY <1>6 DEF DeallocPartition, arenaVars, vars, Next
<1>7. ASSUME CreatePartition PROVE [Next]_vars
  BY <1>7 DEF CreatePartition, arenaVars, vars
<1>8. ASSUME NEW l \in Limits, SetMemoryLimit(l)
      PROVE  [Next]_vars
  BY <1>8 DEF SetMemoryLimit, arenaVars, vars
<1>9. ASSUME NEW t \in Thresholds, SetGcThreshold(t)
      PROVE  [Next]_vars
  BY <1>9 DEF SetGcThreshold, arenaVars, vars
<1>10. CASE UNCHANGED memVars
  BY <1>10 DEF memVars, vars
<1> QED
  BY <1>1, <1>2, <1>3, <1>4, <1>5, <1>6, <1>7, <1>8, <1>9, <1>10 DEF MemNext

\* The arena of a partition, under all that alloc_node_mem, dispose, sweep_dispose and
\* dealloc_partition do with it, behaves as Arena says: the accounting hides nothing.
THEOREM ArenaOfNodes == MemSpec => Spec
<1>1. MemInit => Init
  BY DEF MemInit
<1>2. [MemNext]_memVars => [Next]_vars
  BY ArenaStep
<1> QED
  BY <1>1, <1>2, PTL DEF MemSpec, Spec

\* Nodes in the arena of a heap never overlap, and all of what Arena's invariants say
\* holds of it, for any registry of types and any order of calls.
THEOREM NodesDisjoint ==
  MemSpec => [](Disjoint /\ BelowFrontier /\ CountExact /\ EmptyIsWhole /\ Coalesced)
BY ArenaOfNodes, BlocksDisjoint, CountedExactly, EmptyStartsOver, FrontierHolds, HolesMerged, PTL
-----------------------------------------------------------------------------

\* The threshold is below the limit, or it is the least one, to which a new limit
\* moves it even when that is not below the limit.
ThresholdFits ==
    limit > 0 /\ threshold > 0 => threshold < limit \/ threshold = MinGcThreshold

\* What the sizes of GcHead, total and limits are for the host's two settings.
LimitInv ==
    /\ limit \in Nat /\ threshold \in Nat
    /\ total \in Int /\ used \in [PartitionIds -> Int]
    /\ ThresholdFits

\* The least threshold is the size of a node without data to speak of: three or more.
LEMMA LeastThreshold == MinGcThreshold \in Nat /\ MinGcThreshold >= 3
<1>1. RoundUp(1, HeadAlign) \in Nat
  BY HeadAssumption, RoundedUp DEF RoundUp
<1> QED
  BY <1>1, HeadAssumption, NodeMemoryAssumption DEF MinGcThreshold

\* Sizes of nodes are numbers, and so are they as i32.
LEMMA SizesAreNumbers ==
  /\ \A t \in Types : SizeOf(t) \in Nat
  /\ \A size \in Nat : AsI32(size) \in Int /\ -AsI32(size) \in Int
<1>1. ASSUME NEW t \in Types PROVE SizeOf(t) \in Nat
  <2>1. Layout(Registry[t]) \in [size : Nat, align : Nat \ {0}]
    BY ArenaAssumption, NodeMemoryAssumption DEF Types, Range
  <2> QED
    BY <2>1 DEF Layout, SizeOf
<1>2. ASSUME NEW size \in Nat PROVE AsI32(size) \in Int /\ -AsI32(size) \in Int
  BY NodeMemoryAssumption DEF AsI32
<1> QED
  BY <1>1, <1>2

\* Accounting keeps limit and threshold.
LEMMA AccountingLimitInv ==
  ASSUME LimitInv, NEW p \in PartitionIds, NEW delta \in Int, UpdateMemUse(p, delta),
         UNCHANGED <<limit, threshold>>
  PROVE  LimitInv'
BY DEF LimitInv, UpdateMemUse, ThresholdFits

\* A new limit moves a threshold it overtakes to three quarters of it, which is less
\* than it unless the limit is below 4, and then the least threshold counts.
LEMMA SetLimitLimitInv ==
  ASSUME LimitInv, NEW l \in Limits, SetMemoryLimit(l)
  PROVE  LimitInv'
<1> DEFINE a == Applied(l)
<1>1. l \in Nat /\ total \in Int
  BY NodeMemoryAssumption DEF LimitInv
<1>2. UNCHANGED <<total, used>>
  BY DEF SetMemoryLimit
<1>3. CASE l = 0
  BY <1>2, <1>3 DEF SetMemoryLimit, LimitInv, ThresholdFits
<1>4. CASE l # 0
  <2>1. a \in Nat \ {0}
    BY <1>1, <1>4 DEF Applied, AtLeast
  <2>2. /\ limit' = a
        /\ threshold' = IF threshold > 0 /\ threshold >= a
                        THEN AtLeast(a - a \div 4, MinGcThreshold) ELSE threshold
    BY <1>4 DEF SetMemoryLimit
  <2> HIDE DEF a
  <2>3. a - a \div 4 \in Nat /\ (a >= 4 => a - a \div 4 < a)
    BY <2>1
  <2> QED
    BY <1>2, <2>1, <2>2, <2>3, LeastThreshold DEF LimitInv, ThresholdFits, AtLeast
<1> QED
  BY <1>3, <1>4

\* A new threshold is capped at eight tenths of the limit.
LEMMA SetThresholdLimitInv ==
  ASSUME LimitInv, NEW t \in Thresholds, SetGcThreshold(t)
  PROVE  LimitInv'
<1>1. t \in Nat /\ limit \in Nat
  BY NodeMemoryAssumption DEF LimitInv
<1>2. Capped(t) \in Nat /\ (limit > 0 => Capped(t) < limit)
  <2>1. (limit * 8) \div 10 \in Nat /\ (limit > 0 => (limit * 8) \div 10 < limit)
    BY <1>1
  <2> QED
    BY <1>1, <2>1 DEF Capped
<1> QED
  BY <1>2 DEF SetGcThreshold, LimitInv, ThresholdFits

\* set_memory_limit and set_gc_threshold keep the two in order, in any order of calls.
LEMMA LimitStep ==
  ASSUME IInv, LimitInv, [MemNext]_memVars
  PROVE  LimitInv'
<1>1. ASSUME NEW p \in PartitionIds, NEW t \in Types, NEW skip_arena \in BOOLEAN,
             AllocNodeMem(p, t, skip_arena)
      PROVE  LimitInv'
  BY <1>1, SizesAreNumbers, AccountingLimitInv DEF AllocNodeMem
<1>2. ASSUME NEW p \in PartitionIds, NEW t \in Types, DisposeOutside(p, t)
      PROVE  LimitInv'
  BY <1>2, SizesAreNumbers, AccountingLimitInv DEF DisposeOutside
<1>3. ASSUME NEW b \in dead, DisposeInArena(b)
      PROVE  LimitInv'
  <2>1. b.size \in Nat
    BY DEF IInv, TypeOK
  <2> QED
    BY <1>3, <2>1, SizesAreNumbers, AccountingLimitInv, NodeMemoryAssumption
       DEF DisposeInArena, PartitionIds
<1>4. ASSUME NEW p \in PartitionIds, DeallocPartition(p)
      PROVE  LimitInv'
  BY <1>4 DEF DeallocPartition, LimitInv, ThresholdFits
<1>5. CASE CreatePartition \/ EndSweep \/ (\E D \in SUBSET live : StartSweep(D))
  BY <1>5 DEF CreatePartition, EndSweep, StartSweep, LimitInv, ThresholdFits
<1>6. CASE UNCHANGED memVars
  BY <1>6 DEF memVars, LimitInv, ThresholdFits
<1> QED
  BY <1>1, <1>2, <1>3, <1>4, <1>5, <1>6, SetLimitLimitInv, SetThresholdLimitInv DEF MemNext

\* A heap that is full asks for a collection, in whatever order set_memory_limit and
\* set_gc_threshold were called and whatever was allocated in between.
THEOREM FullHeapAsks == MemSpec => []FullAsksForGc
<1>1. MemInit => LimitInv
  BY DEF MemInit, LimitInv, ThresholdFits
<1>2. IInv /\ LimitInv /\ [MemNext]_memVars => LimitInv'
  BY LimitStep
<1>3. LimitInv => FullAsksForGc
  BY LeastThreshold DEF LimitInv, ThresholdFits, FullAsksForGc, should_gc
<1> QED
  BY <1>1, <1>2, <1>3, ArenaOfNodes, ArenaSafety, PTL DEF MemSpec

-----------------------------------------------------------------------------
(* Sums over finite sets.                                                  *)

Chosen(s) == CHOOSE x \in s : TRUE

\* What the definition of SumFunctionOnSet asks of its recursive function.
SumsUp(f, S, g) ==
  g = [s \in SUBSET S |-> IF s = {} THEN 0 ELSE f[Chosen(s)] + g[s \ {Chosen(s)}]]

\* The library's sum, down to the recursive function it is defined with.
LEMMA SumUnfolded ==
  ASSUME NEW f, NEW S
  PROVE  SumFunctionOnSet(f, S) = (CHOOSE g : SumsUp(f, S, g))[S]
BY DEF SumFunctionOnSet, FoldFunctionOnSet, MapThenFoldSet, SumsUp, Chosen

\* The recursive function is defined up to any cardinality.
LEMMA SumsUpExists ==
  ASSUME NEW f, NEW S, IsFiniteSet(S)
  PROVE  \E g : SumsUp(f, S, g)
<1> DEFINE Small(n) == {s \in SUBSET S : Cardinality(s) <= n}
           Upto(n, g) == g = [s \in Small(n) |->
              IF s = {} THEN 0 ELSE f[Chosen(s)] + g[s \ {Chosen(s)}]]
           bad == {n \in Nat : ~\E g : Upto(n, g)}
<1>0. ASSUME NEW s \in SUBSET S
      PROVE  /\ Cardinality(s) \in Nat
             /\ Cardinality(s) <= Cardinality(S)
             /\ s # {} => /\ s \ {Chosen(s)} \in SUBSET S
                          /\ Cardinality(s \ {Chosen(s)}) = Cardinality(s) - 1
  <2>1. IsFiniteSet(s) /\ Cardinality(s) <= Cardinality(S)
    BY FS_Subset
  <2>2. s # {} => Chosen(s) \in s
    BY DEF Chosen
  <2> QED
    BY <2>1, <2>2, FS_CardinalityType, FS_RemoveElement
<1>1. ASSUME bad # {}
      PROVE  FALSE
  <2>1. PICK m \in bad : \A k \in bad : m <= k
    BY <1>1, LeastOf
  <2>2. CASE m = 0
    <3>1. ASSUME NEW s \in Small(0)
          PROVE  s = {}
      <4>1. s \in SUBSET S /\ Cardinality(s) <= 0
        OBVIOUS
      <4>2. IsFiniteSet(s) /\ Cardinality(s) \in Nat
        BY <1>0, <4>1, FS_Subset
      <4> HIDE DEF Small, Upto, bad
      <4> QED
        BY <4>1, <4>2, FS_EmptySet
    <3>2. Upto(0, [s \in Small(0) |-> 0])
      BY <3>1
    <3> QED
      BY <2>2, <3>2
  <2>3. CASE m # 0
    <3>1. m - 1 \in Nat /\ m - 1 \notin bad
      <4>1. m \in Nat
        OBVIOUS
      <4> HIDE DEF bad
      <4> QED
        BY <2>1, <2>3, <4>1
    <3>2. PICK g : Upto(m - 1, g)
      BY <3>1
    <3> DEFINE h == [s \in Small(m) |->
                       IF s = {} THEN 0 ELSE f[Chosen(s)] + g[s \ {Chosen(s)}]]
    <3>3. ASSUME NEW s \in Small(m), s # {}
          PROVE  h[s \ {Chosen(s)}] = g[s \ {Chosen(s)}]
      <4>1. s \ {Chosen(s)} \in Small(m - 1) /\ s \ {Chosen(s)} \in Small(m)
        BY <1>0, <3>1, <3>3
      <4> QED
        BY <3>2, <4>1
    <3>4. Upto(m, h)
      BY <3>3
    <3> QED
      BY <3>4
  <2> QED
    BY <2>2, <2>3
<1>2. PICK g : Upto(Cardinality(S), g)
  BY <1>1, FS_CardinalityType
<1>3. Small(Cardinality(S)) = SUBSET S
  BY <1>0
<1>4. SumsUp(f, S, g)
  BY <1>2, <1>3 DEF SumsUp
<1> QED
  BY <1>4

\* Two of them agree where both are defined.
LEMMA SumsUpAgree ==
  ASSUME NEW f, NEW S, IsFiniteSet(S), NEW R \in SUBSET S,
         NEW g, SumsUp(f, S, g), NEW h, SumsUp(f, R, h)
  PROVE  \A T \in SUBSET R : g[T] = h[T]
<1> DEFINE C == {T \in SUBSET R : g[T] = h[T]}
<1>1. ASSUME NEW T \in SUBSET R, \A x \in T : T \ {x} \in C
      PROVE  T \in C
  <2>1. T # {} => Chosen(T) \in T
    BY DEF Chosen
  <2>2. g[T] = IF T = {} THEN 0 ELSE f[Chosen(T)] + g[T \ {Chosen(T)}]
    BY DEF SumsUp
  <2>3. h[T] = IF T = {} THEN 0 ELSE f[Chosen(T)] + h[T \ {Chosen(T)}]
    BY DEF SumsUp
  <2> QED
    BY <1>1, <2>1, <2>2, <2>3
<1>2. IsFiniteSet(R)
  BY FS_Subset
<1> HIDE DEF C
<1>3. \A T \in SUBSET R : T \in C
  BY <1>1, <1>2, SubsetInduction
<1> QED
  BY <1>3 DEF C

\* The sum over a set, one chosen element first.
LEMMA SumStep ==
  ASSUME NEW f, NEW S, IsFiniteSet(S)
  PROVE  SumFunctionOnSet(f, S)
           = IF S = {} THEN 0
             ELSE f[Chosen(S)] + SumFunctionOnSet(f, S \ {Chosen(S)})
<1> DEFINE R == S \ {Chosen(S)}
           g == CHOOSE g : SumsUp(f, S, g)
           h == CHOOSE h : SumsUp(f, R, h)
<1>1. R \in SUBSET S /\ IsFiniteSet(R)
  BY FS_Subset
<1>2. SumsUp(f, S, g) /\ SumsUp(f, R, h)
  BY <1>1, SumsUpExists
<1> HIDE DEF g, h
<1>3. g[R] = h[R]
  <2>1. R \in SUBSET R
    OBVIOUS
  <2> HIDE DEF R
  <2> QED
    BY <1>1, <1>2, <2>1, SumsUpAgree
<1>4. g[S] = IF S = {} THEN 0 ELSE f[Chosen(S)] + g[R]
  BY <1>2 DEF SumsUp
<1>5. SumFunctionOnSet(f, S) = g[S] /\ SumFunctionOnSet(f, R) = h[R]
  BY SumUnfolded DEF g, h
<1> QED
  BY <1>3, <1>4, <1>5

\* The same for the subsets of a finite set.
LEMMA SumCases ==
  ASSUME NEW f, NEW S, IsFiniteSet(S), NEW T \in SUBSET S
  PROVE  \/ T = {} /\ SumFunctionOnSet(f, T) = 0
         \/ /\ Chosen(T) \in T
            /\ SumFunctionOnSet(f, T)
                 = f[Chosen(T)] + SumFunctionOnSet(f, T \ {Chosen(T)})
<1>1. T # {} => Chosen(T) \in T
  BY DEF Chosen
<1>2. IsFiniteSet(T)
  BY FS_Subset
<1> QED
  BY <1>1, <1>2, SumStep

\* The sum is a number when the values are.
LEMMA SumInt ==
  ASSUME NEW f, NEW S, IsFiniteSet(S), \A x \in S : f[x] \in Int
  PROVE  SumFunctionOnSet(f, S) \in Int
<1> DEFINE C == {T \in SUBSET S : SumFunctionOnSet(f, T) \in Int}
<1>1. ASSUME NEW T \in SUBSET S, \A x \in T : T \ {x} \in C
      PROVE  T \in C
  <2>1. \/ T = {} /\ SumFunctionOnSet(f, T) = 0
       \/ /\ Chosen(T) \in T
          /\ SumFunctionOnSet(f, T)
               = f[Chosen(T)] + SumFunctionOnSet(f, T \ {Chosen(T)})
    BY SumCases
  <2> QED
    BY <1>1, <2>1
<1> HIDE DEF C
<1>2. S \in C
  BY <1>1, SubsetInduction
<1> QED
  BY <1>2 DEF C

\* ... and not negative when they are not.
LEMMA SumNat ==
  ASSUME NEW f, NEW S, IsFiniteSet(S), \A x \in S : f[x] \in Nat
  PROVE  SumFunctionOnSet(f, S) \in Nat
<1> DEFINE C == {T \in SUBSET S : SumFunctionOnSet(f, T) \in Nat}
<1>1. ASSUME NEW T \in SUBSET S, \A x \in T : T \ {x} \in C
      PROVE  T \in C
  <2>1. \/ T = {} /\ SumFunctionOnSet(f, T) = 0
       \/ /\ Chosen(T) \in T
          /\ SumFunctionOnSet(f, T)
               = f[Chosen(T)] + SumFunctionOnSet(f, T \ {Chosen(T)})
    BY SumCases
  <2> QED
    BY <1>1, <2>1
<1> HIDE DEF C
<1>2. S \in C
  BY <1>1, SubsetInduction
<1> QED
  BY <1>2 DEF C

\* Functions that agree on a set have the same sum over it.
LEMMA SumSame ==
  ASSUME NEW f, NEW h, NEW S, IsFiniteSet(S), \A x \in S : f[x] = h[x]
  PROVE  SumFunctionOnSet(f, S) = SumFunctionOnSet(h, S)
<1> DEFINE C == {T \in SUBSET S : SumFunctionOnSet(f, T) = SumFunctionOnSet(h, T)}
<1>1. ASSUME NEW T \in SUBSET S, \A x \in T : T \ {x} \in C
      PROVE  T \in C
  <2>1. \/ T = {} /\ SumFunctionOnSet(f, T) = 0
       \/ /\ Chosen(T) \in T
          /\ SumFunctionOnSet(f, T)
               = f[Chosen(T)] + SumFunctionOnSet(f, T \ {Chosen(T)})
    BY SumCases
  <2>2. \/ T = {} /\ SumFunctionOnSet(h, T) = 0
       \/ /\ Chosen(T) \in T
          /\ SumFunctionOnSet(h, T)
               = h[Chosen(T)] + SumFunctionOnSet(h, T \ {Chosen(T)})
    BY SumCases
  <2> QED
    BY <1>1, <2>1, <2>2
<1> HIDE DEF C
<1>2. S \in C
  BY <1>1, SubsetInduction
<1> QED
  BY <1>2 DEF C

\* Any element may be taken out first: the order does not matter.
LEMMA SumTakeOut ==
  ASSUME NEW f, NEW S, IsFiniteSet(S), \A x \in S : f[x] \in Int, NEW x \in S
  PROVE  SumFunctionOnSet(f, S) = f[x] + SumFunctionOnSet(f, S \ {x})
<1> DEFINE Sum(T) == SumFunctionOnSet(f, T)
           C == {T \in SUBSET S : \A z \in T : Sum(T) = f[z] + Sum(T \ {z})}
<1>1. ASSUME NEW T \in SUBSET S, \A z \in T : T \ {z} \in C, NEW z \in T
      PROVE  Sum(T) = f[z] + Sum(T \ {z})
  <2> DEFINE y == Chosen(T)
  <2>1. y \in T /\ IsFiniteSet(T)
    BY FS_Subset DEF Chosen
  <2>2. Sum(T) = f[y] + Sum(T \ {y})
    BY <2>1, SumStep
  <2>3. CASE z = y
    BY <2>2, <2>3
  <2>4. CASE z # y
    <3> DEFINE R == (T \ {y}) \ {z}
    <3>1. Sum(T \ {y}) = f[z] + Sum(R)
      BY <1>1, <2>1, <2>4
    <3>2. (T \ {z}) \ {y} = R
      OBVIOUS
    <3>3. Sum(T \ {z}) = f[y] + Sum(R)
      BY <1>1, <2>1, <2>4, <3>2
    <3>4. f[y] \in Int /\ f[z] \in Int /\ Sum(R) \in Int
      <4>1. IsFiniteSet(R) /\ \A w \in R : f[w] \in Int
        BY FS_Subset
      <4> QED
        BY <2>1, <4>1, SumInt
    <3> HIDE DEF Sum, R, y
    <3> QED
      BY <2>2, <3>1, <3>3, <3>4
  <2> QED
    BY <2>3, <2>4
<1>2. \A T \in SUBSET S : (\A z \in T : T \ {z} \in C) => T \in C
  BY <1>1
<1> HIDE DEF Sum, C
<1>3. S \in C
  BY <1>2, SubsetInduction
<1> QED
  BY <1>3 DEF C, Sum

\* The sum of a function in which one value is replaced.
LEMMA SumUpdate ==
  ASSUME NEW f, NEW h, NEW S, IsFiniteSet(S), DOMAIN f = S, DOMAIN h = S,
         NEW x \in S, \A y \in S : f[y] \in Int, h[x] \in Int,
         \A y \in S \ {x} : h[y] = f[y]
  PROVE  SumFunction(h) = SumFunction(f) - f[x] + h[x]
<1>1. IsFiniteSet(S \ {x}) /\ \A y \in S : h[y] \in Int
  BY FS_RemoveElement
<1>2. SumFunctionOnSet(h, S \ {x}) = SumFunctionOnSet(f, S \ {x})
  BY <1>1, SumSame
<1>3. SumFunctionOnSet(f, S) = f[x] + SumFunctionOnSet(f, S \ {x})
  BY SumTakeOut
<1>4. SumFunctionOnSet(h, S) = h[x] + SumFunctionOnSet(h, S \ {x})
  BY <1>1, SumTakeOut
<1>5. SumFunctionOnSet(f, S \ {x}) \in Int
  BY <1>1, SumInt
<1> QED
  BY <1>2, <1>3, <1>4, <1>5 DEF SumFunction

\* The sum of a function whose domain loses an element.
LEMMA SumRemove ==
  ASSUME NEW f, NEW h, NEW S, IsFiniteSet(S), NEW x \in S,
         DOMAIN f = S, DOMAIN h = S \ {x},
         \A y \in S : f[y] \in Int, \A y \in S \ {x} : h[y] = f[y]
  PROVE  SumFunction(f) = SumFunction(h) + f[x] /\ SumFunction(h) \in Int
<1>1. IsFiniteSet(S \ {x})
  BY FS_RemoveElement
<1>2. SumFunctionOnSet(h, S \ {x}) = SumFunctionOnSet(f, S \ {x})
  BY <1>1, SumSame
<1>3. SumFunctionOnSet(f, S) = f[x] + SumFunctionOnSet(f, S \ {x})
  BY SumTakeOut
<1>4. SumFunctionOnSet(f, S \ {x}) \in Int
  BY <1>1, SumInt
<1> QED
  BY <1>2, <1>3, <1>4 DEF SumFunction

\* Nothing sums up to nothing.
LEMMA SumZero ==
  ASSUME NEW f, IsFiniteSet(DOMAIN f), \A x \in DOMAIN f : f[x] = 0
  PROVE  SumFunction(f) = 0
<1> DEFINE S == DOMAIN f
<1> HIDE DEF S
<1> DEFINE C == {T \in SUBSET S : SumFunctionOnSet(f, T) = 0}
<1>1. ASSUME NEW T \in SUBSET S, \A x \in T : T \ {x} \in C
      PROVE  T \in C
  <2>1. \/ T = {} /\ SumFunctionOnSet(f, T) = 0
       \/ /\ Chosen(T) \in T
          /\ SumFunctionOnSet(f, T)
               = f[Chosen(T)] + SumFunctionOnSet(f, T \ {Chosen(T)})
    BY SumCases DEF S
  <2> QED
    BY <1>1, <2>1 DEF S
<1> HIDE DEF C
<1>2. S \in C
  BY <1>1, SubsetInduction DEF S
<1> QED
  BY <1>2 DEF C, S, SumFunction

-----------------------------------------------------------------------------
(* The accounting.                                                         *)

\* The size of the nodes of p outside the arena, of those in it, and of all.
OutsideSize(p) == SumFunction([t \in Types |-> outside[p][t] * SizeOf(t)])
ArenaSize == SumFunction([b \in live |-> b.size])
Footprint(p) == OutsideSize(p) + (IF p = ArenaPartition THEN ArenaSize ELSE 0)
Given(t) == SumFunction([p \in PartitionIds |-> outside[p][t]])

\* A node's size is what the arena needs for it and survives the cast to i32.
LEMMA TypeSizes ==
  /\ IsFiniteSet(Types) /\ IsFiniteSet(PartitionIds)
  /\ \A t \in Types : /\ SizeOf(t) \in Nat /\ SizeOf(t) < HalfRange
                      /\ Needed(Layout(Registry[t])) = SizeOf(t)
<1>1. Types = 1..Len(Registry) /\ Len(Registry) \in Nat /\ MaxPartitions \in Nat
  BY NodeMemoryAssumption DEF Types
<1>2. IsFiniteSet(Types) /\ IsFiniteSet(PartitionIds)
  BY <1>1, FS_Interval DEF PartitionIds
<1>3. ASSUME NEW t \in Types
      PROVE  /\ SizeOf(t) \in Nat /\ SizeOf(t) < HalfRange
             /\ Needed(Layout(Registry[t])) = SizeOf(t)
  <2> DEFINE e == Registry[t]
  <2>1. e.size \in Nat /\ e.align \in Nat \ {0}
    <3>1. Registry \in Seq(Entries) /\ t \in 1..Len(Registry)
      BY <1>1, NodeMemoryAssumption DEF Registers
    <3>2. Registry[t] \in Entries
      BY <3>1
    <3> QED
      BY <3>2 DEF Entries
  <2>2. LayoutSize(e) < HalfRange
    BY NodeMemoryAssumption DEF Types, Range
  <2> HIDE DEF e
  <2>3. PayloadOffset(e) \in Nat /\ PayloadOffset(e) >= HeadSize
    BY <2>1, HeadAssumption, RoundedUp DEF PayloadOffset, RoundUp
  <2>4. LayoutAlign(e) \in Nat \ {0}
    BY <2>1, HeadAssumption DEF LayoutAlign
  <2>5. PayloadOffset(e) + e.size \in Nat
    BY <2>1, <2>3
  <2>6. LayoutSize(e) \in Nat /\ LayoutSize(e) >= PayloadOffset(e) + e.size
    BY <2>4, <2>5, RoundedUp DEF LayoutSize, RoundUp
  <2>7. LayoutSize(e) >= MinAlloc
    BY <2>1, <2>3, <2>6, HeadAssumption, NodeMemoryAssumption, ArenaAssumption
  <2>8. Needed(Layout(e)) = LayoutSize(e)
    BY <2>6, <2>7, ArenaAssumption DEF Needed, Layout
  <2> QED
    BY <2>2, <2>6, <2>8 DEF e, SizeOf
<1> QED
  BY <1>2, <1>3

\* The cast leaves a size below 2^31 as it is.
LEMMA CastKeeps ==
  ASSUME NEW size \in Nat, size < HalfRange
  PROVE  AsI32(size) = size
<1>1. size + HalfRange \in 0..(2 * HalfRange - 1) /\ HalfRange \in Nat \ {0}
  BY NodeMemoryAssumption
<1>2. (size + HalfRange) % (2 * HalfRange) = size + HalfRange
  BY <1>1
<1> QED
  BY <1>1, <1>2 DEF AsI32

\* The counters are numbers; that they are not negative follows from what they count.
Counters ==
    /\ created \in 0..MaxPartitions
    /\ outside \in [PartitionIds -> [Types -> Nat]]
    /\ mallocs \in [Types -> Int]
    /\ used \in [PartitionIds -> Int] /\ total \in Int

\* The blocks of the arena are nodes, and nodes survive the cast.
BlocksFit == \A b \in live : b.size < HalfRange

AccountInv == Counters /\ NoLeak /\ UsedExact /\ BlocksFit

\* What UsedExact and NoLeak say, with the sums named.
LEMMA Named ==
  /\ UsedExact <=> /\ \A p \in PartitionIds : used[p] = Footprint(p)
                   /\ total = SumFunction(used)
  /\ NoLeak <=> \A t \in Types : mallocs[t] = Given(t)
BY DEF UsedExact, NoLeak, Footprint, OutsideSize, ArenaSize, Given

\* The sums are natural numbers.
LEMMA SumsAreNumbers ==
  ASSUME IInv, Counters
  PROVE  /\ ArenaSize \in Nat
         /\ \A p \in PartitionIds : OutsideSize(p) \in Nat /\ Footprint(p) \in Nat
         /\ \A t \in Types : Given(t) \in Nat
<1>1. ArenaSize \in Nat
  BY SumNat DEF IInv, TypeOK, ArenaSize, SumFunction
<1>2. ASSUME NEW p \in PartitionIds
      PROVE  OutsideSize(p) \in Nat
  BY SumNat, TypeSizes DEF Counters, OutsideSize, SumFunction
<1>3. ASSUME NEW t \in Types
      PROVE  Given(t) \in Nat
  BY SumNat, TypeSizes DEF Counters, Given, SumFunction
<1> QED
  BY <1>1, <1>2, <1>3 DEF Footprint

\* update_mem_use keeps both sums exact when the nodes of p change by as much.
LEMMA Accounted ==
  ASSUME Counters, UsedExact, NEW p \in PartitionIds, NEW delta \in Int,
         UpdateMemUse(p, delta), Footprint(p)' = Footprint(p) + delta,
         \A q \in PartitionIds \ {p} : Footprint(q)' = Footprint(q)
  PROVE  UsedExact'
<1>1. used' = [used EXCEPT ![p] = used[p] + delta] /\ total' = total + delta
  BY DEF UpdateMemUse
<1>2. used \in [PartitionIds -> Int] /\ total = SumFunction(used)
  BY Named DEF Counters
<1>3. SumFunction(used') = SumFunction(used) - used[p] + used'[p]
  <2>1. /\ DOMAIN used = PartitionIds /\ DOMAIN used' = PartitionIds
        /\ \A q \in PartitionIds : used[q] \in Int
        /\ used'[p] \in Int
        /\ \A q \in PartitionIds \ {p} : used'[q] = used[q]
    BY <1>1, <1>2
  <2> QED
    BY <2>1, SumUpdate, TypeSizes
<1>4. total' = SumFunction(used')
  BY <1>1, <1>2, <1>3 DEF Counters
<1>5. \A q \in PartitionIds : used'[q] = Footprint(q)'
  BY <1>1, <1>2, Named
<1> QED
  BY <1>4, <1>5 DEF UsedExact, Footprint, OutsideSize, ArenaSize

\* One node more (d = 1) or less (d = -1) outside the arena: the size of its partition
\* and the count of its type change by it, the other sums do not.
LEMMA OutsideChanges ==
  ASSUME IInv, Counters, NoLeak,
         NEW p \in PartitionIds, NEW t \in Types, NEW d \in {1, -1},
         outside[p][t] + d \in Nat,
         outside' = [outside EXCEPT ![p][t] = outside[p][t] + d],
         mallocs' = [mallocs EXCEPT ![t] = mallocs[t] + d],
         live' = live
  PROVE  /\ outside' \in [PartitionIds -> [Types -> Nat]] /\ mallocs' \in [Types -> Int]
         /\ NoLeak'
         /\ Footprint(p)' = Footprint(p) + d * SizeOf(t)
         /\ \A q \in PartitionIds \ {p} : Footprint(q)' = Footprint(q)
<1>1. /\ outside \in [PartitionIds -> [Types -> Nat]] /\ mallocs \in [Types -> Int]
      /\ outside' \in [PartitionIds -> [Types -> Nat]] /\ mallocs' \in [Types -> Int]
  BY DEF Counters
<1>2. /\ outside'[p][t] = outside[p][t] + d
      /\ \A s \in Types \ {t} : outside'[p][s] = outside[p][s]
      /\ \A q \in PartitionIds \ {p} : outside'[q] = outside[q]
  BY <1>1
<1>3. ArenaSize' = ArenaSize
  BY DEF ArenaSize
<1>4. OutsideSize(p)' = OutsideSize(p) + d * SizeOf(t)
  <2> DEFINE f == [s \in Types |-> outside[p][s] * SizeOf(s)]
             h == [s \in Types |-> outside'[p][s] * SizeOf(s)]
  <2>1. \A s \in Types : f[s] \in Int /\ h[s] \in Int
    BY <1>1, TypeSizes
  <2>2. \A s \in Types \ {t} : h[s] = f[s]
    BY <1>2
  <2>3. h[t] = f[t] + d * SizeOf(t)
    BY <1>1, <1>2, TypeSizes
  <2>4. DOMAIN f = Types /\ DOMAIN h = Types
    OBVIOUS
  <2>5. OutsideSize(p) = SumFunction(f) /\ OutsideSize(p)' = SumFunction(h)
    BY DEF OutsideSize
  <2> HIDE DEF f, h
  <2>6. SumFunction(h) = SumFunction(f) - f[t] + h[t]
    BY <2>1, <2>2, <2>4, SumUpdate, TypeSizes
  <2>7. SumFunction(f) \in Int /\ d * SizeOf(t) \in Int
    BY <2>1, <2>4, SumInt, TypeSizes DEF SumFunction
  <2> QED
    BY <2>1, <2>3, <2>5, <2>6, <2>7
<1>5. \A q \in PartitionIds \ {p} : OutsideSize(q)' = OutsideSize(q)
  BY <1>2 DEF OutsideSize
<1>6. Given(t)' = Given(t) + d
  <2> DEFINE f == [q \in PartitionIds |-> outside[q][t]]
             h == [q \in PartitionIds |-> outside'[q][t]]
  <2>1. \A q \in PartitionIds : f[q] \in Int /\ h[q] \in Int
    BY <1>1
  <2>2. \A q \in PartitionIds \ {p} : h[q] = f[q]
    BY <1>2
  <2>3. h[p] = f[p] + d
    BY <1>2
  <2>4. DOMAIN f = PartitionIds /\ DOMAIN h = PartitionIds
    OBVIOUS
  <2>5. Given(t) = SumFunction(f) /\ Given(t)' = SumFunction(h)
    BY DEF Given
  <2> HIDE DEF f, h
  <2>6. SumFunction(h) = SumFunction(f) - f[p] + h[p]
    BY <2>1, <2>2, <2>4, SumUpdate, TypeSizes
  <2>7. SumFunction(f) \in Int
    BY <2>1, <2>4, SumInt, TypeSizes DEF SumFunction
  <2> QED
    BY <2>1, <2>3, <2>5, <2>6, <2>7
<1>7. \A s \in Types \ {t} : Given(s)' = Given(s)
  <2> SUFFICES ASSUME NEW s \in Types \ {t}
               PROVE  Given(s)' = Given(s)
    OBVIOUS
  <2>1. \A q \in PartitionIds : outside'[q][s] = outside[q][s]
    BY <1>2
  <2> QED
    BY <2>1 DEF Given
<1>8. NoLeak'
  <2>1. \A s \in Types : mallocs'[s] = Given(s)'
    BY <1>1, <1>6, <1>7, Named
  <2> QED
    BY <2>1 DEF NoLeak, Given
<1>9. Footprint(p)' = Footprint(p) + d * SizeOf(t)
  <2>1. OutsideSize(p) \in Nat /\ ArenaSize \in Nat /\ d * SizeOf(t) \in Int
    BY SumsAreNumbers, TypeSizes
  <2> QED
    BY <2>1, <1>3, <1>4 DEF Footprint
<1>10. \A q \in PartitionIds \ {p} : Footprint(q)' = Footprint(q)
  BY <1>3, <1>5 DEF Footprint
<1> QED
  BY <1>1, <1>8, <1>9, <1>10

\* A block taken from or given back to the arena changes what its partition uses by
\* its size.
LEMMA ArenaChanges ==
  ASSUME IInv, Counters, NEW b, NEW S,
         IsFiniteSet(S), \A c \in S : c.size \in Nat, b \in S,
         UNCHANGED outside
  PROVE  /\ live = S \ {b} /\ live' = S =>
              Footprint(ArenaPartition)' = Footprint(ArenaPartition) + b.size
         /\ live = S /\ live' = S \ {b} =>
              Footprint(ArenaPartition)' = Footprint(ArenaPartition) - b.size
         /\ \A q \in PartitionIds \ {ArenaPartition} : Footprint(q)' = Footprint(q)
<1>1. \A q \in PartitionIds : OutsideSize(q)' = OutsideSize(q)
  BY DEF OutsideSize
<1>2. ArenaPartition \in PartitionIds /\ b.size \in Nat
  BY NodeMemoryAssumption DEF PartitionIds
<1> DEFINE f == [c \in S |-> c.size]
           h == [c \in S \ {b} |-> c.size]
<1>3. SumFunction(f) = SumFunction(h) + f[b] /\ SumFunction(h) \in Int
  <2>1. /\ DOMAIN f = S /\ DOMAIN h = S \ {b}
        /\ \A c \in S : f[c] \in Int
        /\ \A c \in S \ {b} : h[c] = f[c]
    OBVIOUS
  <2> HIDE DEF f, h
  <2> QED
    BY <2>1, SumRemove
<1>4. f[b] = b.size
  OBVIOUS
<1>5. live = S \ {b} /\ live' = S => ArenaSize = SumFunction(h) /\ ArenaSize' = SumFunction(f)
  BY DEF ArenaSize
<1>6. live = S /\ live' = S \ {b} => ArenaSize = SumFunction(f) /\ ArenaSize' = SumFunction(h)
  BY DEF ArenaSize
<1>7. OutsideSize(ArenaPartition) \in Nat
  BY <1>2, SumsAreNumbers
<1> HIDE DEF f, h
<1> QED
  BY <1>1, <1>2, <1>3, <1>4, <1>5, <1>6, <1>7 DEF Footprint

\* A block GcArena::alloc hands out is new and has the size of the node.
LEMMA NewBlock ==
  ASSUME IInv, IInv', NEW t \in Types, Alloc(Layout(Registry[t]))
  PROVE  \E b : /\ b \in live' /\ live = live' \ {b} /\ b.size = SizeOf(t)
                /\ live' = live \union {b}
<1>1. PICK o : live' = live \union {Live(o, Layout(Registry[t]))}
  BY DEF Alloc, Bump, Reuse
<1> DEFINE b == Live(o, Layout(Registry[t]))
<1>2. b.size = SizeOf(t)
  BY TypeSizes DEF Live
<1>3. b \notin live
  <2>1. Cardinality(live') = Cardinality(live) + 1 /\ Cardinality(live) \in Nat
    BY DEF IInv, TypeOK, CountExact, Alloc
  <2> HIDE DEF b
  <2>2. b \in live => live' = live
    BY <1>1 DEF b
  <2> QED
    BY <2>1, <2>2
<1> HIDE DEF b
<1> QED
  BY <1>1, <1>2, <1>3 DEF b

\* alloc_node_mem adds the node and its size to the same partition.
LEMMA AllocAccounted ==
  ASSUME IInv, IInv', AccountInv, NEW p \in PartitionIds, NEW t \in Types,
         NEW skip_arena \in BOOLEAN, AllocNodeMem(p, t, skip_arena)
  PROVE  AccountInv'
<1>1. /\ UpdateMemUse(p, SizeOf(t)) /\ UNCHANGED created
      /\ SizeOf(t) \in Nat /\ SizeOf(t) < HalfRange
  BY TypeSizes, CastKeeps DEF AllocNodeMem
<1>2. CASE UsesArena(p, t, skip_arena)
  <2>1. /\ p = ArenaPartition /\ Alloc(Layout(Registry[t]))
        /\ UNCHANGED <<outside, mallocs>>
    BY <1>2 DEF UsesArena, AllocNodeMem
  <2>2. PICK b : /\ b \in live' /\ live = live' \ {b} /\ b.size = SizeOf(t)
                 /\ live' = live \union {b}
    BY <2>1, NewBlock
  <2>3. IsFiniteSet(live') /\ \A c \in live' : c.size \in Nat
    BY DEF IInv, TypeOK
  <2>4. /\ Footprint(p)' = Footprint(p) + SizeOf(t)
        /\ \A q \in PartitionIds \ {p} : Footprint(q)' = Footprint(q)
    BY <2>1, <2>2, <2>3, ArenaChanges DEF AccountInv
  <2>5. UsedExact'
    BY <1>1, <2>4, Accounted DEF AccountInv
  <2> QED
    BY <1>1, <2>1, <2>2, <2>5
       DEF AccountInv, Counters, NoLeak, BlocksFit, UpdateMemUse
<1>3. CASE ~UsesArena(p, t, skip_arena)
  <2>1. /\ outside' = [outside EXCEPT ![p][t] = outside[p][t] + 1]
        /\ mallocs' = [mallocs EXCEPT ![t] = mallocs[t] + 1]
        /\ live' = live
    BY <1>3 DEF AllocNodeMem, AllocOutside, arenaVars
  <2>2. outside[p][t] + 1 \in Nat
    BY DEF AccountInv, Counters
  <2>3. /\ outside' \in [PartitionIds -> [Types -> Nat]] /\ mallocs' \in [Types -> Int]
        /\ NoLeak'
        /\ Footprint(p)' = Footprint(p) + 1 * SizeOf(t)
        /\ \A q \in PartitionIds \ {p} : Footprint(q)' = Footprint(q)
    BY <2>1, <2>2, OutsideChanges DEF AccountInv
  <2>4. UsedExact'
    BY <1>1, <2>3, Accounted DEF AccountInv
  <2> QED
    BY <1>1, <2>1, <2>3, <2>4 DEF AccountInv, Counters, BlocksFit, UpdateMemUse
<1> QED
  BY <1>2, <1>3

\* A node that has memory of its own is taken off the partition that it was added to.
LEMMA DisposeOutsideAccounted ==
  ASSUME IInv, AccountInv, NEW p \in PartitionIds, NEW t \in Types, DisposeOutside(p, t)
  PROVE  AccountInv'
<1>1. /\ UpdateMemUse(p, -SizeOf(t)) /\ UNCHANGED created
      /\ SizeOf(t) \in Nat
  BY TypeSizes, CastKeeps DEF DisposeOutside
<1>2. /\ outside[p][t] \in Nat \ {0} /\ mallocs[t] \in Int
      /\ outside' = [outside EXCEPT ![p][t] = outside[p][t] - 1]
      /\ mallocs' = [mallocs EXCEPT ![t] = mallocs[t] - 1]
      /\ live' = live
  BY DEF DisposeOutside, arenaVars, AccountInv, Counters
<1>3. /\ outside[p][t] - 1 = outside[p][t] + (-1) /\ outside[p][t] + (-1) \in Nat
      /\ mallocs[t] - 1 = mallocs[t] + (-1)
  BY <1>2
<1>4. /\ outside' \in [PartitionIds -> [Types -> Nat]] /\ mallocs' \in [Types -> Int]
      /\ NoLeak'
      /\ Footprint(p)' = Footprint(p) + (-1) * SizeOf(t)
      /\ \A q \in PartitionIds \ {p} : Footprint(q)' = Footprint(q)
  BY <1>2, <1>3, OutsideChanges DEF AccountInv
<1>5. -SizeOf(t) \in Int /\ (-1) * SizeOf(t) = -SizeOf(t)
  BY <1>1
<1>6. UsedExact'
  BY <1>1, <1>4, <1>5, Accounted DEF AccountInv
<1> QED
  BY <1>1, <1>2, <1>4, <1>5, <1>6 DEF AccountInv, Counters, BlocksFit, UpdateMemUse

\* A dead node of the arena is taken off when its memory is.
LEMMA DisposeInArenaAccounted ==
  ASSUME IInv, AccountInv, NEW b \in dead, DisposeInArena(b)
  PROVE  AccountInv'
<1>1. b \in live /\ b.size \in Nat /\ live' = live \ {b}
  BY DEF IInv, TypeOK, DisposeInArena, CollectHole
<1>2. UpdateMemUse(ArenaPartition, -b.size) /\ UNCHANGED <<created, outside, mallocs>>
  BY <1>1, CastKeeps DEF DisposeInArena, AccountInv, BlocksFit
<1>3. IsFiniteSet(live) /\ \A c \in live : c.size \in Nat
  BY DEF IInv, TypeOK
<1>4. /\ Footprint(ArenaPartition)' = Footprint(ArenaPartition) - b.size
      /\ \A q \in PartitionIds \ {ArenaPartition} : Footprint(q)' = Footprint(q)
  BY <1>1, <1>2, <1>3, ArenaChanges DEF AccountInv
<1>5. ArenaPartition \in PartitionIds /\ Footprint(ArenaPartition) \in Nat
  BY NodeMemoryAssumption, SumsAreNumbers DEF PartitionIds, AccountInv
<1>6. -b.size \in Int /\ Footprint(ArenaPartition) - b.size = Footprint(ArenaPartition) + (-b.size)
  BY <1>1, <1>5
<1>7. UsedExact'
  BY <1>2, <1>4, <1>5, <1>6, Accounted DEF AccountInv
<1> QED
  BY <1>1, <1>2, <1>5, <1>6, <1>7
     DEF AccountInv, Counters, NoLeak, BlocksFit, UpdateMemUse

\* dealloc_partition subtracts in one go what its nodes added up to.
LEMMA DeallocAccounted ==
  ASSUME IInv, AccountInv, NEW p \in PartitionIds, DeallocPartition(p)
  PROVE  AccountInv'
<1>1. /\ outside \in [PartitionIds -> [Types -> Nat]] /\ mallocs \in [Types -> Int]
      /\ used \in [PartitionIds -> Int] /\ total = SumFunction(used)
  BY Named DEF AccountInv, Counters
<1>2. /\ outside' = [outside EXCEPT ![p] = [t \in Types |-> 0]]
      /\ mallocs' = [t \in Types |-> mallocs[t] - outside[p][t]]
      /\ used' = [used EXCEPT ![p] = 0] /\ total' = total - used[p]
      /\ live' = (IF p = ArenaPartition THEN {} ELSE live)
      /\ UNCHANGED created
  BY DEF DeallocPartition, ResetArena, arenaVars
<1>3. /\ outside' \in [PartitionIds -> [Types -> Nat]] /\ mallocs' \in [Types -> Int]
      /\ \A t \in Types : outside'[p][t] = 0
      /\ \A q \in PartitionIds \ {p} : outside'[q] = outside[q]
  BY <1>1, <1>2
<1>4. SumFunction(used') = SumFunction(used) - used[p] /\ SumFunction(used) \in Int
  <2>1. /\ DOMAIN used = PartitionIds /\ DOMAIN used' = PartitionIds
        /\ \A q \in PartitionIds : used[q] \in Int
        /\ used'[p] = 0
        /\ \A q \in PartitionIds \ {p} : used'[q] = used[q]
    BY <1>1, <1>2
  <2>2. SumFunction(used') = SumFunction(used) - used[p] + used'[p]
    BY <2>1, SumUpdate, TypeSizes
  <2>3. SumFunction(used) \in Int
    BY <2>1, SumInt, TypeSizes DEF SumFunction
  <2> QED
    BY <2>1, <2>2, <2>3
<1>5. OutsideSize(p)' = 0
  <2> DEFINE h == [t \in Types |-> outside'[p][t] * SizeOf(t)]
  <2>1. DOMAIN h = Types /\ \A t \in Types : h[t] = 0
    BY <1>3, TypeSizes
  <2>2. OutsideSize(p)' = SumFunction(h)
    BY DEF OutsideSize
  <2> HIDE DEF h
  <2> QED
    BY <2>1, <2>2, SumZero, TypeSizes
<1>6. p = ArenaPartition => ArenaSize' = 0
  <2> DEFINE h == [b \in live' |-> b.size]
  <2>1. p = ArenaPartition => IsFiniteSet(DOMAIN h) /\ \A b \in DOMAIN h : h[b] = 0
    BY <1>2, FS_EmptySet
  <2>2. ArenaSize' = SumFunction(h)
    BY DEF ArenaSize
  <2> HIDE DEF h
  <2> QED
    BY <2>1, <2>2, SumZero
<1>7. p # ArenaPartition => ArenaSize' = ArenaSize
  BY <1>2 DEF ArenaSize
<1>8. \A q \in PartitionIds \ {p} : OutsideSize(q)' = OutsideSize(q)
  BY <1>3 DEF OutsideSize
<1>9. \A q \in PartitionIds : used'[q] = Footprint(q)'
  BY <1>1, <1>2, <1>5, <1>6, <1>7, <1>8, Named DEF AccountInv, Footprint
<1>10. UsedExact'
  BY <1>1, <1>2, <1>4, <1>9 DEF UsedExact, Footprint, OutsideSize, ArenaSize
<1>11. ASSUME NEW t \in Types
       PROVE  Given(t)' = Given(t) - outside[p][t]
  <2> DEFINE f == [q \in PartitionIds |-> outside[q][t]]
             h == [q \in PartitionIds |-> outside'[q][t]]
  <2>1. \A q \in PartitionIds : f[q] \in Int /\ h[q] \in Int
    BY <1>1, <1>3
  <2>2. \A q \in PartitionIds \ {p} : h[q] = f[q]
    BY <1>3
  <2>3. h[p] = 0 /\ f[p] = outside[p][t]
    BY <1>3
  <2>4. DOMAIN f = PartitionIds /\ DOMAIN h = PartitionIds
    OBVIOUS
  <2>5. Given(t) = SumFunction(f) /\ Given(t)' = SumFunction(h)
    BY DEF Given
  <2> HIDE DEF f, h
  <2>6. SumFunction(h) = SumFunction(f) - f[p] + h[p]
    BY <2>1, <2>2, <2>4, SumUpdate, TypeSizes
  <2>7. SumFunction(f) \in Int
    BY <2>1, <2>4, SumInt, TypeSizes DEF SumFunction
  <2> QED
    BY <2>1, <2>3, <2>5, <2>6, <2>7
<1>12. NoLeak'
  <2>1. \A t \in Types : mallocs'[t] = Given(t)'
    BY <1>2, <1>11, Named DEF AccountInv
  <2> QED
    BY <2>1 DEF NoLeak, Given
<1>13. Counters' /\ BlocksFit'
  BY <1>1, <1>2, <1>3, <1>4 DEF AccountInv, Counters, BlocksFit
<1> QED
  BY <1>10, <1>12, <1>13 DEF AccountInv

\* What moves no node and touches no counter.
LEMMA AccountStays ==
  ASSUME AccountInv, created' \in 0..MaxPartitions,
         UNCHANGED <<live, outside, mallocs, used, total>>
  PROVE  AccountInv'
BY DEF AccountInv, Counters, NoLeak, UsedExact, BlocksFit

\* Every operation on nodes keeps the accounts.
LEMMA AccountStep ==
  ASSUME IInv, AccountInv, [MemNext]_memVars
  PROVE  AccountInv'
<1>1. IInv'
  BY ArenaStep, NextIInv
<1>2. created \in 0..MaxPartitions /\ MaxPartitions \in Nat
  BY NodeMemoryAssumption DEF AccountInv, Counters
<1>3. CASE CreatePartition
  <2>1. created' \in 0..MaxPartitions
    BY <1>2, <1>3 DEF CreatePartition
  <2> QED
    BY <1>3, <2>1, AccountStays DEF CreatePartition, arenaVars
<1>4. CASE EndSweep \/ (\E D \in SUBSET live : StartSweep(D))
  BY <1>2, <1>4, AccountStays DEF EndSweep, FinishSweep, StartSweep, BeginSweep
<1>5. ASSUME NEW l \in Limits, SetMemoryLimit(l)
      PROVE  AccountInv'
  BY <1>2, <1>5, AccountStays DEF SetMemoryLimit, arenaVars
<1>6. ASSUME NEW t \in Thresholds, SetGcThreshold(t)
      PROVE  AccountInv'
  BY <1>2, <1>6, AccountStays DEF SetGcThreshold, arenaVars
<1>7. CASE UNCHANGED memVars
  BY <1>2, <1>7, AccountStays DEF memVars
<1> QED
  BY <1>1, <1>3, <1>4, <1>5, <1>6, <1>7, AllocAccounted, DisposeOutsideAccounted,
     DisposeInArenaAccounted, DeallocAccounted
  DEF MemNext

\* Of no nodes, nothing is used.
LEMMA InitAccount ==
  ASSUME MemInit
  PROVE  AccountInv
<1>1. Counters /\ BlocksFit
  BY NodeMemoryAssumption DEF MemInit, Init, Counters, BlocksFit
<1>2. ASSUME NEW p \in PartitionIds
      PROVE  OutsideSize(p) = 0
  <2> DEFINE h == [t \in Types |-> outside[p][t] * SizeOf(t)]
  <2>1. DOMAIN h = Types /\ \A t \in Types : h[t] = 0
    BY TypeSizes DEF MemInit
  <2>2. OutsideSize(p) = SumFunction(h)
    BY DEF OutsideSize
  <2> HIDE DEF h
  <2> QED
    BY <2>1, <2>2, SumZero, TypeSizes
<1>3. ArenaSize = 0
  <2> DEFINE h == [b \in live |-> b.size]
  <2>1. IsFiniteSet(DOMAIN h) /\ \A b \in DOMAIN h : h[b] = 0
    BY FS_EmptySet DEF MemInit, Init
  <2>2. ArenaSize = SumFunction(h)
    BY DEF ArenaSize
  <2> HIDE DEF h
  <2> QED
    BY <2>1, <2>2, SumZero
<1>4. total = SumFunction(used)
  <2>1. DOMAIN used = PartitionIds /\ \A p \in PartitionIds : used[p] = 0
    BY DEF MemInit
  <2> QED
    BY <2>1, SumZero, TypeSizes DEF MemInit
<1>5. ASSUME NEW t \in Types
      PROVE  Given(t) = 0
  <2> DEFINE h == [p \in PartitionIds |-> outside[p][t]]
  <2>1. DOMAIN h = PartitionIds /\ \A p \in PartitionIds : h[p] = 0
    BY DEF MemInit
  <2>2. Given(t) = SumFunction(h)
    BY DEF Given
  <2> HIDE DEF h
  <2> QED
    BY <2>1, <2>2, SumZero, TypeSizes
<1> QED
  BY <1>1, <1>2, <1>3, <1>4, <1>5, Named DEF AccountInv, MemInit, Footprint

\* The accounts are exact whatever the host allocates and frees.
LEMMA AccountSafety == MemSpec => [](IInv /\ AccountInv)
<1>1. MemInit => IInv /\ AccountInv
  BY InitIInv, InitAccount DEF MemInit
<1>2. IInv /\ AccountInv /\ [MemNext]_memVars => (IInv /\ AccountInv)'
  BY ArenaStep, NextIInv, AccountStep
<1> QED
  BY <1>1, <1>2, PTL DEF MemSpec

\* memory_used is, per partition and for the heap, exactly the size of the nodes there
\* are: sweep_dispose subtracts node by node and dealloc_partition a whole sum, and
\* neither misses a node or counts one twice, for any registry and any order of calls.
THEOREM AccountingExact == MemSpec => []UsedExact
<1>1. AccountInv => UsedExact
  BY DEF AccountInv
<1> QED
  BY <1>1, AccountSafety, PTL

\* Every block alloc_node_mem got from the system goes back when its node does.
THEOREM NothingLeaks == MemSpec => []NoLeak
<1>1. AccountInv => NoLeak
  BY DEF AccountInv
<1> QED
  BY <1>1, AccountSafety, PTL

\* No counter of update_mem_use goes below zero: each is a sum of sizes.
LEMMA CountersNotNegative ==
  ASSUME IInv, AccountInv
  PROVE  /\ mallocs \in [Types -> Nat]
         /\ used \in [PartitionIds -> Nat] /\ total \in Nat
<1>1. mallocs \in [Types -> Nat] /\ used \in [PartitionIds -> Nat]
  BY Named, SumsAreNumbers DEF AccountInv, Counters
<1>2. total = SumFunction(used)
  BY Named DEF AccountInv
<1>3. total \in Nat
  <2>1. DOMAIN used = PartitionIds /\ \A p \in PartitionIds : used[p] \in Nat
    BY <1>1
  <2> QED
    BY <1>2, <2>1, SumNat, TypeSizes DEF SumFunction
<1> QED
  BY <1>1, <1>3

\* The underflow that update_mem_use asserts against cannot happen.
THEOREM NoUnderflow == MemSpec => []MemTypeOK
<1>1. MemInit => LimitInv
  BY DEF MemInit, LimitInv, ThresholdFits
<1>2. IInv /\ LimitInv /\ [MemNext]_memVars => LimitInv'
  BY LimitStep
<1>3. IInv /\ AccountInv /\ LimitInv => MemTypeOK
  BY CountersNotNegative DEF MemTypeOK, LimitInv, AccountInv, Counters
<1> QED
  BY <1>1, <1>2, <1>3, AccountSafety, PTL DEF MemSpec

\* Accounting can only move the total down or, in alloc_node_mem, up to the limit.
LEMMA WithinLimitStep ==
  ASSUME IInv, AccountInv, LimitInv, WithinLimit, [MemNext]_memVars
  PROVE  WithinLimit'
<1>1. total \in Nat /\ limit \in Nat /\ used \in [PartitionIds -> Nat]
  BY CountersNotNegative DEF LimitInv
<1>2. ASSUME NEW p \in PartitionIds, NEW t \in Types, NEW skip_arena \in BOOLEAN,
             AllocNodeMem(p, t, skip_arena)
      PROVE  WithinLimit'
  <2>1. total' = total + SizeOf(t) /\ limit' = limit /\ FitsLimit(t)
    BY <1>2, TypeSizes, CastKeeps DEF AllocNodeMem, UpdateMemUse
  <2> QED
    BY <2>1 DEF WithinLimit, FitsLimit
<1>3. ASSUME NEW p \in PartitionIds, NEW t \in Types, DisposeOutside(p, t)
      PROVE  WithinLimit'
  <2>1. total' = total + (-SizeOf(t)) /\ limit' = limit /\ SizeOf(t) \in Nat
    BY <1>3, TypeSizes, CastKeeps DEF DisposeOutside, UpdateMemUse
  <2> QED
    BY <1>1, <2>1 DEF WithinLimit
<1>4. ASSUME NEW b \in dead, DisposeInArena(b)
      PROVE  WithinLimit'
  <2>1. b \in live /\ b.size \in Nat
    BY DEF IInv, TypeOK
  <2>2. total' = total + (-b.size) /\ limit' = limit
    BY <1>4, <2>1, CastKeeps DEF DisposeInArena, UpdateMemUse, AccountInv, BlocksFit
  <2> QED
    BY <1>1, <2>1, <2>2 DEF WithinLimit
<1>5. ASSUME NEW p \in PartitionIds, DeallocPartition(p)
      PROVE  WithinLimit'
  <2>1. total' = total - used[p] /\ limit' = limit /\ used[p] \in Nat
    BY <1>1, <1>5 DEF DeallocPartition
  <2> QED
    BY <1>1, <2>1 DEF WithinLimit
<1>6. ASSUME NEW l \in Limits, SetMemoryLimit(l)
      PROVE  WithinLimit'
  <2>1. l \in Nat
    BY NodeMemoryAssumption
  <2> QED
    BY <1>1, <1>6, <2>1 DEF SetMemoryLimit, Applied, AtLeast, WithinLimit
<1>7. CASE \/ CreatePartition \/ EndSweep \/ (\E D \in SUBSET live : StartSweep(D))
           \/ (\E t \in Thresholds : SetGcThreshold(t)) \/ UNCHANGED memVars
  BY <1>7 DEF CreatePartition, EndSweep, StartSweep, SetGcThreshold, memVars, WithinLimit
<1> QED
  BY <1>2, <1>3, <1>4, <1>5, <1>6, <1>7 DEF MemNext

\* A memory limit holds whatever the order of allocations, disposals and changes of
\* the limit: nothing but alloc_node_mem adds, and it checks first.
THEOREM LimitHolds == MemSpec => []WithinLimit
<1>1. MemInit => LimitInv /\ WithinLimit
  BY DEF MemInit, LimitInv, ThresholdFits, WithinLimit
<1>2. IInv /\ LimitInv /\ [MemNext]_memVars => LimitInv'
  BY LimitStep
<1>3. IInv /\ AccountInv /\ LimitInv /\ WithinLimit /\ [MemNext]_memVars => WithinLimit'
  BY WithinLimitStep
<1> QED
  BY <1>1, <1>2, <1>3, AccountSafety, PTL DEF MemSpec
=============================================================================
