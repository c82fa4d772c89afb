--------------------------- MODULE NodeLinksProofs ---------------------------
(***************************************************************************)
(* Theorems about the chains: in every reachable state, between two rounds *)
(* of any loop too, each node that is not free is in one list and once, no *)
(* link of freed memory was read, the nodes of a list keep their order,    *)
(* and payloads are dropped each once and, outside sweep_drop_payloads,    *)
(* pass by pass.                                                           *)
(*                                                                         *)
(* A list is not in the state: it is what a walk along the links meets.    *)
(* The inductive invariant says that there is a layout: for each node the  *)
(* list it is in and its rank there, such that every link and every head   *)
(* leads to the node of the next rank.  That a walk meets the nodes of a   *)
(* list in the order of their ranks is proved once, of any layout, by      *)
(* induction on what is left to walk; every step is then an operation on   *)
(* layouts.                                                                *)
(***************************************************************************)
EXTENDS NodeLinks, FiniteInduction

-----------------------------------------------------------------------------
(* The passes: every pass that some type uses comes once, in order.        *)

\* Of the passes there is at least one, each type's is among them, and they ascend.
LEMMA PassesEnumerate ==
  /\ Len(Passes) \in Nat \ {0} /\ DOMAIN Passes = 1..Len(Passes)
  /\ \A i \in 1..Len(Passes) : Passes[i] \in Nat
  /\ \A i, j \in 1..Len(Passes) : i < j => Passes[i] < Passes[j]
  /\ \A n \in Nodes : DropPass(n) \in Nat /\ \E i \in 1..Len(Passes) : Passes[i] = DropPass(n)
<1> DEFINE used == {PassOf(Registry[i]) : i \in DOMAIN Registry}
           k == Cardinality(used)
<1>1. Registry \in Seq(Entries) /\ Registry # <<>> /\ Parses(Registry)
  BY LinksAssumption DEF Registers
<1>2. Len(Registry) \in Nat \ {0} /\ DOMAIN Registry = 1..Len(Registry)
  BY <1>1
<1>3. ASSUME NEW i \in DOMAIN Registry
      PROVE  PassOf(Registry[i]) \in 0..LastPass
  <2>1. LastPass \in Nat /\ Registry[i].pass \in (0..LastPass) \union {Omitted}
    BY <1>1, RegistryAssumption DEF Parses
  <2> QED
    BY <2>1 DEF PassOf
<1>4. used \in SUBSET Nat /\ IsFiniteSet(used) /\ used # {}
  <2>1. used \subseteq 0..LastPass /\ LastPass \in Nat
    BY <1>3, RegistryAssumption
  <2>2. used # {}
    BY <1>2
  <2>3. IsFiniteSet(0..LastPass)
    BY <2>1, FS_Interval
  <2>4. IsFiniteSet(used)
    BY <2>1, <2>3, FS_Subset
  <2> QED
    BY <2>1, <2>2, <2>4
<1>5. k \in Nat \ {0}
  BY <1>4, FS_CardinalityType, FS_EmptySet
<1>6. Passes \in Enumerations(used)
  <2>1. Passes = CHOOSE s \in [1..k -> used] : Increasing(s)
    BY DEF Passes, DropPasses, Ascending, Increasing
  <2>2. \E s \in [1..k -> used] : Increasing(s)
    BY <1>4, Enumerable DEF Enumerations
  <2> HIDE DEF used
  <2> QED
    BY <2>1, <2>2 DEF Enumerations
<1>7. Passes \in [1..k -> used] /\ Increasing(Passes)
  BY <1>6 DEF Enumerations
<1>8. Len(Passes) = k
  <2> HIDE DEF used, k
  <2>1. Passes \in Seq(used)
    BY <1>5, <1>7
  <2> QED
    BY <1>5, <1>7, <2>1
<1>9. ASSUME NEW n \in Nodes
      PROVE  DropPass(n) \in Nat /\ \E i \in 1..k : Passes[i] = DropPass(n)
  <2>1. DropPass(n) \in used
    BY LinksAssumption DEF DropPass
  <2> HIDE DEF used
  <2> QED
    BY <1>4, <1>6, <2>1, EnumeratesAll DEF k
<1> QED
  <2> HIDE DEF used, k
  <2> QED
    BY <1>4, <1>5, <1>7, <1>8, <1>9 DEF Increasing

-----------------------------------------------------------------------------
(* Walks.  The layout of the chains: each node that is not free is in one  *)
(* list, at a place in it, and every link leads to the next place.         *)

Links == MaybeNode \union {Garbage}

\* One more node than the function w goes.
WalkFurther(nx, w, k) ==
    [n \in Links |-> IF k = 0 \/ n = None THEN <<>>
                     ELSE <<n>> \o (IF n \in Nodes THEN w[k - 1][nx[n]] ELSE <<>>)]
Walks(nx, w) == w = [k \in Nat |-> WalkFurther(nx, w, k)]
WalkBy(nx) == CHOOSE w : Walks(nx, w)

\* The definition of WalkUpTo defines a function on all of Nat.
LEMMA WalksExist ==
  ASSUME NEW nx
  PROVE  Walks(nx, WalkBy(nx))
<1> DEFINE Upto(m, w) == w = [k \in 0..m |-> WalkFurther(nx, w, k)]
           bad == {m \in Nat : \A w : ~Upto(m, w)}
<1>1. ASSUME NEW w, NEW v, NEW k, k \in Nat \ {0} => w[k - 1] = v[k - 1], k \in Nat
      PROVE  WalkFurther(nx, w, k) = WalkFurther(nx, v, k)
  <2>1. CASE k = 0
    BY <2>1 DEF WalkFurther
  <2>2. CASE k # 0
    BY <1>1, <2>2 DEF WalkFurther
  <2> QED
    BY <2>1, <2>2
<1>2. ASSUME bad # {}
      PROVE  FALSE
  <2>1. PICK m \in bad : \A k \in bad : m <= k
    BY <1>2, LeastOf
  <2>2. m \in Nat
    OBVIOUS
  <2>3. PICK v : m = 0 \/ Upto(m - 1, v)
    <3>1. m # 0 => m - 1 \in Nat /\ m - 1 \notin bad
      <4> HIDE DEF bad
      <4> QED
        BY <2>1, <2>2
    <3> QED
      BY <3>1
  <2> DEFINE w == [k \in 0..m |-> WalkFurther(nx, v, k)]
  <2>4. ASSUME NEW k \in 0..m
        PROVE  WalkFurther(nx, v, k) = WalkFurther(nx, w, k)
    <3>1. k \in Nat
      BY <2>2
    <3>2. ASSUME k # 0 PROVE w[k - 1] = v[k - 1]
      <4>1. k - 1 \in 0..m /\ k - 1 \in 0..(m - 1) /\ m # 0
        BY <2>2, <3>2
      <4>2. v[k - 1] = WalkFurther(nx, v, k - 1)
        BY <2>3, <4>1
      <4> QED
        BY <4>1, <4>2
    <3> HIDE DEF w
    <3> QED
      BY <1>1, <3>1, <3>2
  <2>5. Upto(m, w)
    <3> DEFINE u == w
    <3>1. u = [k \in 0..m |-> WalkFurther(nx, u, k)]
      BY <2>4
    <3> QED
      BY <3>1
  <2> QED
    BY <2>1, <2>5
<1>3. ASSUME NEW m \in Nat, NEW w, NEW i \in Nat, NEW v, Upto(m, w), Upto(i, v), m <= i
      PROVE  \A k \in 0..m : w[k] = v[k]
  <2> DEFINE off == {k \in 0..m : w[k] # v[k]}
  <2>1. SUFFICES ASSUME off # {} PROVE FALSE
    OBVIOUS
  <2>2. PICK k \in off : \A j \in off : k <= j
    <3>1. off \in SUBSET Nat
      OBVIOUS
    <3> HIDE DEF off
    <3> QED
      BY <2>1, <3>1, LeastOf
  <2>3. k \in 0..m /\ k \in 0..i /\ k \in Nat
    BY <1>3
  <2>4. w[k] = WalkFurther(nx, w, k) /\ v[k] = WalkFurther(nx, v, k)
    BY <1>3, <2>3
  <2>5. ASSUME k # 0 PROVE w[k - 1] = v[k - 1]
    <3>1. k - 1 \in 0..m /\ ~(k <= k - 1)
      BY <2>3, <2>5
    <3>2. k - 1 \notin off
      <4> HIDE DEF off
      <4> QED
        BY <2>2, <3>1
    <3> QED
      BY <3>1, <3>2
  <2> QED
    BY <1>1, <2>3, <2>4, <2>5
<1> DEFINE Full(m) == CHOOSE w : Upto(m, w)
           all == [k \in Nat |-> Full(k)[k]]
<1>4. ASSUME NEW m \in Nat
      PROVE  Upto(m, Full(m))
  <2>1. \E w : Upto(m, w)
    BY <1>2
  <2> QED
    BY <2>1
<1> HIDE DEF Full
<1>5. ASSUME NEW k \in Nat
      PROVE  all[k] = WalkFurther(nx, all, k)
  <2>1. Full(k)[k] = WalkFurther(nx, Full(k), k)
    <3>1. k \in 0..k
      OBVIOUS
    <3>2. Full(k) = [j \in 0..k |-> WalkFurther(nx, Full(k), j)]
      BY <1>4
    <3> QED
      BY <3>1, <3>2
  <2>2. ASSUME k # 0 PROVE all[k - 1] = Full(k)[k - 1]
    <3>1. k - 1 \in Nat /\ k - 1 \in 0..(k - 1) /\ k - 1 <= k
      BY <2>2
    <3>2. all[k - 1] = Full(k - 1)[k - 1]
      BY <3>1
    <3>3. Upto(k - 1, Full(k - 1)) /\ Upto(k, Full(k))
      BY <1>4, <3>1
    <3> HIDE DEF Upto, all
    <3> QED
      BY <1>3, <3>1, <3>2, <3>3
  <2>3. WalkFurther(nx, all, k) = WalkFurther(nx, Full(k), k)
    <3> HIDE DEF all
    <3> QED
      BY <1>1, <2>2
  <2> QED
    BY <2>1, <2>3
<1>6. Walks(nx, all)
  <2> DEFINE u == all
  <2>1. u = [k \in Nat |-> WalkFurther(nx, u, k)]
    BY <1>5
  <2> QED
    BY <2>1 DEF Walks
<1> QED
  BY <1>6 DEF WalkBy

\* The definition in NodeLinks, for the links of now and of the next state.
LEMMA WalkIs ==
  ASSUME NEW n
  PROVE  /\ Walk(n) = WalkBy(next)[Cardinality(Nodes) + 1][n]
         /\ Walk(n)' = WalkBy(next')[Cardinality(Nodes) + 1][n]
<1>1. WalkUpTo = WalkBy(next)
  BY DEF WalkUpTo, WalkBy, Walks, WalkFurther, Links
<1>2. WalkUpTo' = WalkBy(next')
  BY DEF WalkUpTo, WalkBy, Walks, WalkFurther, Links
<1> QED
  BY <1>1, <1>2 DEF Walk

\* Of the nodes in S, x is the first; None is, of no nodes.
FirstOf(x, S, rank) ==
    /\ x = None => S = {}
    /\ x # None => x \in S /\ \A m \in S : rank[x] <= rank[m]

In(U, at, l) == {n \in U : at[n] = l}
Beyond(U, at, rank, n) == {m \in U : at[m] = at[n] /\ rank[n] < rank[m]}

\* U: the nodes that are not free; nx: the links; hd: the heads of the lists;
\* at: the list each node is in; rank: its place there.
Laid(U, nx, hd, at, rank) ==
    /\ \A m, n \in U : at[m] = at[n] /\ rank[m] = rank[n] => m = n
    /\ \A n \in U : FirstOf(nx[n], Beyond(U, at, rank, n), rank)
    /\ \A l \in ListNames : FirstOf(hd[l], In(U, at, l), rank)

\* s has the nodes of S, in the order of their ranks.
Climbs(s, S, rank) ==
    /\ s \in Seq(S)
    /\ \A n \in S : \E i \in 1..Len(s) : s[i] = n
    /\ \A i, j \in 1..Len(s) : i < j => rank[s[i]] < rank[s[j]]

\* The walk from a node goes up the ranks of its list, to the last.
LEMMA WalkClimbs ==
  ASSUME NEW U \in SUBSET Nodes, NEW nx \in [Nodes -> Links], NEW hd,
         NEW at, NEW rank \in [Nodes -> Int], Laid(U, nx, hd, at, rank),
         NEW n \in U, NEW k \in Nat,
         Cardinality({m \in U : at[m] = at[n] /\ rank[n] <= rank[m]}) <= k
  PROVE  Climbs(WalkBy(nx)[k][n], {m \in U : at[m] = at[n] /\ rank[n] <= rank[m]}, rank)
<1> DEFINE From(x) == {m \in U : at[m] = at[x] /\ rank[x] <= rank[m]}
           w == WalkBy(nx)
           bad == {i \in Nat : \E x \in U : /\ Cardinality(From(x)) <= i
                                            /\ ~Climbs(w[i][x], From(x), rank)}
<1>0. IsFiniteSet(U) /\ None \notin U /\ U \subseteq Nodes
  BY LinksAssumption, FS_Subset
<1>1. \A i \in Nat : w[i] = WalkFurther(nx, w, i)
  <2>1. Walks(nx, w)
    BY WalksExist
  <2> HIDE DEF w
  <2> QED
    BY <2>1 DEF Walks
<1> HIDE DEF w
<1>2. ASSUME bad # {}
      PROVE  FALSE
  <2>1. PICK i \in bad : \A j \in bad : i <= j
    BY <1>2, LeastOf
  <2>2. i \in Nat
    OBVIOUS
  <2>3. PICK x \in U : Cardinality(From(x)) <= i /\ ~Climbs(w[i][x], From(x), rank)
    OBVIOUS
  <2> DEFINE t == IF nx[x] = None THEN <<>> ELSE w[i - 1][nx[x]]
             S == IF nx[x] = None THEN {} ELSE From(nx[x])
  <2>4. x \in Nodes /\ x \in From(x) /\ rank[x] \in Int
    BY <1>0
  <2>5. IsFiniteSet(From(x))
    BY <1>0, FS_Subset
  <2>6. i - 1 \in Nat /\ Cardinality(From(x) \ {x}) <= i - 1
    <3>1. Cardinality(From(x)) \in Nat /\ Cardinality(From(x)) # 0
      BY <2>4, <2>5, FS_CardinalityType, FS_EmptySet
    <3>2. Cardinality(From(x) \ {x}) = Cardinality(From(x)) - 1
      BY <2>4, <2>5, FS_RemoveElement
    <3> HIDE DEF From
    <3> QED
      BY <2>2, <2>3, <3>1, <3>2
  <2>7. Beyond(U, at, rank, x) = From(x) \ {x}
    <3>1. \A m \in U : rank[m] \in Int
      BY <1>0
    <3> QED
      BY <3>1, <2>4 DEF Beyond, Laid
  <2>8. FirstOf(nx[x], From(x) \ {x}, rank)
    BY <2>7 DEF Laid
  <2>9. S = From(x) \ {x} /\ (nx[x] # None => nx[x] \in U)
    <3>1. CASE nx[x] = None
      BY <2>8, <3>1 DEF FirstOf
    <3>2. CASE nx[x] # None
      <4>1. nx[x] \in U /\ at[nx[x]] = at[x] /\ rank[x] <= rank[nx[x]] /\ nx[x] # x
        BY <2>8, <3>2 DEF FirstOf
      <4>2. \A m \in From(x) \ {x} : rank[nx[x]] <= rank[m]
        BY <2>8, <3>2 DEF FirstOf
      <4>3. \A m \in U : rank[m] \in Int
        BY <1>0
      <4>4. \A m \in U : m \in From(nx[x]) <=> m \in From(x) \ {x}
        <5> SUFFICES ASSUME NEW m \in U
                     PROVE  m \in From(nx[x]) <=> m \in From(x) \ {x}
          OBVIOUS
        <5>1. ASSUME m \in From(nx[x]) PROVE m \in From(x) \ {x}
          <6>1. rank[x] < rank[nx[x]]
            BY <2>4, <4>1, <4>3 DEF Laid
          <6> QED
            BY <2>4, <4>1, <4>3, <5>1, <6>1
        <5>2. ASSUME m \in From(x) \ {x} PROVE m \in From(nx[x])
          BY <4>1, <4>2, <5>2
        <5> QED
          BY <5>1, <5>2
      <4>5. From(nx[x]) \subseteq U /\ From(x) \subseteq U /\ S = From(nx[x])
        BY <3>2
      <4> HIDE DEF From, S
      <4> QED
        BY <3>2, <4>1, <4>4, <4>5
    <3> QED
      BY <3>1, <3>2
  <2>10. Climbs(t, S, rank)
    <3>1. CASE nx[x] = None
      BY <3>1 DEF Climbs
    <3>2. CASE nx[x] # None
      <4>1. i - 1 \notin bad
        <5> HIDE DEF bad
        <5> QED
          BY <2>1, <2>2, <2>6
      <4>2. nx[x] \in U /\ Cardinality(From(nx[x])) <= i - 1
        BY <2>6, <2>9, <3>2
      <4> HIDE DEF From
      <4> QED
        BY <2>6, <3>2, <4>1, <4>2
    <3> QED
      BY <3>1, <3>2
  <2>11. w[i][x] = <<x>> \o t
    <3>1. i # 0 /\ x \in Links /\ x # None
      BY <1>0, <2>2, <2>6 DEF Links, MaybeNode
    <3>2. w[i][x] = <<x>> \o w[i - 1][nx[x]]
      BY <1>1, <2>2, <2>4, <3>1 DEF WalkFurther
    <3>3. w[i - 1][None] = <<>>
      <4>1. None \in Links
        BY DEF Links, MaybeNode
      <4>2. w[i - 1] = WalkFurther(nx, w, i - 1)
        BY <1>1, <2>6
      <4> QED
        BY <4>1, <4>2 DEF WalkFurther
    <3> QED
      BY <3>2, <3>3
  <2>12. Climbs(<<x>> \o t, From(x), rank)
    <3> DEFINE s == <<x>> \o t
    <3>1. t \in Seq(From(x)) /\ x \in From(x) /\ Len(t) \in Nat
      <4>1. t \in Seq(S) /\ S \subseteq From(x)
        BY <2>9, <2>10 DEF Climbs
      <4> HIDE DEF t, S, From
      <4> QED
        BY <2>4, <4>1
    <3> HIDE DEF t, From, S
    <3>2. s \in Seq(From(x)) /\ Len(s) = Len(t) + 1 /\ s[1] = x
      BY <3>1
    <3>3. \A j \in 1..Len(t) : s[j + 1] = t[j]
      BY <3>1
    <3>4. ASSUME NEW m \in From(x)
          PROVE  \E j \in 1..Len(s) : s[j] = m
      <4>1. CASE m = x
        BY <3>1, <3>2, <4>1
      <4>2. CASE m # x
        <5>1. PICK j \in 1..Len(t) : t[j] = m
          BY <2>9, <2>10, <4>2 DEF Climbs
        <5>2. j + 1 \in 1..Len(s) /\ s[j + 1] = m
          BY <3>1, <3>2, <3>3, <5>1
        <5> QED
          BY <5>2
      <4> QED
        BY <4>1, <4>2
    <3>5. ASSUME NEW p \in 1..Len(s), NEW q \in 1..Len(s), p < q
          PROVE  rank[s[p]] < rank[s[q]]
      <4>1. q - 1 \in 1..Len(t) /\ s[q] = t[q - 1]
        <5>1. q - 1 \in 1..Len(t) /\ (q - 1) + 1 = q
          BY <3>1, <3>2, <3>5
        <5> HIDE DEF s
        <5> QED
          BY <3>3, <5>1
      <4>2. CASE p = 1
        <5>1. s[q] \in S
          BY <2>10, <4>1 DEF Climbs
        <5>2. s[q] \in From(x) /\ s[q] # x
          BY <2>9, <5>1
        <5>3. rank[x] < rank[s[q]]
          <6>1. s[q] \in U /\ s[q] \in Nodes /\ rank[x] <= rank[s[q]] /\ at[s[q]] = at[x]
            BY <1>0, <5>2 DEF From
          <6>2. rank[x] # rank[s[q]]
            BY <5>2, <6>1 DEF Laid
          <6>3. rank[s[q]] \in Int
            BY <6>1
          <6> QED
            BY <2>4, <6>1, <6>2, <6>3
        <5> QED
          BY <3>2, <4>2, <5>3
      <4>3. CASE p # 1
        <5>1. p - 1 \in 1..Len(t) /\ (p - 1) + 1 = p /\ p - 1 < q - 1
          BY <3>1, <3>2, <3>5, <4>3
        <5>2. s[p] = t[p - 1]
          <6> HIDE DEF s
          <6> QED
            BY <3>3, <5>1
        <5> HIDE DEF s
        <5> QED
          BY <2>10, <4>1, <5>1, <5>2 DEF Climbs
      <4> QED
        BY <4>2, <4>3
    <3> HIDE DEF s
    <3>6. Climbs(s, From(x), rank)
      BY <3>2, <3>4, <3>5 DEF Climbs
    <3> QED
      BY <3>6 DEF s
  <2> QED
    BY <2>3, <2>11, <2>12
<1> QED
  <2>1. k \notin bad
    BY <1>2
  <2> QED
    BY <2>1 DEF w

\* What a walk from the head of a list meets is the list.
LEMMA ListClimbs ==
  ASSUME NEW U \in SUBSET Nodes, NEW nx \in [Nodes -> Links], NEW hd,
         NEW at, NEW rank \in [Nodes -> Int], Laid(U, nx, hd, at, rank),
         NEW l \in ListNames
  PROVE  Climbs(WalkBy(nx)[Cardinality(Nodes) + 1][hd[l]], In(U, at, l), rank)
<1> DEFINE k == Cardinality(Nodes) + 1
           w == WalkBy(nx)[k][hd[l]]
<1>1. k \in Nat /\ k # 0 /\ \A S \in SUBSET Nodes : Cardinality(S) <= k
  <2>1. Cardinality(Nodes) \in Nat
    BY LinksAssumption, FS_CardinalityType
  <2>2. ASSUME NEW S \in SUBSET Nodes
        PROVE  Cardinality(S) <= k
    <3>1. Cardinality(S) \in Nat /\ Cardinality(S) <= Cardinality(Nodes)
      BY LinksAssumption, FS_CardinalityType, FS_Subset
    <3> QED
      BY <2>1, <3>1
  <2> QED
    BY <2>1, <2>2
<1> HIDE DEF k
<1>2. FirstOf(hd[l], In(U, at, l), rank)
  BY DEF Laid
<1>3. CASE hd[l] = None
  <2>1. WalkBy(nx)[k] = WalkFurther(nx, WalkBy(nx), k)
    BY <1>1, WalksExist DEF Walks
  <2>2. w = <<>>
    BY <1>3, <2>1 DEF WalkFurther, Links, MaybeNode
  <2>3. In(U, at, l) = {}
    BY <1>2, <1>3 DEF FirstOf
  <2> QED
    BY <2>2, <2>3 DEF Climbs, k
<1>4. CASE hd[l] # None
  <2> DEFINE x == hd[l]
             S == {m \in U : at[m] = at[x] /\ rank[x] <= rank[m]}
  <2>1. x \in U /\ at[x] = l /\ \A m \in In(U, at, l) : rank[x] <= rank[m]
    BY <1>2, <1>4 DEF FirstOf, In
  <2>2. S = In(U, at, l)
    BY <2>1 DEF In
  <2>3. Cardinality(S) <= k
    BY <1>1
  <2>4. Climbs(WalkBy(nx)[k][x], S, rank)
    <3>1. ASSUME NEW y \in U,
                 Cardinality({m \in U : at[m] = at[y] /\ rank[y] <= rank[m]}) <= k
          PROVE  Climbs(WalkBy(nx)[k][y], {m \in U : at[m] = at[y] /\ rank[y] <= rank[m]}, rank)
      BY <1>1, <3>1, WalkClimbs
    <3> QED
      BY <2>1, <2>3, <3>1
  <2> QED
    BY <2>2, <2>4 DEF k
<1> QED
  BY <1>3, <1>4

-----------------------------------------------------------------------------
(* What the operations do to the layout.                                   *)

Places(U, at, rank) ==
    U \subseteq Nodes /\ at \in [Nodes -> ListNames] /\ rank \in [Nodes -> Int]

\* Lists change names.
Renames(U, hd, at, f, hd2, at2) ==
    /\ \A n \in U : at[n] \in ListNames /\ at2[n] = f[at[n]]
    /\ f \in [ListNames -> ListNames]
    /\ \A l, m \in ListNames : hd[l] # None /\ hd[m] # None /\ f[l] = f[m] => l = m
    /\ \A l \in ListNames : hd[l] # None => hd2[f[l]] = hd[l]
    /\ \A m \in ListNames : hd2[m] # None => \E l \in ListNames : hd[l] # None /\ f[l] = m

\* The layout is the same under the new names.
LEMMA Renamed ==
  ASSUME NEW U, NEW nx, NEW hd, NEW at, NEW rank, Laid(U, nx, hd, at, rank),
         NEW f, NEW hd2, NEW at2, Renames(U, hd, at, f, hd2, at2)
  PROVE  Laid(U, nx, hd2, at2, rank)
<1> USE DEF Renames
<1>1. \A n \in U : hd[at[n]] # None
  BY DEF Laid, FirstOf, In
<1>2. \A m, n \in U : at2[m] = at2[n] <=> at[m] = at[n]
  BY <1>1
<1>3. ASSUME NEW n \in U
      PROVE  FirstOf(nx[n], Beyond(U, at2, rank, n), rank)
  <2>1. Beyond(U, at2, rank, n) = Beyond(U, at, rank, n)
    BY <1>2 DEF Beyond
  <2> QED
    BY <2>1 DEF Laid
<1>4. ASSUME NEW m \in ListNames
      PROVE  FirstOf(hd2[m], In(U, at2, m), rank)
  <2>1. CASE hd2[m] = None
    BY <1>1, <2>1 DEF FirstOf, In
  <2>2. CASE hd2[m] # None
    <3>1. PICK l \in ListNames : hd[l] # None /\ f[l] = m
      BY <2>2
    <3>2. In(U, at2, m) = In(U, at, l)
      BY <1>1, <3>1 DEF In
    <3> QED
      BY <3>1, <3>2 DEF Laid
  <2> QED
    BY <2>1, <2>2
<1> QED
  BY <1>2, <1>3, <1>4 DEF Laid

\* A node put in front of a list.
PutsFront(U, nx, hd, at, rank, n, l, r, nx2, hd2) ==
    /\ Places(U, at, rank)
    /\ n \in Nodes /\ n \notin U /\ l \in ListNames
    /\ r \in Int /\ (hd[l] # None => r < rank[hd[l]])
    /\ nx2[n] = hd[l] /\ \A m \in U : nx2[m] = nx[m]
    /\ hd2[l] = n /\ \A m \in ListNames : m # l => hd2[m] = hd[m]

\* The node that is put in front comes first.
LEMMA PutFront ==
  ASSUME NEW U, NEW nx, NEW hd, NEW at, NEW rank, Laid(U, nx, hd, at, rank),
         NEW n, NEW l, NEW r, NEW nx2, NEW hd2,
         PutsFront(U, nx, hd, at, rank, n, l, r, nx2, hd2)
  PROVE  Laid(U \union {n}, nx2, hd2, [at EXCEPT ![n] = l], [rank EXCEPT ![n] = r])
<1> USE DEF Places, PutsFront
<1> DEFINE at2 == [at EXCEPT ![n] = l]
           rank2 == [rank EXCEPT ![n] = r]
           U2 == U \union {n}
<1>0. None \notin U2
  BY LinksAssumption
<1>1. /\ at2[n] = l /\ rank2[n] = r
      /\ \A m \in U : at2[m] = at[m] /\ rank2[m] = rank[m] /\ m # n /\ rank[m] \in Int
  OBVIOUS
<1>2. \A m \in U : at[m] = l => r < rank[m]
  <2>1. \A m \in U : at[m] = l => hd[l] # None /\ hd[l] \in U /\ rank[hd[l]] <= rank[m]
    BY DEF Laid, FirstOf, In
  <2> QED
    BY <1>1, <2>1
<1> HIDE DEF at2, rank2
<1>3. ASSUME NEW x \in U2, NEW y \in U2, at2[x] = at2[y], rank2[x] = rank2[y]
      PROVE  x = y
  BY <1>1, <1>2, <1>3 DEF Laid
<1>4. ASSUME NEW x \in U2
      PROVE  FirstOf(nx2[x], Beyond(U2, at2, rank2, x), rank2)
  <2>1. CASE x = n
    <3>1. Beyond(U2, at2, rank2, n) = In(U, at, l)
      BY <1>1, <1>2 DEF Beyond, In
    <3>2. FirstOf(hd[l], In(U, at, l), rank)
      BY DEF Laid
    <3> QED
      BY <1>1, <2>1, <3>1, <3>2 DEF FirstOf, In
  <2>2. CASE x \in U
    <3>1. Beyond(U2, at2, rank2, x) = Beyond(U, at, rank, x)
      BY <1>1, <1>2, <2>2 DEF Beyond
    <3>2. FirstOf(nx[x], Beyond(U, at, rank, x), rank)
      BY <2>2 DEF Laid
    <3> QED
      BY <1>1, <2>2, <3>1, <3>2 DEF FirstOf, Beyond
  <2> QED
    BY <2>1, <2>2
<1>5. ASSUME NEW m \in ListNames
      PROVE  FirstOf(hd2[m], In(U2, at2, m), rank2)
  <2>1. CASE m = l
    <3>1. \A x \in In(U2, at2, l) : rank2[n] <= rank2[x]
      BY <1>1, <1>2 DEF In
    <3> QED
      BY <1>0, <1>1, <2>1, <3>1 DEF FirstOf, In
  <2>2. CASE m # l
    <3>1. In(U2, at2, m) = In(U, at, m)
      BY <1>1, <2>2 DEF In
    <3>2. FirstOf(hd[m], In(U, at, m), rank)
      BY DEF Laid
    <3> QED
      BY <1>1, <2>2, <3>1, <3>2 DEF FirstOf, In
  <2> QED
    BY <2>1, <2>2
<1> QED
  BY <1>3, <1>4, <1>5 DEF Laid, at2, rank2

\* A node put at the end of a list, which its tail refers to.
PutsEnd(U, nx, hd, at, rank, n, l, tail, nx2, hd2) ==
    /\ Places(U, at, rank)
    /\ n \in Nodes /\ n \notin U /\ l \in ListNames
    /\ tail = None <=> hd[l] = None
    /\ tail # None => tail \in U /\ at[tail] = l /\ nx[tail] = None /\ rank[tail] < rank[n]
    /\ nx2[n] = None /\ (tail # None => nx2[tail] = n)
    /\ \A m \in U \ {tail} : nx2[m] = nx[m]
    /\ hd2[l] = IF tail = None THEN n ELSE hd[l]
    /\ \A m \in ListNames : m # l => hd2[m] = hd[m]

\* The node that is put at the end comes last.
LEMMA PutEnd ==
  ASSUME NEW U, NEW nx, NEW hd, NEW at, NEW rank, Laid(U, nx, hd, at, rank),
         NEW n, NEW l, NEW tail, NEW nx2, NEW hd2,
         PutsEnd(U, nx, hd, at, rank, n, l, tail, nx2, hd2)
  PROVE  Laid(U \union {n}, nx2, hd2, [at EXCEPT ![n] = l], rank)
<1> USE DEF Places, PutsEnd
<1> DEFINE at2 == [at EXCEPT ![n] = l]
           U2 == U \union {n}
<1>0. None \notin U2
  BY LinksAssumption
<1>1. at2[n] = l /\ rank[n] \in Int /\ \A m \in U : at2[m] = at[m] /\ m # n /\ rank[m] \in Int
  OBVIOUS
<1>2. \A m \in U : at[m] = l => tail # None /\ rank[m] <= rank[tail] /\ rank[m] < rank[n]
  <2> SUFFICES ASSUME NEW m \in U, at[m] = l
               PROVE  tail # None /\ rank[m] <= rank[tail] /\ rank[m] < rank[n]
    OBVIOUS
  <2>1. tail # None
    BY DEF Laid, FirstOf, In
  <2>2. m \notin Beyond(U, at, rank, tail)
    BY <2>1 DEF Laid, FirstOf
  <2>3. ~(rank[tail] < rank[m])
    BY <2>1, <2>2 DEF Beyond
  <2> QED
    BY <1>1, <2>1, <2>3
<1> HIDE DEF at2
<1>3. ASSUME NEW x \in U2, NEW y \in U2, at2[x] = at2[y], rank[x] = rank[y]
      PROVE  x = y
  BY <1>1, <1>2, <1>3 DEF Laid
<1>4. ASSUME NEW x \in U2
      PROVE  FirstOf(nx2[x], Beyond(U2, at2, rank, x), rank)
  <2>1. CASE x = n
    <3>1. Beyond(U2, at2, rank, n) = {}
      BY <1>1, <1>2 DEF Beyond
    <3> QED
      BY <2>1, <3>1 DEF FirstOf
  <2>2. CASE x # n /\ x = tail
    <3>1. Beyond(U2, at2, rank, x) = {n}
      BY <1>0, <1>1, <1>2, <2>2 DEF Beyond
    <3>2. tail # None /\ nx2[x] = n /\ n # None
      BY <1>0, <2>2
    <3>3. rank[n] <= rank[n]
      BY <1>1
    <3> QED
      BY <3>1, <3>2, <3>3 DEF FirstOf
  <2>3. CASE x # n /\ x # tail
    <3>1. FirstOf(nx[x], Beyond(U, at, rank, x), rank) /\ nx2[x] = nx[x]
      BY <2>3 DEF Laid
    <3>2. CASE at[x] = l
      <4>1. tail \in Beyond(U, at, rank, x)
        BY <1>1, <1>2, <2>3, <3>2 DEF Beyond, Laid
      <4>2. Beyond(U2, at2, rank, x) = Beyond(U, at, rank, x) \union {n}
        BY <1>1, <1>2, <2>3, <3>2 DEF Beyond
      <4>3. nx[x] # None /\ nx[x] \in Beyond(U, at, rank, x)
        BY <3>1, <4>1 DEF FirstOf
      <4>4. rank[nx[x]] <= rank[n]
        <5>1. nx[x] \in U /\ at[nx[x]] = l
          BY <3>2, <4>3 DEF Beyond
        <5> QED
          BY <1>1, <1>2, <5>1
      <4> QED
        BY <3>1, <4>2, <4>3, <4>4 DEF FirstOf
    <3>3. CASE at[x] # l
      <4>1. Beyond(U2, at2, rank, x) = Beyond(U, at, rank, x)
        BY <1>1, <2>3, <3>3 DEF Beyond
      <4> QED
        BY <3>1, <4>1
    <3> QED
      BY <3>2, <3>3
  <2> QED
    BY <2>1, <2>2, <2>3
<1>5. ASSUME NEW m \in ListNames
      PROVE  FirstOf(hd2[m], In(U2, at2, m), rank)
  <2>1. FirstOf(hd[m], In(U, at, m), rank)
    BY DEF Laid
  <2>2. CASE m # l
    <3>1. In(U2, at2, m) = In(U, at, m)
      BY <1>1, <2>2 DEF In
    <3> QED
      BY <2>1, <2>2, <3>1
  <2>3. CASE m = l
    <3>1. In(U2, at2, l) = In(U, at, l) \union {n}
      BY <1>1 DEF In
    <3>2. CASE tail = None
      <4>1. In(U, at, l) = {}
        BY <1>2, <3>2 DEF In
      <4>2. hd2[l] = n /\ In(U2, at2, l) = {n} /\ n # None /\ rank[n] <= rank[n]
        BY <1>0, <1>1, <3>1, <3>2, <4>1
      <4> QED
        BY <2>3, <4>2 DEF FirstOf
    <3>3. CASE tail # None
      <4>1. hd[l] # None /\ hd[l] \in U /\ at[hd[l]] = l
        BY <2>1, <2>3, <3>3 DEF FirstOf, In
      <4>2. rank[hd[l]] <= rank[n]
        BY <1>1, <1>2, <4>1
      <4> QED
        BY <2>1, <2>3, <3>1, <3>3, <4>1, <4>2 DEF FirstOf
    <3> QED
      BY <3>2, <3>3
  <2> QED
    BY <2>2, <2>3
<1> QED
  BY <1>3, <1>4, <1>5 DEF Laid, at2

\* The first node of a list taken out.
TakesFront(U, nx, hd, at, rank, l, nx2, hd2) ==
    /\ Places(U, at, rank)
    /\ l \in ListNames /\ hd[l] # None
    /\ \A m \in U \ {hd[l]} : nx2[m] = nx[m]
    /\ hd2[l] = nx[hd[l]] /\ \A m \in ListNames : m # l => hd2[m] = hd[m]

\* Without its first node, a list starts at the second.
LEMMA TakeFront ==
  ASSUME NEW U, NEW nx, NEW hd, NEW at, NEW rank, Laid(U, nx, hd, at, rank),
         NEW l, NEW nx2, NEW hd2, TakesFront(U, nx, hd, at, rank, l, nx2, hd2)
  PROVE  Laid(U \ {hd[l]}, nx2, hd2, at, rank)
<1> USE DEF Places, TakesFront
<1> DEFINE n == hd[l]
           U2 == U \ {n}
<1>1. n \in U /\ at[n] = l /\ \A m \in U : at[m] = l => rank[n] <= rank[m]
  BY DEF Laid, FirstOf, In
<1>2. \A m \in U : rank[m] \in Int
  OBVIOUS
<1>3. \A m \in U2 : at[m] = l => rank[n] < rank[m]
  BY <1>1, <1>2 DEF Laid
<1> HIDE DEF n
<1>4. ASSUME NEW x \in U2
      PROVE  FirstOf(nx2[x], Beyond(U2, at, rank, x), rank)
  <2>1. Beyond(U2, at, rank, x) = Beyond(U, at, rank, x)
    BY <1>1, <1>2, <1>3 DEF Beyond
  <2> QED
    BY <2>1 DEF Laid, n
<1>5. ASSUME NEW m \in ListNames
      PROVE  FirstOf(hd2[m], In(U2, at, m), rank)
  <2>1. CASE m = l
    <3>1. In(U2, at, l) = Beyond(U, at, rank, n)
      BY <1>1, <1>2, <1>3 DEF In, Beyond
    <3>2. FirstOf(nx[n], Beyond(U, at, rank, n), rank)
      BY <1>1 DEF Laid
    <3> QED
      BY <2>1, <3>1, <3>2 DEF n
  <2>2. CASE m # l
    <3>1. In(U2, at, m) = In(U, at, m)
      BY <1>1, <2>2 DEF In
    <3> QED
      BY <2>2, <3>1 DEF Laid
  <2> QED
    BY <2>1, <2>2
<1> QED
  BY <1>4, <1>5 DEF Laid, n

\* A node taken out after another, which is given its link.
TakesAfter(U, nx, at, rank, prev, n, nx2) ==
    /\ Places(U, at, rank)
    /\ prev \in U /\ nx[prev] = n /\ n # None
    /\ nx2[prev] = nx[n] /\ \A m \in U \ {prev, n} : nx2[m] = nx[m]

\* A node is taken out by leading the link of the one before it past it.
LEMMA TakeAfter ==
  ASSUME NEW U, NEW nx, NEW hd, NEW at, NEW rank, Laid(U, nx, hd, at, rank),
         NEW prev, NEW n, NEW nx2, TakesAfter(U, nx, at, rank, prev, n, nx2)
  PROVE  Laid(U \ {n}, nx2, hd, at, rank)
<1> USE DEF Places, TakesAfter
<1> DEFINE U2 == U \ {n}
<1>1. n \in U /\ at[n] = at[prev] /\ rank[prev] < rank[n]
      /\ \A m \in U : at[m] = at[prev] /\ rank[prev] < rank[m] => rank[n] <= rank[m]
  BY DEF Laid, FirstOf, Beyond
<1>2. \A m \in U : rank[m] \in Int
  OBVIOUS
<1>3. prev # n /\ prev \in U2
  BY <1>1, <1>2
<1>4. ASSUME NEW x \in U2
      PROVE  FirstOf(nx2[x], Beyond(U2, at, rank, x), rank)
  <2>1. CASE x = prev
    <3>1. Beyond(U2, at, rank, prev) = Beyond(U, at, rank, n)
      <4>1. \A m \in U2 : at[m] = at[n] => rank[m] # rank[n]
        BY <1>1 DEF Laid
      <4> QED
        BY <1>1, <1>2, <4>1 DEF Beyond
    <3>2. FirstOf(nx[n], Beyond(U, at, rank, n), rank)
      BY <1>1 DEF Laid
    <3> QED
      BY <2>1, <3>1, <3>2
  <2>2. CASE x # prev
    <3>1. FirstOf(nx[x], Beyond(U, at, rank, x), rank) /\ nx2[x] = nx[x] /\ x \in U /\ x # n
      BY <2>2 DEF Laid
    <3>2. nx[x] # n
      <4>1. SUFFICES ASSUME nx[x] = n PROVE FALSE
        OBVIOUS
      <4>2. at[x] = at[n] /\ rank[x] < rank[n] /\ \A m \in Beyond(U, at, rank, x) : rank[n] <= rank[m]
        BY <1>1, <3>1, <4>1 DEF FirstOf, Beyond
      <4>3. rank[x] # rank[prev]
        BY <1>1, <2>2, <4>2 DEF Laid
      <4>4. CASE rank[x] < rank[prev]
        BY <1>1, <1>2, <4>2, <4>4 DEF Beyond
      <4>5. CASE rank[prev] < rank[x]
        BY <1>1, <1>2, <4>2, <4>5
      <4> QED
        BY <1>2, <4>3, <4>4, <4>5
    <3>3. Beyond(U2, at, rank, x) = Beyond(U, at, rank, x) \ {n}
      BY DEF Beyond
    <3>4. nx[x] = None => Beyond(U, at, rank, x) = {}
      BY <3>1 DEF FirstOf
    <3> QED
      BY <3>1, <3>2, <3>3, <3>4 DEF FirstOf
  <2> QED
    BY <2>1, <2>2
<1>5. ASSUME NEW m \in ListNames
      PROVE  FirstOf(hd[m], In(U2, at, m), rank)
  <2>1. FirstOf(hd[m], In(U, at, m), rank)
    BY DEF Laid
  <2>2. hd[m] # n
    <3>1. SUFFICES ASSUME hd[m] = n PROVE FALSE
      OBVIOUS
    <3>2. at[n] = m /\ \A x \in In(U, at, m) : rank[n] <= rank[x]
      BY <1>1, <2>1, <3>1 DEF FirstOf, In
    <3>3. prev \in In(U, at, m)
      BY <1>1, <3>2 DEF In
    <3>4. rank[n] <= rank[prev] /\ rank[n] \in Int /\ rank[prev] \in Int
      BY <1>1, <1>2, <3>2, <3>3
    <3> QED
      BY <1>1, <3>4
  <2>3. In(U2, at, m) = In(U, at, m) \ {n}
    BY DEF In
  <2> QED
    BY <2>1, <2>2, <2>3 DEF FirstOf
<1> QED
  BY <1>4, <1>5 DEF Laid

-----------------------------------------------------------------------------
(* The invariant.                                                          *)

ChainOf(p) == <<"chain", p>>
RestOf(p) == <<"rest", p>>
Kept == <<"list", 1>>
Whites == <<"white", 1>>
HeldList == <<"held", 1>>
Current == <<"current", 1>>

Used == {n \in Nodes : status[n] # "free"}

\* A list under construction ends at its tail.
EndsAtTail(list, at, l) ==
    /\ list.tail = None <=> list.head = None
    /\ list.tail # None => list.tail \in Used /\ at[list.tail] = l /\ next[list.tail] = None

\* Nodes come to the lists under construction in their old order.
InOldOrder(at, rank) ==
    \A x, y \in Used : at[x] \in {Kept, Whites} /\ at[y] = Current => rank[x] < rank[y]

\* The code's `prev` is the node before `current`.
PrevIsBefore(at) ==
    /\ loop.list.tail = None => loop.current = loop.list.head
    /\ loop.list.tail # None => /\ loop.list.tail \in Used /\ at[loop.list.tail] = Kept
                                /\ next[loop.list.tail] = loop.current

\* What the sweep is to take is in the list it goes through.
DoomedKept(at) == \A n \in Used : n \in doomed => at[n] = Kept

\* Which local variables of a loop are in use, and what they refer to.
LoopShape(at, rank) ==
    /\ loop.op \in {"none", "gone"} =>
        loop.current = None /\ loop.list = EmptyList /\ loop.white = EmptyList
    /\ loop.op = "unlink" =>
        /\ chain[loop.par] = None
        /\ EndsAtTail(loop.list, at, Kept) /\ EndsAtTail(loop.white, at, Whites)
        /\ InOldOrder(at, rank)
    /\ loop.op = "dispose" =>
        loop.white = EmptyList /\ EndsAtTail(loop.list, at, Kept) /\ InOldOrder(at, rank)
    /\ loop.op = "sweep" =>
        /\ loop.white = EmptyList /\ chain[loop.par] = None
        /\ PrevIsBefore(at) /\ DoomedKept(at)
    /\ loop.op = "drop" =>
        /\ loop.white = EmptyList /\ PrevIsBefore(at)
        /\ \A p \in PartitionIds : chain[p] = None /\ (p <= loop.par => loop.rest[p] = None)
    /\ loop.op = "finalize" =>
        /\ loop.list = EmptyList /\ loop.white = EmptyList
        /\ loop.current # None => loop.current \in Used /\ at[loop.current] = ChainOf(loop.par)
    /\ loop.op = "dealloc" => loop.list = EmptyList /\ loop.white = EmptyList
    /\ loop.op # "drop" => loop.rest = NoRest

\* What the host holds while a loop runs.  A partition that is being torn down is
\* left alone.
HeldShape ==
    /\ loop.op \notin {"none", "sweep"} => held.from = "none"
    /\ held.from = "teardown" =>
        held.head = chain[held.par] /\ (loop.op = "sweep" => loop.par # held.par)

PartitionOf(l) ==
    CASE l[1] \in {"chain", "rest"} -> l[2]
      [] l[1] = "held" -> held.par
      [] OTHER -> loop.par

\* Nodes stay in lists of their own partition.
AtHome(at) == \A n \in Used : home[n] = PartitionOf(at[n])

\* The payloads of lists that only have to be freed are dropped.
PayloadsDropped(at) ==
    /\ loop.op \in {"dispose", "dealloc"} =>
        \A n \in Used : at[n] \in {Current, Kept} => status[n] = "dropped"
    /\ held.from = "teardown" =>
        \A n \in Used : at[n] = ChainOf(held.par) => status[n] = "dropped"
    /\ held.from = "sweep" =>
        \A m, n \in Used : at[m] = HeldList /\ at[n] = HeldList => status[m] = status[n]

\* In the other lists that a sweep starts from and leads to, they are not.
PayloadsLive(at) ==
    /\ \A n \in Used, p \in PartitionIds :
        at[n] = ChainOf(p) =>
            \/ status[n] = "live"
            \/ held.from = "teardown" /\ held.par = p
            \/ loop.op = "finalize" /\ loop.par = p
    /\ loop.op \in {"unlink", "sweep"} =>
        \A n \in Used : at[n] \in {Kept, Whites, Current} => status[n] = "live"

\* None of the first k passes is n's.
Past(n, k) == \A j \in 1..k : Passes[j] # DropPass(n)

\* The nodes a loop over the passes is to drop or free.
Due(n, at) ==
    CASE loop.op = "dispose" -> at[n] \in {Current, Kept}
      [] loop.op = "drop" -> at[n] = Kept
      [] loop.op = "sweep" -> at[n] = Kept /\ n \in doomed
      [] loop.op = "finalize" -> at[n] = ChainOf(loop.par) /\ status[n] = "live"
      [] OTHER -> FALSE

\* It has seen n in this pass.
Behind(n, at, rank) ==
    IF loop.op = "dispose" THEN at[n] = Kept
    ELSE loop.current = None \/ rank[n] < rank[loop.current]

\* What is still due is so for a later pass.
PassesKept(at, rank) ==
    \A n \in Used : Due(n, at) =>
        Past(n, loop.pass - 1) /\ (Behind(n, at, rank) => Past(n, loop.pass))

Inv(at, rank) ==
    /\ Laid(Used, next, Heads, at, rank)
    /\ LoopShape(at, rank)
    /\ HeldShape
    /\ AtHome(at)
    /\ PayloadsDropped(at) /\ PayloadsLive(at)
    /\ PassesKept(at, rank)

-----------------------------------------------------------------------------
(* The names of lists and their heads.                                     *)

\* All the names there are.
LEMMA Names ==
  /\ \A p \in PartitionIds : ChainOf(p) \in ListNames /\ RestOf(p) \in ListNames
  /\ {Kept, Whites, HeldList, Current} \subseteq ListNames
  /\ \A l \in ListNames :
        \/ l \in {Kept, Whites, HeldList, Current}
        \/ \E p \in PartitionIds : l = ChainOf(p) \/ l = RestOf(p)
BY DEF ListNames, ChainOf, RestOf, Kept, Whites, HeldList, Current

\* No list has two names.
LEMMA NamesDiffer ==
  /\ \A p, q : ChainOf(p) = ChainOf(q) => p = q
  /\ \A p, q : RestOf(p) = RestOf(q) => p = q
  /\ \A p, q : ChainOf(p) # RestOf(q)
  /\ \A p : {ChainOf(p), RestOf(p)} \intersect {Kept, Whites, HeldList, Current} = {}
  /\ Kept # Whites /\ Kept # HeldList /\ Kept # Current
  /\ Whites # HeldList /\ Whites # Current /\ HeldList # Current
BY DEF ChainOf, RestOf, Kept, Whites, HeldList, Current

HeadsSpelled ==
  /\ \A p \in PartitionIds :
        /\ Heads[ChainOf(p)] = IF loop.op = "dealloc" /\ p = loop.par THEN None ELSE chain[p]
        /\ Heads[RestOf(p)] = loop.rest[p]
  /\ Heads[Kept] = loop.list.head /\ Heads[Whites] = loop.white.head
  /\ Heads[HeldList] = IF held.from = "sweep" THEN held.head ELSE None
  /\ Heads[Current] = IF loop.op \in {"unlink", "dispose", "dealloc"} THEN loop.current ELSE None

\* Where each list starts, before a step and after it.
LEMMA HeadsAre == HeadsSpelled /\ HeadsSpelled'
<1> DEFINE Named == /\ \A p \in PartitionIds : <<"chain", p>> \in ListNames /\ <<"rest", p>> \in ListNames
                    /\ \A x \in {"list", "white", "held", "current"} : <<x, 1>> \in ListNames
<1>1. Named
  BY DEF ListNames
<1>2. HeadsSpelled
  BY <1>1 DEF HeadsSpelled, Heads, ChainOf, RestOf, Kept, Whites, HeldList, Current
<1>3. HeadsSpelled'
  BY <1>1 DEF HeadsSpelled, Heads, ChainOf, RestOf, Kept, Whites, HeldList, Current
<1> QED
  BY <1>2, <1>3

PartitionsSpelled ==
  /\ \A p : PartitionOf(ChainOf(p)) = p /\ PartitionOf(RestOf(p)) = p
  /\ PartitionOf(HeldList) = held.par
  /\ \A l \in {Kept, Whites, Current} : PartitionOf(l) = loop.par

\* Whose list each is, before a step and after it.
LEMMA PartitionsAre == PartitionsSpelled /\ PartitionsSpelled'
BY DEF PartitionsSpelled, PartitionOf, ChainOf, RestOf, Kept, Whites, HeldList, Current

-----------------------------------------------------------------------------
(* Every step keeps the invariant.                                         *)

\* Links and local variables lead to nodes that are not free.
LEMMA LinksLead ==
  ASSUME LinksTypeOK, NEW at \in [Nodes -> ListNames], NEW rank \in [Nodes -> Int], Inv(at, rank)
  PROVE  /\ Used \subseteq Nodes /\ None \notin Used /\ Garbage \notin Used
         /\ \A n \in Used : next[n] \in Used \union {None} /\ (next[n] # None => at[next[n]] = at[n])
         /\ \A l \in ListNames : Heads[l] \in Used \union {None} /\ (Heads[l] # None => at[Heads[l]] = l)
         /\ loop.current \in Used \union {None}
<1>1. Used \subseteq Nodes /\ None \notin Used /\ Garbage \notin Used
  BY LinksAssumption DEF Used
<1>2. \A n \in Used : next[n] \in Used \union {None} /\ (next[n] # None => at[next[n]] = at[n])
  BY DEF Inv, Laid, FirstOf, Beyond
<1>3. \A l \in ListNames : Heads[l] \in Used \union {None} /\ (Heads[l] # None => at[Heads[l]] = l)
  BY DEF Inv, Laid, FirstOf, In
<1>4. loop.current \in Used \union {None}
  <2>1. loop.op \in Ops
    BY DEF LinksTypeOK, Loops
  <2>2. CASE loop.op \in {"unlink", "dispose", "dealloc"}
    BY <1>3, <2>2, HeadsAre, Names DEF HeadsSpelled
  <2>3. CASE loop.op \in {"sweep", "drop"}
    <3>1. PrevIsBefore(at)
      BY <2>3 DEF Inv, LoopShape
    <3>2. Heads[Kept] = loop.list.head /\ Kept \in ListNames
      BY HeadsAre, Names DEF HeadsSpelled
    <3> QED
      BY <1>2, <1>3, <3>1, <3>2 DEF PrevIsBefore
  <2>4. CASE loop.op \in {"none", "gone", "finalize"}
    BY <2>4 DEF Inv, LoopShape
  <2> QED
    BY <2>1, <2>2, <2>3, <2>4 DEF Ops
<1> QED
  BY <1>1, <1>2, <1>3, <1>4

\* What NodesOf reads off the chain of a partition that is not being freed.
LEMMA ChainNodes ==
  ASSUME LinksTypeOK, NEW at \in [Nodes -> ListNames], NEW rank \in [Nodes -> Int], Inv(at, rank),
         NEW p \in PartitionIds, loop.op # "dealloc"
  PROVE  NodesOf(p) = In(Used, at, ChainOf(p))
<1>1. Heads[ChainOf(p)] = chain[p] /\ ChainOf(p) \in ListNames
  BY HeadsAre, Names DEF HeadsSpelled
<1>2. Climbs(Walk(chain[p]), In(Used, at, ChainOf(p)), rank)
  <2>1. Laid(Used, next, Heads, at, rank) /\ Used \in SUBSET Nodes /\ next \in [Nodes -> Links]
    BY LinksLead DEF Inv, LinksTypeOK, Links
  <2>2. Walk(chain[p]) = WalkBy(next)[Cardinality(Nodes) + 1][Heads[ChainOf(p)]]
    BY <1>1, WalkIs
  <2> QED
    BY <1>1, <2>1, <2>2, ListClimbs
<1> QED
  BY <1>2 DEF NodesOf, Range, Climbs

\* attach_node puts the new node at a place before all others of its chain.
LEMMA AttachKeeps ==
  ASSUME LinksTypeOK, NEW at \in [Nodes -> ListNames], NEW rank \in [Nodes -> Int], Inv(at, rank),
         NEW n \in Nodes, NEW p \in PartitionIds, Attach(n, p)
  PROVE  \E at2 \in [Nodes -> ListNames], rank2 \in [Nodes -> Int] : Inv(at2, rank2)'
<1>0. /\ status[n] = "free" /\ loop.op = "none" /\ ~(held.from = "teardown" /\ held.par = p)
      /\ status' = [status EXCEPT ![n] = "live"] /\ home' = [home EXCEPT ![n] = p]
      /\ next' = [next EXCEPT ![n] = chain[p]] /\ chain' = [chain EXCEPT ![p] = n]
      /\ held' = held /\ doomed' = doomed /\ loop' = loop
  BY DEF Attach, HostMayUse
<1>1. PICK r \in Int : chain[p] # None => r < rank[chain[p]]
  <2>1. chain[p] # None => rank[chain[p]] - 1 \in Int /\ rank[chain[p]] - 1 < rank[chain[p]]
    BY DEF LinksTypeOK, MaybeNode
  <2> QED
    BY <2>1
<1>2. PICK at2 \in [Nodes -> ListNames], rank2 \in [Nodes -> Int] :
        at2 = [at EXCEPT ![n] = ChainOf(p)] /\ rank2 = [rank EXCEPT ![n] = r]
  BY Names
<1>3. n \notin Used /\ Used' = Used \union {n} /\ Used \subseteq Nodes
  BY <1>0 DEF Used, LinksTypeOK
<1>4. /\ at2[n] = ChainOf(p) /\ \A m \in Used : at2[m] = at[m]
      /\ \A m \in Used : status'[m] = status[m] /\ home'[m] = home[m] /\ next'[m] = next[m]
      /\ status'[n] = "live" /\ home'[n] = p /\ next'[n] = chain[p]
  BY <1>0, <1>2, <1>3 DEF LinksTypeOK
<1>5. /\ Heads'[ChainOf(p)] = n /\ Heads[ChainOf(p)] = chain[p]
      /\ \A l \in ListNames : l # ChainOf(p) => Heads'[l] = Heads[l]
  BY <1>0, Names, NamesDiffer, HeadsAre DEF HeadsSpelled, LinksTypeOK
<1>6. Laid(Used', next', Heads', at2, rank2)
  <2>1. PutsFront(Used, next, Heads, at, rank, n, ChainOf(p), r, next', Heads')
    BY <1>1, <1>3, <1>4, <1>5, Names DEF PutsFront, Places
  <2>2. Laid(Used \union {n}, next', Heads', [at EXCEPT ![n] = ChainOf(p)], [rank EXCEPT ![n] = r])
    BY <2>1, PutFront DEF Inv
  <2> QED
    BY <1>2, <1>3, <2>2
<1>7. LoopShape(at2, rank2)'
  BY <1>0 DEF Inv, LoopShape
<1>8. HeldShape'
  BY <1>0 DEF Inv, HeldShape, LinksTypeOK
<1>9. AtHome(at2)'
  BY <1>0, <1>3, <1>4, Names, PartitionsAre DEF Inv, AtHome, PartitionsSpelled
<1>10. PayloadsDropped(at2)'
  <2>1. held.from = "teardown" => held.par # p
    BY <1>0
  <2>2. ChainOf(p) # HeldList /\ (ChainOf(held.par) = ChainOf(p) => held.par = p)
    BY NamesDiffer
  <2>3. PayloadsDropped(at)
    BY DEF Inv
  <2> QED
    BY <1>0, <1>3, <1>4, <2>1, <2>2, <2>3 DEF PayloadsDropped
<1>11. PassesKept(at2, rank2)'
  BY <1>0 DEF PassesKept, Due
<1>12. PayloadsLive(at2)'
  BY <1>0, <1>3, <1>4 DEF PayloadsLive, Inv
<1> QED
  BY <1>6, <1>7, <1>8, <1>9, <1>10, <1>11, <1>12 DEF Inv

\* The lists without a head are empty; the others start with their first node.
LEMMA HeadsFirst ==
  ASSUME NEW U, NEW nx, NEW hd, NEW at, NEW rank, Laid(U, nx, hd, at, rank), NEW l \in ListNames
  PROVE  /\ hd[l] = None => \A n \in U : at[n] # l
         /\ hd[l] # None => hd[l] \in U /\ at[hd[l]] = l /\ \A n \in U : at[n] = l => rank[hd[l]] <= rank[n]
BY DEF Laid, FirstOf, In

\* A list gets a name that was not in use.
Moves(U, hd, at, a, b, hd2, at2) ==
    /\ U \subseteq Nodes /\ at \in [Nodes -> ListNames]
    /\ {a, b} \subseteq ListNames /\ a # b /\ hd[b] = None
    /\ hd2[b] = hd[a] /\ hd2[a] = None
    /\ \A l \in ListNames \ {a, b} : hd2[l] = hd[l]
    /\ at2 = [n \in Nodes |-> IF at[n] = a THEN b ELSE at[n]]

\* The layout of a list that got a free name.
LEMMA Moved ==
  ASSUME NEW U, NEW nx, NEW hd, NEW at, NEW rank, Laid(U, nx, hd, at, rank),
         NEW a, NEW b, NEW hd2, NEW at2, Moves(U, hd, at, a, b, hd2, at2)
  PROVE  Laid(U, nx, hd2, at2, rank)
<1> DEFINE f == [l \in ListNames |-> IF l = a THEN b ELSE l]
<1>1. \A l \in ListNames : f[l] = IF l = a THEN b ELSE l
  OBVIOUS
<1>2. f \in [ListNames -> ListNames]
  BY DEF Moves
<1> HIDE DEF f
<1>3. Renames(U, hd, at, f, hd2, at2)
  BY <1>1, <1>2 DEF Renames, Moves
<1> QED
  BY <1>3, Renamed

\* The layout depends on where the lists start, and on nothing else of the heads.
LEMMA HeadsSame ==
  ASSUME NEW U, NEW nx, NEW hd, NEW at, NEW rank, Laid(U, nx, hd, at, rank),
         NEW hd2, \A l \in ListNames : hd2[l] = hd[l]
  PROVE  Laid(U, nx, hd2, at, rank)
BY DEF Laid

\* The chain becomes what sweep_unlink has yet to see.
LEMMA UnlinkStartKeeps ==
  ASSUME LinksTypeOK, NEW at \in [Nodes -> ListNames], NEW rank \in [Nodes -> Int], Inv(at, rank),
         NEW p \in PartitionIds, NEW D, UnlinkStart(p, D)
  PROVE  \E at2 \in [Nodes -> ListNames] : Inv(at2, rank)'
<1>0. /\ loop.op = "none" /\ held.from = "none"
      /\ chain' = [chain EXCEPT ![p] = None] /\ chain[p] # None
      /\ loop'.op = "unlink" /\ loop'.par = p /\ loop'.pass = 1 /\ loop'.current = chain[p]
      /\ loop'.list = EmptyList /\ loop'.white = EmptyList /\ loop'.rest = NoRest
      /\ status' = status /\ home' = home /\ next' = next /\ held' = held
  BY DEF UnlinkStart, HostMayUse, Idle, NoList
<1>1. PICK at2 \in [Nodes -> ListNames] :
        at2 = [m \in Nodes |-> IF at[m] = ChainOf(p) THEN Current ELSE at[m]]
  BY Names
<1>2. Used' = Used /\ Used \subseteq Nodes
  BY <1>0 DEF Used
<1>a. loop.list = EmptyList /\ loop.white = EmptyList /\ loop.rest = NoRest
  BY <1>0 DEF Inv, LoopShape
<1>3. Moves(Used, Heads, at, ChainOf(p), Current, Heads', at2)
  BY <1>0, <1>1, <1>2, <1>a, Names, NamesDiffer, HeadsAre DEF Moves, HeadsSpelled, LinksTypeOK, EmptyList
<1>4. Laid(Used', next', Heads', at2, rank)
  BY <1>0, <1>2, <1>3, Moved DEF Inv
<1>5. \A n \in Used : at[n] \notin {Kept, Whites, Current}
  BY <1>0, <1>a, HeadsFirst, Names, HeadsAre DEF HeadsSpelled, Inv, EmptyList
<1>6. \A n \in Used : \/ at[n] = ChainOf(p) /\ at2[n] = Current
                      \/ at[n] # ChainOf(p) /\ at2[n] = at[n] /\ at2[n] \notin {Kept, Whites, Current}
  BY <1>1, <1>2, <1>5
<1>7. LoopShape(at2, rank)'
  BY <1>0, <1>2, <1>6, NamesDiffer DEF LoopShape, EndsAtTail, InOldOrder, EmptyList, LinksTypeOK
<1>8. HeldShape'
  BY <1>0 DEF HeldShape
<1>9. AtHome(at2)'
  BY <1>0, <1>2, <1>5, <1>6, Names, PartitionsAre DEF Inv, AtHome, PartitionsSpelled
<1>10. PayloadsDropped(at2)'
  BY <1>0 DEF PayloadsDropped
<1>11. PassesKept(at2, rank)'
  BY <1>0 DEF PassesKept, Due
<1>12. PayloadsLive(at2)'
  BY <1>0, <1>2, <1>5, <1>6, NamesDiffer DEF PayloadsLive, Inv
<1> QED
  BY <1>4, <1>7, <1>8, <1>9, <1>10, <1>11, <1>12 DEF Inv

\* The chain becomes the list sweep takes nodes out of, the doomed ones with it.
LEMMA SweepStartKeeps ==
  ASSUME LinksTypeOK, NEW at \in [Nodes -> ListNames], NEW rank \in [Nodes -> Int], Inv(at, rank),
         NEW p \in PartitionIds, NEW D, SweepStart(p, D)
  PROVE  \E at2 \in [Nodes -> ListNames] : Inv(at2, rank)'
<1>0. /\ loop.op = "none" /\ ~(held.from = "teardown" /\ held.par = p)
      /\ chain' = [chain EXCEPT ![p] = None] /\ chain[p] # None
      /\ loop'.op = "sweep" /\ loop'.par = p /\ loop'.pass = 1 /\ loop'.current = chain[p]
      /\ loop'.list = [head |-> chain[p], tail |-> None] /\ loop'.white = EmptyList
      /\ loop'.rest = NoRest
      /\ status' = status /\ home' = home /\ next' = next /\ held' = held
      /\ doomed' = D /\ D \subseteq NodesOf(p)
  BY DEF SweepStart, HostMayUse, Idle, EmptyList
<1>1. PICK at2 \in [Nodes -> ListNames] :
        at2 = [m \in Nodes |-> IF at[m] = ChainOf(p) THEN Kept ELSE at[m]]
  BY Names
<1>2. Used' = Used /\ Used \subseteq Nodes
  BY <1>0 DEF Used
<1>a. loop.list = EmptyList /\ loop.white = EmptyList /\ loop.rest = NoRest
  BY <1>0 DEF Inv, LoopShape
<1>3. Moves(Used, Heads, at, ChainOf(p), Kept, Heads', at2)
  BY <1>0, <1>1, <1>2, <1>a, Names, NamesDiffer, HeadsAre DEF Moves, HeadsSpelled, LinksTypeOK, EmptyList
<1>4. Laid(Used', next', Heads', at2, rank)
  BY <1>0, <1>2, <1>3, Moved DEF Inv
<1>5. \A n \in Used : at[n] \notin {Kept, Whites, Current}
  BY <1>0, <1>a, HeadsFirst, Names, HeadsAre DEF HeadsSpelled, Inv, EmptyList
<1>6. \A n \in Used : \/ at[n] = ChainOf(p) /\ at2[n] = Kept
                      \/ at[n] # ChainOf(p) /\ at2[n] = at[n] /\ at2[n] \notin {Kept, Whites, Current}
  BY <1>1, <1>2, <1>5
<1>7. LoopShape(at2, rank)'
  <2>1. \A n \in D : at[n] = ChainOf(p)
    BY <1>0, ChainNodes DEF In
  <2>2. DoomedKept(at2)'
    BY <1>0, <1>2, <1>6, <2>1 DEF DoomedKept
  <2> QED
    BY <1>0, <2>2 DEF LoopShape, PrevIsBefore, LinksTypeOK
<1>8. HeldShape'
  BY <1>0 DEF HeldShape, Inv, LinksTypeOK
<1>9. AtHome(at2)'
  BY <1>0, <1>2, <1>5, <1>6, Names, PartitionsAre DEF Inv, AtHome, PartitionsSpelled
<1>10. PayloadsDropped(at2)'
  <2>1. \A n \in Used : at2[n] = HeldList => at[n] = HeldList
    BY <1>6, NamesDiffer
  <2>2. \A n \in Used, q \in PartitionIds : at2[n] = ChainOf(q) => at[n] = ChainOf(q)
    BY <1>6, NamesDiffer
  <2> QED
    BY <1>0, <1>2, <2>1, <2>2 DEF PayloadsDropped, Inv, LinksTypeOK
<1>11. PassesKept(at2, rank)'
  <2> SUFFICES ASSUME NEW n \in Used, at2[n] = Kept
               PROVE  Past(n, 0) /\ ~(chain[p] = None \/ rank[n] < rank[chain[p]])
    BY <1>0, <1>2 DEF PassesKept, Due, Behind, Past
  <2>1. at[n] = ChainOf(p) /\ Heads[ChainOf(p)] = chain[p]
    BY <1>0, <1>6, HeadsAre DEF HeadsSpelled
  <2>2. chain[p] \in Used /\ rank[chain[p]] <= rank[n]
    BY <1>0, <2>1, HeadsFirst, Names DEF Inv
  <2>3. rank[n] \in Int /\ rank[chain[p]] \in Int
    BY <1>2, <2>2
  <2> QED
    BY <1>0, <2>2, <2>3 DEF Past
<1>12. PayloadsLive(at2)'
  BY <1>0, <1>2, <1>5, <1>6, NamesDiffer DEF PayloadsLive, Inv
<1> QED
  BY <1>4, <1>7, <1>8, <1>9, <1>10, <1>11, <1>12 DEF Inv

\* The held list becomes what sweep_dispose has yet to see.
LEMMA DisposeStartKeeps ==
  ASSUME LinksTypeOK, NEW at \in [Nodes -> ListNames], NEW rank \in [Nodes -> Int], Inv(at, rank),
         DisposeStart
  PROVE  \E at2 \in [Nodes -> ListNames] : Inv(at2, rank)'
<1>0. /\ loop.op = "none" /\ held.from = "sweep" /\ status[held.head] = "dropped"
      /\ chain' = chain /\ held'.from = "none"
      /\ loop'.op = "dispose" /\ loop'.par = held.par /\ loop'.pass = 1 /\ loop'.current = held.head
      /\ loop'.list = EmptyList /\ loop'.white = EmptyList /\ loop'.rest = NoRest
      /\ status' = status /\ home' = home /\ next' = next
  BY DEF DisposeStart, HostMayUse, Idle, NoList
<1>1. PICK at2 \in [Nodes -> ListNames] :
        at2 = [m \in Nodes |-> IF at[m] = HeldList THEN Current ELSE at[m]]
  BY Names
<1>2. Used' = Used /\ Used \subseteq Nodes
  BY <1>0 DEF Used
<1>a. loop.list = EmptyList /\ loop.white = EmptyList /\ loop.rest = NoRest
  BY <1>0 DEF Inv, LoopShape
<1>3. Moves(Used, Heads, at, HeldList, Current, Heads', at2)
  BY <1>0, <1>1, <1>2, <1>a, Names, NamesDiffer, HeadsAre DEF Moves, HeadsSpelled, LinksTypeOK, EmptyList
<1>4. Laid(Used', next', Heads', at2, rank)
  BY <1>0, <1>2, <1>3, Moved DEF Inv
<1>5. \A n \in Used : at[n] \notin {Kept, Whites, Current}
  BY <1>0, <1>a, HeadsFirst, Names, HeadsAre DEF HeadsSpelled, Inv, EmptyList
<1>6. \A n \in Used : \/ at[n] = HeldList /\ at2[n] = Current
                      \/ at[n] # HeldList /\ at2[n] = at[n] /\ at2[n] \notin {Kept, Whites, Current, HeldList}
  BY <1>1, <1>2, <1>5
<1>7. LoopShape(at2, rank)'
  BY <1>0, <1>2, <1>6, NamesDiffer DEF LoopShape, EndsAtTail, InOldOrder, EmptyList, LinksTypeOK
<1>8. HeldShape'
  BY <1>0 DEF HeldShape
<1>9. AtHome(at2)'
  BY <1>0, <1>2, <1>6, Names, PartitionsAre DEF Inv, AtHome, PartitionsSpelled
<1>10. PayloadsDropped(at2)'
  <2>1. ASSUME NEW n \in Used, at[n] = HeldList
        PROVE  status[n] = "dropped"
    <3>1. Heads[HeldList] = held.head
      BY <1>0, HeadsAre DEF HeadsSpelled
    <3>2. held.head \in Used /\ at[held.head] = HeldList
      BY <2>1, <3>1, HeadsFirst, Names DEF Inv
    <3> QED
      BY <1>0, <2>1, <3>2 DEF Inv, PayloadsDropped
  <2> QED
    BY <1>0, <1>2, <1>6, <2>1 DEF PayloadsDropped
<1>11. PassesKept(at2, rank)'
  BY <1>0, <1>2, <1>6, NamesDiffer DEF PassesKept, Due, Behind, Past
<1>12. PayloadsLive(at2)'
  <2>1. PayloadsLive(at)
    BY DEF Inv
  <2>2. \A n \in Used, p \in PartitionIds : at2[n] = ChainOf(p) => at[n] = ChainOf(p)
    BY <1>6, NamesDiffer
  <2> QED
    BY <1>0, <1>2, <2>1, <2>2 DEF PayloadsLive
<1> QED
  BY <1>4, <1>7, <1>8, <1>9, <1>10, <1>11, <1>12 DEF Inv

\* The chain and its copy become what dealloc_partition has yet to free.
LEMMA DeallocStartKeeps ==
  ASSUME LinksTypeOK, NEW at \in [Nodes -> ListNames], NEW rank \in [Nodes -> Int], Inv(at, rank),
         DeallocStart
  PROVE  \E at2 \in [Nodes -> ListNames] : Inv(at2, rank)'
<1>0. /\ loop.op = "none" /\ held.from = "teardown"
      /\ chain' = chain /\ held'.from = "none"
      /\ loop'.op = "dealloc" /\ loop'.par = held.par /\ loop'.pass = 1 /\ loop'.current = held.head
      /\ loop'.list = EmptyList /\ loop'.white = EmptyList /\ loop'.rest = NoRest
      /\ status' = status /\ home' = home /\ next' = next
  BY DEF DeallocStart, HostMayUse, Idle, NoList
<1>p. held.head = chain[held.par] /\ held.par \in PartitionIds
  BY <1>0 DEF Inv, HeldShape, LinksTypeOK
<1>1. PICK at2 \in [Nodes -> ListNames] :
        at2 = [m \in Nodes |-> IF at[m] = ChainOf(held.par) THEN Current ELSE at[m]]
  BY <1>p, Names
<1>2. Used' = Used /\ Used \subseteq Nodes
  BY <1>0 DEF Used
<1>a. loop.list = EmptyList /\ loop.white = EmptyList /\ loop.rest = NoRest
  BY <1>0 DEF Inv, LoopShape
<1>3. Moves(Used, Heads, at, ChainOf(held.par), Current, Heads', at2)
  <2> DEFINE c == ChainOf(held.par)
  <2>1. c \in ListNames /\ Current \in ListNames /\ c # Current
    BY <1>p, Names, NamesDiffer
  <2>2. Heads[Current] = None /\ Heads'[Current] = Heads[c] /\ Heads'[c] = None
    BY <1>0, <1>p, HeadsAre DEF HeadsSpelled
  <2>3. ASSUME NEW l \in ListNames \ {c, Current}
        PROVE  Heads'[l] = Heads[l]
    <3>1. CASE l \in {Kept, Whites, HeldList}
      BY <1>0, <1>a, <3>1, HeadsAre DEF HeadsSpelled
    <3>2. ASSUME NEW q \in PartitionIds, l = ChainOf(q) \/ l = RestOf(q)
          PROVE  Heads'[l] = Heads[l]
      BY <1>0, <1>p, <1>a, <2>3, <3>2, HeadsAre DEF HeadsSpelled
    <3> QED
      BY <2>3, <3>1, <3>2, Names
  <2> QED
    BY <1>1, <1>2, <2>1, <2>2, <2>3 DEF Moves
<1>4. Laid(Used', next', Heads', at2, rank)
  BY <1>0, <1>2, <1>3, Moved DEF Inv
<1>5. \A n \in Used : at[n] \notin {Kept, Whites, Current, HeldList}
  BY <1>0, <1>a, HeadsFirst, Names, HeadsAre DEF HeadsSpelled, Inv, EmptyList
<1>6. \A n \in Used : \/ at[n] = ChainOf(held.par) /\ at2[n] = Current
                      \/ /\ at[n] # ChainOf(held.par) /\ at2[n] = at[n]
                         /\ at2[n] \notin {Kept, Whites, Current, HeldList}
  BY <1>1, <1>2, <1>5
<1>7. LoopShape(at2, rank)'
  BY <1>0 DEF LoopShape
<1>8. HeldShape'
  BY <1>0 DEF HeldShape
<1>9. AtHome(at2)'
  BY <1>0, <1>2, <1>5, <1>6, Names, PartitionsAre DEF Inv, AtHome, PartitionsSpelled
<1>10. PayloadsDropped(at2)'
  BY <1>0, <1>2, <1>6 DEF PayloadsDropped, Inv
<1>11. PassesKept(at2, rank)'
  BY <1>0 DEF PassesKept, Due
<1>12. PayloadsLive(at2)'
  <2>1. PayloadsLive(at)
    BY DEF Inv
  <2>2. ASSUME NEW n \in Used, NEW p \in PartitionIds, at2[n] = ChainOf(p)
        PROVE  at[n] = ChainOf(p) /\ held.par # p
    BY <1>6, <2>2, NamesDiffer
  <2> QED
    BY <1>0, <1>2, <2>1, <2>2 DEF PayloadsLive
<1> QED
  BY <1>4, <1>7, <1>8, <1>9, <1>10, <1>11, <1>12 DEF Inv

\* sweep_drop_payloads drops the payloads of the held list, and of no other.
LEMMA DropPayloadsKeeps ==
  ASSUME LinksTypeOK, NEW at \in [Nodes -> ListNames], NEW rank \in [Nodes -> Int], Inv(at, rank),
         DropPayloads
  PROVE  Inv(at, rank)'
<1>0. /\ loop.op = "none" /\ held.from = "sweep"
      /\ chain' = chain /\ held' = held /\ loop' = loop /\ home' = home /\ next' = next
      /\ status' = [n \in Nodes |-> IF n \in Range(Walk(held.head)) THEN "dropped" ELSE status[n]]
  BY DEF DropPayloads, WithStatus
<1>1. Range(Walk(held.head)) = In(Used, at, HeldList)
  <2>1. Heads[HeldList] = held.head /\ HeldList \in ListNames
    BY <1>0, HeadsAre, Names DEF HeadsSpelled
  <2>2. Laid(Used, next, Heads, at, rank) /\ Used \in SUBSET Nodes /\ next \in [Nodes -> Links]
    BY LinksLead DEF Inv, LinksTypeOK, Links
  <2>3. Climbs(Walk(held.head), In(Used, at, HeldList), rank)
    BY <2>1, <2>2, ListClimbs, WalkIs
  <2> QED
    BY <2>3 DEF Range, Climbs
<1>2. \A n \in Used : status'[n] = IF at[n] = HeldList THEN "dropped" ELSE status[n]
  BY <1>0, <1>1 DEF In, Used
<1>3. Used' = Used
  BY <1>0, <1>1 DEF In, Used
<1>4. \A l \in ListNames : Heads'[l] = Heads[l]
  BY <1>0, Names, HeadsAre DEF HeadsSpelled
<1>5. Laid(Used', next', Heads', at, rank)
  BY <1>0, <1>3, <1>4, HeadsSame DEF Inv
<1>6. LoopShape(at, rank)' /\ HeldShape'
  BY <1>0, <1>3 DEF LoopShape, HeldShape, Inv
<1>7. AtHome(at)'
  BY <1>0, <1>3 DEF Inv, AtHome, PartitionOf
<1>8. PayloadsDropped(at)'
  BY <1>0, <1>2, <1>3 DEF PayloadsDropped, Inv
<1>9. PassesKept(at, rank)'
  BY <1>0 DEF PassesKept, Due
<1>10. PayloadsLive(at)'
  BY <1>0, <1>2, <1>3, NamesDiffer DEF PayloadsLive, Inv
<1> QED
  BY <1>5, <1>6, <1>7, <1>8, <1>9, <1>10 DEF Inv

\* finalize_partition leaves the chain where it is.
LEMMA FinalizeStartKeeps ==
  ASSUME LinksTypeOK, NEW at \in [Nodes -> ListNames], NEW rank \in [Nodes -> Int], Inv(at, rank),
         NEW p \in PartitionIds, FinalizeStart(p)
  PROVE  Inv(at, rank)'
<1>0. /\ loop.op = "none" /\ held.from = "none" /\ chain[p] # None
      /\ loop'.op = "finalize" /\ loop'.par = p /\ loop'.pass = 1 /\ loop'.current = chain[p]
      /\ loop'.list = EmptyList /\ loop'.white = EmptyList /\ loop'.rest = NoRest
      /\ status' = status /\ home' = home /\ next' = next /\ chain' = chain /\ held' = held
  BY DEF FinalizeStart, HostMayUse, Idle, NoList
<1>1. Used' = Used /\ Used \subseteq Nodes
  BY <1>0 DEF Used
<1>2. loop.list = EmptyList /\ loop.white = EmptyList /\ loop.rest = NoRest
  BY <1>0 DEF Inv, LoopShape
<1>3. \A l \in ListNames : Heads'[l] = Heads[l]
  BY <1>0, <1>2, Names, HeadsAre DEF HeadsSpelled
<1>4. Laid(Used', next', Heads', at, rank)
  BY <1>0, <1>1, <1>3, HeadsSame DEF Inv
<1>5. \A n \in Used : at[n] \notin {Kept, Whites, Current, HeldList}
  BY <1>0, <1>2, HeadsFirst, Names, HeadsAre DEF HeadsSpelled, Inv, EmptyList
<1>6. /\ chain[p] \in Used /\ at[chain[p]] = ChainOf(p)
      /\ \A n \in Used : at[n] = ChainOf(p) => rank[chain[p]] <= rank[n]
  <2>1. Heads[ChainOf(p)] = chain[p] /\ ChainOf(p) \in ListNames
    BY <1>0, HeadsAre, Names DEF HeadsSpelled
  <2> QED
    BY <1>0, <2>1, HeadsFirst DEF Inv
<1>7. LoopShape(at, rank)' /\ HeldShape'
  BY <1>0, <1>1, <1>6 DEF LoopShape, HeldShape
<1>8. AtHome(at)'
  BY <1>0, <1>1, <1>5, Names, PartitionsAre DEF Inv, AtHome, PartitionsSpelled
<1>9. PayloadsDropped(at)'
  BY <1>0 DEF PayloadsDropped
<1>10. PayloadsLive(at)'
  BY <1>0, <1>1 DEF PayloadsLive, Inv
<1>11. PassesKept(at, rank)'
  <2> SUFFICES ASSUME NEW n \in Used, at[n] = ChainOf(p)
               PROVE  Past(n, 0) /\ ~(chain[p] = None \/ rank[n] < rank[chain[p]])
    BY <1>0, <1>1 DEF PassesKept, Due, Behind, Past
  <2>1. rank[n] \in Int /\ rank[chain[p]] \in Int /\ rank[chain[p]] <= rank[n]
    BY <1>1, <1>6
  <2> QED
    BY <1>0, <2>1 DEF Past
<1> QED
  BY <1>4, <1>7, <1>8, <1>9, <1>10, <1>11 DEF Inv

\* After the last pass nothing is due any more.
LEMMA NothingDue ==
  ASSUME LinksTypeOK, NEW at, NEW rank, Inv(at, rank), loop.pass = Len(Passes),
         NEW n \in Used, Due(n, at)
  PROVE  ~Behind(n, at, rank)
<1>1. n \in Nodes
  BY DEF Used
<1>2. PICK i \in 1..Len(Passes) : Passes[i] = DropPass(n)
  BY <1>1, PassesEnumerate
<1> QED
  BY <1>2 DEF Inv, PassesKept, Past

\* After the last pass all payloads of the chain are dropped.
LEMMA FinalizePassEndKeeps ==
  ASSUME LinksTypeOK, NEW at \in [Nodes -> ListNames], NEW rank \in [Nodes -> Int], Inv(at, rank),
         FinalizePassEnd
  PROVE  Inv(at, rank)'
<1>0. /\ loop.op = "finalize" /\ loop.current = None
      /\ status' = status /\ home' = home /\ next' = next /\ chain' = chain
      /\ loop.pass \in 1..Len(Passes) /\ loop.par \in PartitionIds
  BY DEF FinalizePassEnd, LinksTypeOK, Loops
<1>1. Used' = Used /\ Used \subseteq Nodes
  BY <1>0 DEF Used
<1>2. /\ loop.list = EmptyList /\ loop.white = EmptyList /\ loop.rest = NoRest /\ held.from = "none"
  BY <1>0 DEF Inv, LoopShape, HeldShape
<1>3. \A n \in Used : at[n] \notin {Kept, Whites, Current, HeldList}
  BY <1>0, <1>2, HeadsFirst, Names, HeadsAre DEF HeadsSpelled, Inv, EmptyList
<1>4. CASE loop.pass = Len(Passes)
  <2>0. /\ held'.from = "teardown" /\ held'.par = loop.par /\ held'.head = chain[loop.par]
        /\ loop'.op = "none" /\ loop'.current = None
        /\ loop'.list = EmptyList /\ loop'.white = EmptyList /\ loop'.rest = NoRest
    BY <1>4 DEF FinalizePassEnd, Idle
  <2>1. \A l \in ListNames : Heads'[l] = Heads[l]
    BY <1>0, <1>2, <2>0, Names, HeadsAre DEF HeadsSpelled
  <2>2. Laid(Used', next', Heads', at, rank)
    BY <1>0, <1>1, <2>1, HeadsSame DEF Inv
  <2>3. LoopShape(at, rank)' /\ HeldShape'
    BY <1>0, <2>0 DEF LoopShape, HeldShape
  <2>4. AtHome(at)'
    BY <1>0, <1>1, <1>3, Names, PartitionsAre DEF Inv, AtHome, PartitionsSpelled
  <2>5. ASSUME NEW n \in Used, at[n] = ChainOf(loop.par)
        PROVE  status[n] = "dropped"
    <3>1. ~Due(n, at)
      BY <1>0, <1>4, NothingDue DEF Behind
    <3> QED
      BY <1>0, <2>5, <3>1 DEF Due, LinksTypeOK, Used
  <2>6. PayloadsDropped(at)'
    BY <1>0, <1>1, <2>0, <2>5 DEF PayloadsDropped
  <2>7. PayloadsLive(at)'
    BY <1>0, <1>1, <1>2, <2>0 DEF PayloadsLive, Inv
  <2>8. PassesKept(at, rank)'
    BY <2>0 DEF PassesKept, Due
  <2> QED
    BY <2>2, <2>3, <2>4, <2>6, <2>7, <2>8 DEF Inv
<1>5. CASE loop.pass # Len(Passes)
  <2>0. /\ held' = held
        /\ loop'.op = "finalize" /\ loop'.par = loop.par /\ loop'.pass = loop.pass + 1
        /\ loop'.current = chain[loop.par]
        /\ loop'.list = EmptyList /\ loop'.white = EmptyList /\ loop'.rest = NoRest
    BY <1>0, <1>2, <1>5 DEF FinalizePassEnd, NextPass, LinksTypeOK, Loops
  <2>1. \A l \in ListNames : Heads'[l] = Heads[l]
    BY <1>0, <1>2, <2>0, Names, HeadsAre DEF HeadsSpelled
  <2>2. Laid(Used', next', Heads', at, rank)
    BY <1>0, <1>1, <2>1, HeadsSame DEF Inv
  <2>3. /\ chain[loop.par] # None => chain[loop.par] \in Used /\ at[chain[loop.par]] = ChainOf(loop.par)
        /\ \A n \in Used : at[n] = ChainOf(loop.par) =>
              chain[loop.par] # None /\ rank[chain[loop.par]] <= rank[n]
    <3>1. Heads[ChainOf(loop.par)] = chain[loop.par] /\ ChainOf(loop.par) \in ListNames
      BY <1>0, HeadsAre, Names DEF HeadsSpelled
    <3> QED
      BY <3>1, HeadsFirst DEF Inv
  <2>4. LoopShape(at, rank)' /\ HeldShape'
    BY <1>0, <1>1, <1>2, <2>0, <2>3 DEF LoopShape, HeldShape
  <2>5. AtHome(at)'
    BY <1>0, <1>1, <1>3, <2>0 DEF Inv, AtHome, PartitionOf
  <2>6. PayloadsDropped(at)' /\ PayloadsLive(at)'
    BY <1>0, <1>1, <1>2, <2>0 DEF PayloadsDropped, PayloadsLive, Inv
  <2>7. PassesKept(at, rank)'
    <3> SUFFICES ASSUME NEW n \in Used, Due(n, at)'
                 PROVE  /\ Past(n, loop.pass)
                        /\ ~(chain[loop.par] = None \/ rank[n] < rank[chain[loop.par]])
      BY <1>0, <1>1, <2>0 DEF PassesKept, Behind, Past
    <3>1. at[n] = ChainOf(loop.par) /\ Due(n, at)
      BY <1>0, <2>0 DEF Due
    <3>2. Past(n, loop.pass)
      BY <1>0, <3>1 DEF Inv, PassesKept, Behind
    <3>3. chain[loop.par] # None /\ rank[chain[loop.par]] <= rank[n] /\ chain[loop.par] \in Used
      BY <2>3, <3>1
    <3>4. rank[n] \in Int /\ rank[chain[loop.par]] \in Int
      BY <1>1, <3>3
    <3> QED
      BY <3>2, <3>3, <3>4
  <2> QED
    BY <2>2, <2>4, <2>5, <2>6, <2>7 DEF Inv
<1> QED
  BY <1>4, <1>5

\* What is put back as the chain is empty, as the loop left it.
LEMMA DeallocEndKeeps ==
  ASSUME LinksTypeOK, NEW at \in [Nodes -> ListNames], NEW rank \in [Nodes -> Int], Inv(at, rank),
         DeallocEnd
  PROVE  Inv(at, rank)'
<1>0. /\ loop.op = "dealloc" /\ loop.current = None
      /\ chain' = [chain EXCEPT ![loop.par] = None]
      /\ loop'.op = "none" /\ loop'.current = None
      /\ loop'.list = EmptyList /\ loop'.white = EmptyList /\ loop'.rest = NoRest
      /\ status' = status /\ home' = home /\ next' = next /\ held' = held
  BY DEF DeallocEnd, Idle
<1>1. Used' = Used /\ Used \subseteq Nodes
  BY <1>0 DEF Used
<1>2. /\ loop.list = EmptyList /\ loop.white = EmptyList /\ loop.rest = NoRest /\ held.from = "none"
      /\ loop.par \in PartitionIds
  BY <1>0 DEF Inv, LoopShape, HeldShape, LinksTypeOK, Loops
<1>3. \A l \in ListNames : Heads'[l] = Heads[l]
  BY <1>0, <1>2, Names, HeadsAre DEF HeadsSpelled, LinksTypeOK
<1>4. Laid(Used', next', Heads', at, rank)
  BY <1>0, <1>1, <1>3, HeadsSame DEF Inv
<1>5. \A n \in Used : at[n] \notin {Kept, Whites, Current, HeldList}
  BY <1>0, <1>2, HeadsFirst, Names, HeadsAre DEF HeadsSpelled, Inv, EmptyList
<1>6. LoopShape(at, rank)' /\ HeldShape'
  BY <1>0, <1>2 DEF LoopShape, HeldShape
<1>7. AtHome(at)'
  BY <1>0, <1>1, <1>5, Names, PartitionsAre DEF Inv, AtHome, PartitionsSpelled
<1>8. PayloadsDropped(at)' /\ PayloadsLive(at)'
  BY <1>0, <1>1, <1>2 DEF PayloadsDropped, PayloadsLive, Inv
<1>9. PassesKept(at, rank)'
  BY <1>0 DEF PassesKept, Due
<1> QED
  BY <1>4, <1>6, <1>7, <1>8, <1>9 DEF Inv

\* After the last round of a loop that empties its list, the list is empty.
LEMMA LastRoundEmpties ==
  ASSUME LinksTypeOK, NEW at \in [Nodes -> ListNames], NEW rank \in [Nodes -> Int], Inv(at, rank),
         loop.op \in {"dispose", "drop"}, loop.current = None, LastRound
  PROVE  loop.list.head = None
<1>1. Heads[Kept] = loop.list.head /\ Kept \in ListNames
  BY HeadsAre, Names DEF HeadsSpelled
<1>2. CASE loop.pass = Len(Passes) /\ loop.list.head # None
  <2> DEFINE n == loop.list.head
  <2>1. n \in Used /\ at[n] = Kept
    BY <1>1, <1>2, HeadsFirst DEF Inv
  <2>2. Due(n, at) /\ Behind(n, at, rank)
    BY <2>1 DEF Due, Behind
  <2> QED
    BY <1>2, <2>1, <2>2, NothingDue
<1> QED
  BY <1>2 DEF LastRound

\* What was kept is what the next pass goes through.
LEMMA DisposePassEndKeeps ==
  ASSUME LinksTypeOK, NEW at \in [Nodes -> ListNames], NEW rank \in [Nodes -> Int], Inv(at, rank),
         DisposePassEnd
  PROVE  \E at2 \in [Nodes -> ListNames] : Inv(at2, rank)'
<1>0. /\ loop.op = "dispose" /\ loop.current = None
      /\ status' = status /\ home' = home /\ next' = next /\ chain' = chain /\ held' = held
      /\ loop.pass \in 1..Len(Passes) /\ loop.par \in PartitionIds
  BY DEF DisposePassEnd, LinksTypeOK, Loops
<1>1. Used' = Used /\ Used \subseteq Nodes
  BY <1>0 DEF Used
<1>2. loop.white = EmptyList /\ loop.rest = NoRest /\ held.from = "none"
  BY <1>0 DEF Inv, LoopShape, HeldShape
<1>3. \A n \in Used : at[n] \notin {Whites, Current, HeldList}
  BY <1>0, <1>2, HeadsFirst, Names, HeadsAre DEF HeadsSpelled, Inv, EmptyList
<1>4. CASE LastRound
  <2>0. /\ loop'.op = "none" /\ loop'.current = None
        /\ loop'.list = EmptyList /\ loop'.white = EmptyList /\ loop'.rest = NoRest
    BY <1>4 DEF DisposePassEnd, Idle
  <2>1. loop.list.head = None
    BY <1>0, <1>4, LastRoundEmpties
  <2>2. \A l \in ListNames : Heads'[l] = Heads[l]
    BY <1>0, <1>2, <2>0, <2>1, Names, HeadsAre DEF HeadsSpelled, EmptyList
  <2>3. Laid(Used', next', Heads', at, rank)
    BY <1>0, <1>1, <2>2, HeadsSame DEF Inv
  <2>4. \A n \in Used : at[n] # Kept
    BY <2>1, HeadsFirst, Names, HeadsAre DEF HeadsSpelled, Inv
  <2>5. LoopShape(at, rank)' /\ HeldShape'
    BY <1>0, <1>2, <2>0 DEF LoopShape, HeldShape
  <2>6. AtHome(at)'
    BY <1>0, <1>1, <1>3, <2>4, Names, PartitionsAre DEF Inv, AtHome, PartitionsSpelled
  <2>7. PayloadsDropped(at)' /\ PayloadsLive(at)'
    BY <1>0, <1>1, <1>2, <2>0 DEF PayloadsDropped, PayloadsLive, Inv
  <2>8. PassesKept(at, rank)'
    BY <2>0 DEF PassesKept, Due
  <2> QED
    BY <2>3, <2>5, <2>6, <2>7, <2>8 DEF Inv
<1>5. CASE ~LastRound
  <2>0. /\ loop'.op = "dispose" /\ loop'.par = loop.par /\ loop'.pass = loop.pass + 1
        /\ loop'.current = loop.list.head
        /\ loop'.list = EmptyList /\ loop'.white = EmptyList /\ loop'.rest = NoRest
    BY <1>0, <1>2, <1>5 DEF DisposePassEnd, NextPass, LinksTypeOK, Loops
  <2>1. PICK at2 \in [Nodes -> ListNames] :
          at2 = [m \in Nodes |-> IF at[m] = Kept THEN Current ELSE at[m]]
    BY Names
  <2>2. Moves(Used, Heads, at, Kept, Current, Heads', at2)
    <3>1. Heads[Current] = None /\ Heads'[Current] = Heads[Kept] /\ Heads'[Kept] = None
      BY <1>0, <2>0, HeadsAre DEF HeadsSpelled, EmptyList
    <3>2. ASSUME NEW l \in ListNames \ {Kept, Current}
          PROVE  Heads'[l] = Heads[l]
      <4>1. CASE l \in {Whites, HeldList}
        BY <1>0, <1>2, <2>0, <4>1, HeadsAre DEF HeadsSpelled
      <4>2. ASSUME NEW p \in PartitionIds, l = ChainOf(p) \/ l = RestOf(p)
            PROVE  Heads'[l] = Heads[l]
        BY <1>0, <1>2, <2>0, <4>2, HeadsAre DEF HeadsSpelled
      <4> QED
        BY <3>2, <4>1, <4>2, Names
    <3> QED
      BY <1>1, <2>1, <3>1, <3>2, Names, NamesDiffer DEF Moves
  <2>3. Laid(Used', next', Heads', at2, rank)
    BY <1>0, <1>1, <2>2, Moved DEF Inv
  <2>4. \A n \in Used : \/ at[n] = Kept /\ at2[n] = Current
                        \/ at2[n] = at[n] /\ at2[n] \notin {Kept, Whites, Current, HeldList}
    BY <1>1, <1>3, <2>1
  <2>5. LoopShape(at2, rank)' /\ HeldShape'
    BY <1>0, <1>1, <1>2, <2>0, <2>4, NamesDiffer DEF LoopShape, HeldShape, EndsAtTail, InOldOrder, EmptyList
  <2>6. AtHome(at2)'
    BY <1>0, <1>1, <2>0, <2>4, Names, PartitionsAre DEF Inv, AtHome, PartitionsSpelled
  <2>7. PayloadsDropped(at2)' /\ PayloadsLive(at2)'
    <3>1. PayloadsDropped(at) /\ PayloadsLive(at)
      BY DEF Inv
    <3>2. \A n \in Used : at2[n] \in {Current, Kept} => at[n] = Kept
      BY <2>4
    <3>3. \A n \in Used, p \in PartitionIds : at2[n] = ChainOf(p) => at[n] = ChainOf(p)
      BY <2>4, NamesDiffer
    <3>4. PayloadsDropped(at2)'
      BY <1>0, <1>1, <1>2, <2>0, <3>1, <3>2 DEF PayloadsDropped
    <3>5. PayloadsLive(at2)'
      BY <1>0, <1>1, <2>0, <3>1, <3>3 DEF PayloadsLive
    <3> QED
      BY <3>4, <3>5
  <2>8. PassesKept(at2, rank)'
    <3> SUFFICES ASSUME NEW n \in Used, at2[n] \in {Current, Kept}
                 PROVE  Past(n, loop.pass) /\ at2[n] # Kept
      BY <1>0, <1>1, <2>0 DEF PassesKept, Due, Behind, Past
    <3>1. at[n] = Kept /\ at2[n] = Current
      BY <2>4
    <3>2. Due(n, at) /\ Behind(n, at, rank)
      BY <1>0, <3>1 DEF Due, Behind
    <3> QED
      BY <3>1, <3>2, NamesDiffer DEF Inv, PassesKept
  <2> QED
    BY <2>3, <2>5, <2>6, <2>7, <2>8 DEF Inv
<1> QED
  BY <1>4, <1>5

\* The next pass goes through the list from its head.
LEMMA FilterPassEndKeeps ==
  ASSUME LinksTypeOK, NEW at \in [Nodes -> ListNames], NEW rank \in [Nodes -> Int], Inv(at, rank),
         FilterPassEnd
  PROVE  Inv(at, rank)'
<1>0. /\ loop.op \in {"sweep", "drop"} /\ loop.current = None
      /\ loop'.op = loop.op /\ loop'.par = loop.par /\ loop'.pass = loop.pass + 1
      /\ loop'.current = loop.list.head /\ loop'.list = [head |-> loop.list.head, tail |-> None]
      /\ loop'.white = loop.white /\ loop'.rest = loop.rest
      /\ status' = status /\ home' = home /\ next' = next /\ chain' = chain /\ held' = held
      /\ doomed' = doomed /\ loop.pass \in 1..Len(Passes)
  BY DEF FilterPassEnd, NextPass, LinksTypeOK, Loops, Lists
<1>1. Used' = Used /\ Used \subseteq Nodes
  BY <1>0 DEF Used
<1>2. \A l \in ListNames : Heads'[l] = Heads[l]
  BY <1>0, Names, HeadsAre DEF HeadsSpelled
<1>3. Laid(Used', next', Heads', at, rank)
  BY <1>0, <1>1, <1>2, HeadsSame DEF Inv
<1>4. LoopShape(at, rank)' /\ HeldShape'
  BY <1>0, <1>1 DEF LoopShape, HeldShape, PrevIsBefore, DoomedKept, Inv
<1>5. AtHome(at)'
  BY <1>0, <1>1 DEF Inv, AtHome, PartitionOf
<1>6. PayloadsDropped(at)' /\ PayloadsLive(at)'
  BY <1>0, <1>1 DEF PayloadsDropped, PayloadsLive, Inv
<1>7. PassesKept(at, rank)'
  <2> SUFFICES ASSUME NEW n \in Used, Due(n, at)'
               PROVE  /\ Past(n, loop.pass)
                      /\ ~(loop.list.head = None \/ rank[n] < rank[loop.list.head])
    BY <1>0, <1>1 DEF PassesKept, Behind, Past
  <2>1. at[n] = Kept /\ Due(n, at)
    BY <1>0 DEF Due
  <2>2. Past(n, loop.pass)
    BY <1>0, <2>1 DEF Inv, PassesKept, Behind
  <2>3. loop.list.head \in Used /\ rank[loop.list.head] <= rank[n]
    BY <2>1, HeadsFirst, Names, HeadsAre DEF HeadsSpelled, Inv
  <2>4. rank[n] \in Int /\ rank[loop.list.head] \in Int
    BY <1>1, <2>3
  <2>5. loop.list.head # None
    BY <2>3, LinksLead
  <2> QED
    BY <2>2, <2>3, <2>4, <2>5
<1> QED
  BY <1>3, <1>4, <1>5, <1>6, <1>7 DEF Inv

\* What sweep leaves becomes the chain again.
LEMMA SweepEndKeeps ==
  ASSUME LinksTypeOK, NEW at \in [Nodes -> ListNames], NEW rank \in [Nodes -> Int], Inv(at, rank),
         SweepEnd
  PROVE  \E at2 \in [Nodes -> ListNames] : Inv(at2, rank)'
<1>0. /\ loop.op = "sweep" /\ loop.current = None
      /\ chain' = [chain EXCEPT ![loop.par] = loop.list.head]
      /\ loop'.op = "none" /\ loop'.current = None
      /\ loop'.list = EmptyList /\ loop'.white = EmptyList /\ loop'.rest = NoRest
      /\ status' = status /\ home' = home /\ next' = next /\ held' = held
  BY DEF SweepEnd, Idle
<1>1. Used' = Used /\ Used \subseteq Nodes
  BY <1>0 DEF Used
<1>2. /\ loop.white = EmptyList /\ loop.rest = NoRest /\ chain[loop.par] = None
      /\ loop.par \in PartitionIds
  BY <1>0 DEF Inv, LoopShape, LinksTypeOK, Loops
<1>3. PICK at2 \in [Nodes -> ListNames] :
        at2 = [m \in Nodes |-> IF at[m] = Kept THEN ChainOf(loop.par) ELSE at[m]]
  BY <1>2, Names
<1>4. Moves(Used, Heads, at, Kept, ChainOf(loop.par), Heads', at2)
  <2>1. Kept \in ListNames /\ ChainOf(loop.par) \in ListNames /\ Kept # ChainOf(loop.par)
    BY <1>2, Names, NamesDiffer
  <2>2. /\ Heads[ChainOf(loop.par)] = None /\ Heads'[ChainOf(loop.par)] = Heads[Kept]
        /\ Heads'[Kept] = None
    BY <1>0, <1>2, HeadsAre DEF HeadsSpelled, LinksTypeOK, EmptyList
  <2>3. \A l \in ListNames \ {Kept, ChainOf(loop.par)} : Heads'[l] = Heads[l]
    BY <1>0, <1>2, Names, HeadsAre DEF HeadsSpelled, LinksTypeOK, EmptyList
  <2> QED
    BY <1>1, <1>3, <2>1, <2>2, <2>3 DEF Moves
<1>5. Laid(Used', next', Heads', at2, rank)
  BY <1>0, <1>1, <1>4, Moved DEF Inv
<1>6. \A n \in Used : at[n] \notin {Whites, Current, ChainOf(loop.par)}
  BY <1>0, <1>2, HeadsFirst, Names, HeadsAre DEF HeadsSpelled, Inv, EmptyList
<1>7. \A n \in Used : \/ at[n] = Kept /\ at2[n] = ChainOf(loop.par)
                      \/ at2[n] = at[n] /\ at2[n] \notin {Kept, Whites, Current, ChainOf(loop.par)}
  BY <1>1, <1>3, <1>6
<1>8. LoopShape(at2, rank)'
  BY <1>0 DEF LoopShape
<1>9. HeldShape'
  BY <1>0 DEF HeldShape, Inv, LinksTypeOK
<1>10. AtHome(at2)'
  BY <1>0, <1>1, <1>7, Names, PartitionsAre DEF Inv, AtHome, PartitionsSpelled
<1>11. PayloadsDropped(at2)'
  <2>1. held.from = "teardown" => held.par # loop.par
    BY <1>0 DEF Inv, HeldShape
  <2>2. \A n \in Used : at2[n] = HeldList => at[n] = HeldList
    BY <1>7, NamesDiffer
  <2>3. \A n \in Used, q \in PartitionIds : at2[n] = ChainOf(q) /\ q # loop.par => at[n] = ChainOf(q)
    BY <1>7, NamesDiffer
  <2> QED
    BY <1>0, <1>1, <2>1, <2>2, <2>3 DEF PayloadsDropped, Inv, LinksTypeOK
<1>12. PayloadsLive(at2)'
  BY <1>0, <1>1, <1>7, NamesDiffer DEF PayloadsLive, Inv
<1>13. PassesKept(at2, rank)'
  BY <1>0 DEF PassesKept, Due
<1> QED
  BY <1>5, <1>8, <1>9, <1>10, <1>11, <1>12, <1>13 DEF Inv

\* All chains are taken at once: the first is gone through, the others wait.
LEMMA DropHeapKeeps ==
  ASSUME LinksTypeOK, NEW at \in [Nodes -> ListNames], NEW rank \in [Nodes -> Int], Inv(at, rank),
         DropHeap
  PROVE  \E at2 \in [Nodes -> ListNames] : Inv(at2, rank)'
<1>0. /\ loop.op = "none" /\ held.from = "none"
      /\ \A p \in PartitionIds : chain'[p] = None
      /\ loop'.op = "drop" /\ loop'.par = 1 /\ loop'.pass = 1 /\ loop'.current = chain[1]
      /\ loop'.list = [head |-> chain[1], tail |-> None] /\ loop'.white = EmptyList
      /\ loop'.rest = [chain EXCEPT ![1] = None]
      /\ status' = status /\ home' = home /\ next' = next /\ held' = held
  BY DEF DropHeap, HostMayUse, Idle, NoList, EmptyList
<1>p. 1 \in PartitionIds /\ \A p \in PartitionIds : p <= 1 => p = 1
  BY LinksAssumption DEF PartitionIds
<1>1. Used' = Used /\ Used \subseteq Nodes
  BY <1>0 DEF Used
<1>2. loop.list = EmptyList /\ loop.white = EmptyList /\ loop.rest = NoRest
  BY <1>0 DEF Inv, LoopShape
<1>3. \A n \in Used : /\ at[n] \notin {Kept, Whites, Current, HeldList}
                      /\ \A p \in PartitionIds : at[n] # RestOf(p)
  BY <1>0, <1>2, HeadsFirst, Names, HeadsAre DEF HeadsSpelled, Inv, EmptyList, NoRest
<1> DEFINE f == [l \in ListNames |->
                    IF l = ChainOf(1) THEN Kept
                    ELSE IF \E p \in PartitionIds : l = ChainOf(p) THEN RestOf(l[2]) ELSE l]
<1>4. /\ f \in [ListNames -> ListNames]
      /\ f[ChainOf(1)] = Kept
      /\ \A p \in PartitionIds : p # 1 => f[ChainOf(p)] = RestOf(p)
  <2>1. \A p \in PartitionIds : ChainOf(p)[2] = p /\ ChainOf(p) \in ListNames /\ RestOf(p) \in ListNames
    BY Names DEF ChainOf
  <2>2. Kept \in ListNames /\ \A p \in PartitionIds : p # 1 => ChainOf(p) # ChainOf(1)
    BY Names, NamesDiffer
  <2>3. ASSUME NEW l \in ListNames
        PROVE  f[l] \in ListNames
    BY <2>1, <2>2
  <2> QED
    BY <1>p, <2>1, <2>2, <2>3
<1> HIDE DEF f
<1>5. PICK at2 \in [Nodes -> ListNames] : at2 = [m \in Nodes |-> f[at[m]]]
  BY <1>4
<1>6. \A l \in ListNames : Heads[l] # None => \E p \in PartitionIds : l = ChainOf(p) /\ Heads[l] = chain[p]
  BY <1>0, <1>2, Names, HeadsAre DEF HeadsSpelled, EmptyList, NoRest
<1>7. /\ Heads'[Kept] = chain[1] /\ \A p \in PartitionIds : Heads'[ChainOf(p)] = None
      /\ \A p \in PartitionIds : Heads'[RestOf(p)] = IF p = 1 THEN None ELSE chain[p]
      /\ Heads'[Whites] = None /\ Heads'[HeldList] = None /\ Heads'[Current] = None
  BY <1>0, <1>p, HeadsAre DEF HeadsSpelled, EmptyList, LinksTypeOK
<1>8. Renames(Used, Heads, at, f, Heads', at2)
  <2>1. \A n \in Used : at[n] \in ListNames /\ at2[n] = f[at[n]]
    BY <1>1, <1>5
  <2>2. ASSUME NEW l \in ListNames, NEW m \in ListNames, Heads[l] # None, Heads[m] # None, f[l] = f[m]
        PROVE  l = m
    <3>1. PICK p \in PartitionIds, q \in PartitionIds : l = ChainOf(p) /\ m = ChainOf(q)
      BY <1>6, <2>2
    <3>2. \A x \in PartitionIds : RestOf(x) # Kept
      BY NamesDiffer
    <3>3. CASE p = 1 \/ q = 1
      BY <1>4, <2>2, <3>1, <3>2, <3>3
    <3>4. CASE p # 1 /\ q # 1
      <4>1. RestOf(p) = RestOf(q)
        BY <1>4, <2>2, <3>1, <3>4
      <4> QED
        BY <3>1, <4>1, NamesDiffer
    <3> QED
      BY <3>3, <3>4
  <2>3. ASSUME NEW l \in ListNames, Heads[l] # None
        PROVE  Heads'[f[l]] = Heads[l]
    BY <1>4, <1>6, <1>7, <2>3
  <2>4. ASSUME NEW m \in ListNames, Heads'[m] # None
        PROVE  \E l \in ListNames : Heads[l] # None /\ f[l] = m
    <3>1. \A p \in PartitionIds : Heads[ChainOf(p)] = chain[p] /\ ChainOf(p) \in ListNames
      BY <1>0, HeadsAre, Names DEF HeadsSpelled
    <3>2. CASE m = Kept
      BY <1>p, <1>4, <1>7, <2>4, <3>1, <3>2
    <3>3. ASSUME NEW p \in PartitionIds, m = RestOf(p) PROVE p # 1 /\ chain[p] # None
      BY <1>7, <2>4, <3>3
    <3>4. ASSUME NEW p \in PartitionIds, m = RestOf(p)
          PROVE  Heads[ChainOf(p)] # None /\ f[ChainOf(p)] = m
      BY <1>4, <3>1, <3>3, <3>4
    <3> QED
      BY <1>7, <2>4, <3>1, <3>2, <3>4, Names
  <2> QED
    BY <1>4, <2>1, <2>2, <2>3, <2>4 DEF Renames
<1>9. Laid(Used', next', Heads', at2, rank)
  BY <1>0, <1>1, <1>8, Renamed DEF Inv
<1>10. \A n \in Used : \E p \in PartitionIds :
          at[n] = ChainOf(p) /\ at2[n] = IF p = 1 THEN Kept ELSE RestOf(p)
  <2> SUFFICES ASSUME NEW n \in Used
               PROVE  \E p \in PartitionIds : at[n] = ChainOf(p) /\ at2[n] = IF p = 1 THEN Kept ELSE RestOf(p)
    OBVIOUS
  <2>1. PICK p \in PartitionIds : at[n] = ChainOf(p)
    BY <1>1, <1>3, Names
  <2> QED
    BY <1>1, <1>4, <1>5, <2>1
<1>11. LoopShape(at2, rank)'
  BY <1>0, <1>p, LinksLead DEF LoopShape, PrevIsBefore, LinksTypeOK
<1>12. HeldShape'
  BY <1>0 DEF HeldShape
<1>13. AtHome(at2)'
  BY <1>0, <1>1, <1>10, PartitionsAre DEF Inv, AtHome, PartitionsSpelled
<1>14. PayloadsDropped(at2)' /\ PayloadsLive(at2)'
  BY <1>0, <1>1, <1>10, NamesDiffer DEF PayloadsDropped, PayloadsLive, Inv
<1>15. PassesKept(at2, rank)'
  <2> SUFFICES ASSUME NEW n \in Used, at2[n] = Kept
               PROVE  Past(n, 0) /\ ~(chain[1] = None \/ rank[n] < rank[chain[1]])
    BY <1>0, <1>1 DEF PassesKept, Due, Behind, Past
  <2>1. at[n] = ChainOf(1) /\ Heads[ChainOf(1)] = chain[1] /\ ChainOf(1) \in ListNames
    <3>1. at[n] = ChainOf(1)
      BY <1>10, NamesDiffer
    <3>2. Heads[ChainOf(1)] = chain[1]
      BY <1>0, <1>p, HeadsAre DEF HeadsSpelled
    <3> QED
      BY <1>p, <3>1, <3>2, Names
  <2>2. chain[1] \in Used /\ rank[chain[1]] <= rank[n]
    BY <2>1, HeadsFirst DEF Inv
  <2>3. rank[n] \in Int /\ rank[chain[1]] \in Int /\ chain[1] # None
    BY <1>1, <2>2, LinksLead
  <2> QED
    BY <2>2, <2>3 DEF Past
<1> QED
  BY <1>9, <1>11, <1>12, <1>13, <1>14, <1>15 DEF Inv

\* The list is empty when the next chain takes its place.
LEMMA DropNextChainKeeps ==
  ASSUME LinksTypeOK, NEW at \in [Nodes -> ListNames], NEW rank \in [Nodes -> Int], Inv(at, rank),
         DropNextChain
  PROVE  \E at2 \in [Nodes -> ListNames] : Inv(at2, rank)'
<1>0. /\ loop.op = "drop" /\ loop.current = None /\ LastRound
      /\ status' = status /\ home' = home /\ next' = next /\ chain' = chain /\ held' = held
      /\ loop.par \in PartitionIds
  BY DEF DropNextChain, LinksTypeOK, Loops
<1>1. Used' = Used /\ Used \subseteq Nodes
  BY <1>0 DEF Used
<1>2. /\ loop.list.head = None /\ loop.white = EmptyList /\ held.from = "none"
      /\ \A p \in PartitionIds : chain[p] = None /\ (p <= loop.par => loop.rest[p] = None)
  BY <1>0, LastRoundEmpties DEF Inv, LoopShape, HeldShape
<1>3. \A n \in Used : /\ at[n] \notin {Kept, Whites, Current, HeldList}
                      /\ \A p \in PartitionIds : at[n] # ChainOf(p)
  BY <1>0, <1>2, HeadsFirst, Names, HeadsAre DEF HeadsSpelled, Inv, EmptyList
<1>4. CASE loop.par = MaxPartitions
  <2>0. /\ loop'.op = "gone" /\ loop'.current = None
        /\ loop'.list = EmptyList /\ loop'.white = EmptyList /\ loop'.rest = NoRest
    BY <1>4 DEF DropNextChain, Idle
  <2>1. \A p \in PartitionIds : loop.rest[p] = None
    BY <1>2, <1>4, LinksAssumption DEF PartitionIds
  <2>2. \A l \in ListNames : Heads'[l] = Heads[l]
    BY <1>0, <1>2, <2>0, <2>1, Names, HeadsAre DEF HeadsSpelled, EmptyList, NoRest
  <2>3. Laid(Used', next', Heads', at, rank)
    BY <1>0, <1>1, <2>2, HeadsSame DEF Inv
  <2>4. LoopShape(at, rank)' /\ HeldShape'
    BY <1>0, <1>2, <2>0 DEF LoopShape, HeldShape
  <2>5. AtHome(at)'
    BY <1>0, <1>1, <1>3, Names, PartitionsAre DEF Inv, AtHome, PartitionsSpelled
  <2>6. PayloadsDropped(at)' /\ PayloadsLive(at)'
    BY <1>0, <1>1, <1>2, <1>3, <2>0 DEF PayloadsDropped, PayloadsLive, Inv
  <2>7. PassesKept(at, rank)'
    BY <2>0 DEF PassesKept, Due
  <2> QED
    BY <2>3, <2>4, <2>5, <2>6, <2>7 DEF Inv
<1>5. CASE loop.par # MaxPartitions
  <2>1. PICK p \in PartitionIds : p = loop.par + 1
    BY <1>0, <1>5, LinksAssumption DEF PartitionIds
  <2>2. /\ loop'.op = "drop" /\ loop'.par = p /\ loop'.pass = 1 /\ loop'.current = loop.rest[p]
        /\ loop'.list = [head |-> loop.rest[p], tail |-> None] /\ loop'.white = EmptyList
        /\ loop'.rest = [loop.rest EXCEPT ![p] = None]
        /\ loop.rest \in [PartitionIds -> MaybeNode]
    BY <1>0, <1>2, <1>5, <2>1 DEF DropNextChain, LinksTypeOK, Loops
  <2>3. PICK at2 \in [Nodes -> ListNames] :
          at2 = [m \in Nodes |-> IF at[m] = RestOf(p) THEN Kept ELSE at[m]]
    BY Names
  <2>4. Moves(Used, Heads, at, RestOf(p), Kept, Heads', at2)
    <3>1. Kept \in ListNames /\ RestOf(p) \in ListNames /\ Kept # RestOf(p)
      BY Names, NamesDiffer
    <3>2. Heads[Kept] = None /\ Heads'[Kept] = Heads[RestOf(p)] /\ Heads'[RestOf(p)] = None
      BY <1>2, <2>2, HeadsAre DEF HeadsSpelled
    <3>3. \A l \in ListNames \ {RestOf(p), Kept} : Heads'[l] = Heads[l]
      BY <1>0, <1>2, <2>2, Names, HeadsAre DEF HeadsSpelled, EmptyList
    <3> QED
      BY <1>1, <2>3, <3>1, <3>2, <3>3 DEF Moves
  <2>5. Laid(Used', next', Heads', at2, rank)
    BY <1>0, <1>1, <2>4, Moved DEF Inv
  <2>6. \A n \in Used : \/ at[n] = RestOf(p) /\ at2[n] = Kept
                        \/ at2[n] = at[n] /\ at2[n] \notin {Kept, Whites, Current, HeldList}
    BY <1>1, <1>3, <2>3
  <2>7. LoopShape(at2, rank)'
    <3>1. \A q \in PartitionIds : q <= p => q = p \/ q <= loop.par
      BY <1>0, <2>1 DEF PartitionIds
    <3> QED
      BY <1>0, <1>2, <2>2, <3>1 DEF LoopShape, PrevIsBefore
  <2>8. HeldShape'
    BY <1>0, <1>2 DEF HeldShape
  <2>9. AtHome(at2)'
    BY <1>0, <1>1, <1>3, <2>2, <2>6, Names, PartitionsAre DEF Inv, AtHome, PartitionsSpelled
  <2>10. PayloadsDropped(at2)' /\ PayloadsLive(at2)'
    <3>1. \A n \in Used, q \in PartitionIds : at2[n] # ChainOf(q)
      BY <1>3, <2>6, NamesDiffer
    <3> QED
      BY <1>0, <1>1, <1>2, <2>2, <3>1 DEF PayloadsDropped, PayloadsLive
  <2>11. PassesKept(at2, rank)'
    <3> SUFFICES ASSUME NEW n \in Used, at2[n] = Kept
                 PROVE  Past(n, 0) /\ ~(loop.rest[p] = None \/ rank[n] < rank[loop.rest[p]])
      BY <1>1, <2>2 DEF PassesKept, Due, Behind, Past
    <3>1. at[n] = RestOf(p) /\ Heads[RestOf(p)] = loop.rest[p] /\ RestOf(p) \in ListNames
      BY <2>6, Names, HeadsAre DEF HeadsSpelled
    <3>2. loop.rest[p] \in Used /\ rank[loop.rest[p]] <= rank[n]
      BY <3>1, HeadsFirst DEF Inv
    <3>3. rank[n] \in Int /\ rank[loop.rest[p]] \in Int /\ loop.rest[p] # None
      BY <1>1, <3>2, LinksLead
    <3> QED
      BY <3>2, <3>3 DEF Past
  <2> QED
    BY <2>5, <2>7, <2>8, <2>9, <2>10, <2>11 DEF Inv
<1> QED
  BY <1>4, <1>5

\* The survivors become the chain, the white nodes what the host holds.
LEMMA UnlinkEndKeeps ==
  ASSUME LinksTypeOK, NEW at \in [Nodes -> ListNames], NEW rank \in [Nodes -> Int], Inv(at, rank),
         UnlinkEnd
  PROVE  \E at2 \in [Nodes -> ListNames] : Inv(at2, rank)'
<1>0. /\ loop.op = "unlink" /\ loop.current = None
      /\ chain' = [chain EXCEPT ![loop.par] = loop.list.head]
      /\ held' = IF loop.white.head = None THEN NoList
                 ELSE [from |-> "sweep", par |-> loop.par, head |-> loop.white.head]
      /\ loop'.op = "none" /\ loop'.current = None
      /\ loop'.list = EmptyList /\ loop'.white = EmptyList /\ loop'.rest = NoRest
      /\ status' = status /\ home' = home /\ next' = next
  BY DEF UnlinkEnd, Idle
<1>1. Used' = Used /\ Used \subseteq Nodes
  BY <1>0 DEF Used
<1>2. loop.rest = NoRest /\ chain[loop.par] = None /\ loop.par \in PartitionIds /\ held.from = "none"
  BY <1>0 DEF Inv, LoopShape, HeldShape, LinksTypeOK, Loops
<1> DEFINE c == ChainOf(loop.par)
<1>n. /\ {c, Kept, Whites, HeldList, Current} \subseteq ListNames
      /\ c \notin {Kept, Whites, HeldList, Current}
      /\ Kept # Whites /\ Kept # HeldList /\ Whites # HeldList
  BY <1>2, Names, NamesDiffer
<1>3. PICK at1 \in [Nodes -> ListNames] : at1 = [m \in Nodes |-> IF at[m] = Kept THEN c ELSE at[m]]
  BY <1>n
<1>4. PICK at2 \in [Nodes -> ListNames] : at2 = [m \in Nodes |-> IF at1[m] = Whites THEN HeldList ELSE at1[m]]
  BY <1>n
<1> DEFINE hd == [l \in ListNames |-> IF l = c THEN loop.list.head ELSE IF l = Kept THEN None ELSE Heads[l]]
<1>5. /\ Heads[c] = None /\ Heads[Kept] = loop.list.head /\ Heads[Whites] = loop.white.head
      /\ Heads[HeldList] = None /\ Heads[Current] = None
      /\ Heads'[c] = loop.list.head /\ Heads'[Kept] = None /\ Heads'[Whites] = None
      /\ Heads'[HeldList] = loop.white.head
  BY <1>0, <1>2, HeadsAre DEF HeadsSpelled, LinksTypeOK, EmptyList, NoList
<1>6. \A l \in ListNames \ {c, Kept, Whites, HeldList} : Heads'[l] = Heads[l]
  BY <1>0, <1>2, Names, HeadsAre DEF HeadsSpelled, LinksTypeOK, EmptyList
<1> HIDE DEF c
<1>7. Moves(Used, Heads, at, Kept, c, hd, at1)
  BY <1>1, <1>3, <1>5, <1>n DEF Moves
<1>8. Moves(Used, hd, at1, Whites, HeldList, Heads', at2)
  BY <1>1, <1>3, <1>4, <1>5, <1>6, <1>n DEF Moves
<1>9. Laid(Used', next', Heads', at2, rank)
  <2>1. Laid(Used, next, hd, at1, rank)
    BY <1>7, Moved DEF Inv
  <2> HIDE DEF hd
  <2>2. Laid(Used, next, Heads', at2, rank)
    BY <1>8, <2>1, Moved
  <2> QED
    BY <1>0, <1>1, <2>2
<1>10. \A n \in Used : at[n] \notin {c, HeldList, Current} /\ (loop.white.head = None => at[n] # Whites)
  BY <1>5, <1>n, HeadsFirst DEF Inv
<1>11. \A n \in Used : \/ at[n] = Kept /\ at2[n] = c
                       \/ at[n] = Whites /\ at2[n] = HeldList /\ loop.white.head # None
                       \/ at2[n] = at[n] /\ at2[n] \notin {c, Kept, Whites, HeldList, Current}
  BY <1>1, <1>3, <1>4, <1>10, <1>n
<1>12. LoopShape(at2, rank)'
  BY <1>0 DEF LoopShape
<1>13. HeldShape'
  BY <1>0 DEF HeldShape, NoList
<1>14. AtHome(at2)'
  <2>1. loop.white.head # None => held'.par = loop.par
    BY <1>0
  <2>2. ASSUME NEW n \in Used
        PROVE  home[n] = PartitionOf(at2[n])'
    <3>1. CASE at[n] = Kept /\ at2[n] = c
      BY <1>0, <3>1, PartitionsAre DEF Inv, AtHome, PartitionsSpelled, c
    <3>2. CASE at[n] = Whites /\ at2[n] = HeldList /\ loop.white.head # None
      BY <1>0, <2>1, <3>2, PartitionsAre DEF Inv, AtHome, PartitionsSpelled
    <3>3. CASE at2[n] = at[n] /\ at2[n] \notin {c, Kept, Whites, HeldList, Current}
      <4>1. PICK p \in PartitionIds : at[n] = ChainOf(p) \/ at[n] = RestOf(p)
        BY <1>1, <3>3, Names
      <4> QED
        BY <3>3, <4>1, PartitionsAre DEF Inv, AtHome, PartitionsSpelled
    <3> QED
      BY <1>11, <3>1, <3>2, <3>3
  <2> QED
    BY <1>0, <1>1, <2>2 DEF AtHome
<1>15. \A n \in Used : at[n] \in {Kept, Whites} => status[n] = "live"
  BY <1>0 DEF Inv, PayloadsLive
<1>16. PayloadsDropped(at2)'
  BY <1>0, <1>1, <1>11, <1>15, <1>n DEF PayloadsDropped, NoList
<1>17. PayloadsLive(at2)'
  BY <1>0, <1>1, <1>2, <1>11, <1>15, <1>n, NamesDiffer DEF PayloadsLive, Inv
<1>18. PassesKept(at2, rank)'
  BY <1>0 DEF PassesKept, Due
<1> QED
  BY <1>9, <1>12, <1>13, <1>14, <1>16, <1>17, <1>18 DEF Inv

\* What comes before the next node is that node or came before it.
LEMMA BeforeNext ==
  ASSUME LinksTypeOK, NEW at \in [Nodes -> ListNames], NEW rank \in [Nodes -> Int], Inv(at, rank),
         NEW n \in Used, NEW m \in Used, at[m] = at[n], next[n] = None \/ rank[m] < rank[next[n]]
  PROVE  m = n \/ rank[m] < rank[n]
<1>1. FirstOf(next[n], Beyond(Used, at, rank, n), rank)
  BY DEF Inv, Laid
<1>2. Used \subseteq Nodes
  BY DEF Used
<1>3. rank[m] \in Int /\ rank[n] \in Int
  BY <1>2
<1>4. ~(rank[n] < rank[m])
  <2>1. SUFFICES ASSUME rank[n] < rank[m] PROVE FALSE
    OBVIOUS
  <2>2. m \in Beyond(Used, at, rank, n)
    BY <2>1 DEF Beyond
  <2>3. next[n] # None /\ next[n] \in Used /\ rank[next[n]] <= rank[m]
    BY <1>1, <2>2 DEF FirstOf, Beyond
  <2> QED
    BY <1>2, <1>3, <2>3
<1>5. rank[m] = rank[n] => m = n
  BY DEF Inv, Laid
<1> QED
  BY <1>3, <1>4, <1>5

\* A node that is not of this pass has this pass behind it, too.
LEMMA OnePastMore ==
  ASSUME NEW n, NEW k \in Nat \ {0}, Past(n, k - 1), DropPass(n) # Passes[k]
  PROVE  Past(n, k)
<1>1. \A j \in 1..k : j = k \/ j \in 1..(k - 1)
  OBVIOUS
<1> QED
  BY <1>1 DEF Past

\* The node at hand goes to the end of a list under construction.
HandsOver(at, rank, n, l, list) ==
    /\ n \in Used /\ Heads[Current] = n /\ InOldOrder(at, rank)
    /\ l \in {Kept, Whites} /\ EndsAtTail(list, at, l) /\ Heads[l] = list.head
    /\ next' = Appended(Detached(n), list, n).next
    /\ Heads'[l] = Appended(Detached(n), list, n).list.head /\ Heads'[Current] = next[n]
    /\ \A m \in ListNames \ {l, Current} : Heads'[m] = Heads[m]

\* It comes last there, and the nodes yet to see come after it.
LEMMA HandedOver ==
  ASSUME LinksTypeOK, NEW at \in [Nodes -> ListNames], NEW rank \in [Nodes -> Int], Inv(at, rank),
         NEW n, NEW l, NEW list, HandsOver(at, rank, n, l, list)
  PROVE  /\ Laid(Used, next', Heads', [at EXCEPT ![n] = l], rank)
         /\ at[n] = Current /\ n # list.tail
         /\ next'[n] = None /\ \A m \in Nodes \ {n, list.tail} : next'[m] = next[m]
         /\ InOldOrder([at EXCEPT ![n] = l], rank)
<1> USE DEF HandsOver
<1> DEFINE U == Used \ {n}
           tail == list.tail
           hd == [m \in ListNames |-> IF m = Current THEN next[n] ELSE Heads[m]]
<1>1. /\ Used \subseteq Nodes /\ None \notin Used /\ l \in ListNames /\ Current \in ListNames
      /\ l # Current
  BY LinksLead, Names, NamesDiffer
<1>2. at[n] = Current /\ \A m \in Used : at[m] = Current => rank[n] <= rank[m]
  BY <1>1, HeadsFirst DEF Inv
<1>3. tail # None => tail \in U /\ at[tail] = l /\ next[tail] = None /\ rank[tail] < rank[n]
  BY <1>1, <1>2 DEF EndsAtTail, InOldOrder
<1>4. /\ next'[n] = None /\ (tail # None => next'[tail] = n)
      /\ \A m \in Nodes \ {n, tail} : next'[m] = next[m]
  BY <1>1, <1>3 DEF Appended, Detached, LinksTypeOK
<1>5. Laid(U, next, hd, at, rank)
  <2>1. TakesFront(Used, next, Heads, at, rank, Current, next, hd)
    BY <1>1 DEF TakesFront, Places
  <2> HIDE DEF hd
  <2>2. Laid(Used \ {Heads[Current]}, next, hd, at, rank)
    BY <2>1, TakeFront DEF Inv
  <2> QED
    BY <2>2
<1>6. PutsEnd(U, next, hd, at, rank, n, l, tail, next', Heads')
  <2>1. Places(U, at, rank) /\ n \in Nodes /\ n \notin U /\ l \in ListNames
    BY <1>1 DEF Places
  <2>2. hd[l] = list.head /\ (tail = None <=> hd[l] = None)
    BY <1>1 DEF EndsAtTail
  <2>3. Heads'[l] = IF tail = None THEN n ELSE hd[l]
    BY <2>2 DEF Appended
  <2>4. \A m \in ListNames : m # l => Heads'[m] = hd[m]
    BY <1>1
  <2> HIDE DEF hd
  <2>5. \A m \in U \ {tail} : next'[m] = next[m]
    BY <1>1, <1>4
  <2> HIDE DEF U
  <2> QED
    BY <1>3, <1>4, <2>1, <2>2, <2>3, <2>4, <2>5 DEF PutsEnd
<1>7. Laid(Used, next', Heads', [at EXCEPT ![n] = l], rank)
  <2>1. U \union {n} = Used
    OBVIOUS
  <2> HIDE DEF U, hd
  <2>2. Laid(U \union {n}, next', Heads', [at EXCEPT ![n] = l], rank)
    BY <1>5, <1>6, PutEnd
  <2> QED
    BY <2>1, <2>2
<1>8. InOldOrder([at EXCEPT ![n] = l], rank)
  <2> DEFINE at2 == [at EXCEPT ![n] = l]
  <2>1. at2[n] = l /\ \A m \in Used : m # n => at2[m] = at[m]
    BY <1>1
  <2>2. ASSUME NEW y \in Used, y # n, at[y] = Current
        PROVE  rank[n] < rank[y]
    <3>1. rank[n] <= rank[y] /\ rank[n] # rank[y]
      BY <1>2, <2>2 DEF Inv, Laid
    <3>2. rank[n] \in Int /\ rank[y] \in Int
      BY <1>1
    <3> QED
      BY <3>1, <3>2
  <2> HIDE DEF at2
  <2>3. InOldOrder(at2, rank)
    BY <1>1, <2>1, <2>2 DEF InOldOrder
  <2> QED
    BY <2>3 DEF at2
<1> QED
  BY <1>1, <1>2, <1>3, <1>4, <1>7, <1>8

\* The node goes to the survivors or to the white nodes.
LEMMA UnlinkStepKeeps ==
  ASSUME LinksTypeOK, NEW at \in [Nodes -> ListNames], NEW rank \in [Nodes -> Int], Inv(at, rank),
         UnlinkStep
  PROVE  \E at2 \in [Nodes -> ListNames] : Inv(at2, rank)'
<1>1. PICK n : n = loop.current
  OBVIOUS
<1>2. PICK l \in {Kept, Whites} : l = IF n \in doomed THEN Whites ELSE Kept
  OBVIOUS
<1>a. PICK to, other : to = (IF n \in doomed THEN loop.white ELSE loop.list)
                       /\ other = (IF n \in doomed THEN loop.list ELSE loop.white)
  OBVIOUS
<1>b. PICK grown : grown = Appended(Detached(n), to, n).list
  OBVIOUS
<1>0. /\ loop.op = "unlink" /\ n # None
      /\ next' = Appended(Detached(n), to, n).next
      /\ status' = status /\ home' = home /\ chain' = chain /\ held' = held
      /\ loop'.op = "unlink" /\ loop'.par = loop.par /\ loop'.rest = loop.rest
      /\ loop'.current = next[n]
      /\ n \in doomed => loop'.white = grown /\ loop'.list = other
      /\ n \notin doomed => loop'.list = grown /\ loop'.white = other
  BY <1>1, <1>a, <1>b DEF UnlinkStep, After, LinksTypeOK, Loops
<1>3. n \in Used /\ Used \subseteq Nodes /\ None \notin Used
  BY <1>0, <1>1, LinksLead
<1>4. Used' = Used
  BY <1>0 DEF Used
<1>5. /\ chain[loop.par] = None /\ InOldOrder(at, rank) /\ EndsAtTail(to, at, l)
      /\ EndsAtTail(other, at, IF l = Whites THEN Kept ELSE Whites)
      /\ loop.rest = NoRest
  BY <1>0, <1>2, <1>a, NamesDiffer DEF Inv, LoopShape
<1>6. /\ Heads[Current] = n /\ Heads[l] = to.head
      /\ Heads'[l] = grown.head /\ Heads'[Current] = next[n]
  BY <1>0, <1>1, <1>2, <1>a, HeadsAre DEF HeadsSpelled
<1>7. \A m \in ListNames \ {l, Current} : Heads'[m] = Heads[m]
  <2>1. ASSUME NEW p \in PartitionIds
        PROVE  Heads'[ChainOf(p)] = Heads[ChainOf(p)] /\ Heads'[RestOf(p)] = Heads[RestOf(p)]
    BY <1>0, HeadsAre DEF HeadsSpelled
  <2>2. ASSUME NEW m \in {Kept, Whites, HeldList}, m # l
        PROVE  Heads'[m] = Heads[m]
    BY <1>0, <1>2, <1>a, <2>2, HeadsAre DEF HeadsSpelled
  <2> QED
    BY <2>1, <2>2, Names
<1>8. /\ Laid(Used, next', Heads', [at EXCEPT ![n] = l], rank)
      /\ at[n] = Current /\ n # to.tail
      /\ next'[n] = None /\ \A m \in Nodes \ {n, to.tail} : next'[m] = next[m]
      /\ InOldOrder([at EXCEPT ![n] = l], rank)
  <2>1. Heads'[l] = Appended(Detached(n), to, n).list.head
    BY <1>b, <1>6
  <2>2. HandsOver(at, rank, n, l, to)
    BY <1>0, <1>3, <1>5, <1>6, <1>7, <2>1 DEF HandsOver
  <2> QED
    BY <2>2, HandedOver
<1>9. PICK at2 \in [Nodes -> ListNames] : at2 = [at EXCEPT ![n] = l]
  BY <1>2, Names
<1>10. at2[n] = l /\ \A m \in Used : m # n => at2[m] = at[m]
  BY <1>3, <1>9
<1>11. Laid(Used', next', Heads', at2, rank)
  BY <1>4, <1>8, <1>9
<1>12. LoopShape(at2, rank)'
  <2>1. grown.tail = n /\ grown.head # None
    BY <1>3, <1>5, <1>b DEF Appended, EndsAtTail
  <2>2. EndsAtTail(grown, at2, l)'
    BY <1>3, <1>4, <1>8, <1>10, <2>1 DEF EndsAtTail
  <2>3. EndsAtTail(other, at2, IF l = Whites THEN Kept ELSE Whites)'
    <3>1. other.tail # None => other.tail \in Used /\ other.tail # n /\ other.tail # to.tail
      <4>1. (IF l = Whites THEN Kept ELSE Whites) \notin {l, Current}
        BY <1>2, NamesDiffer
      <4> QED
        BY <1>3, <1>5, <1>8, <4>1 DEF EndsAtTail
    <3>2. other.tail # None => next'[other.tail] = next[other.tail] /\ at2[other.tail] = at[other.tail]
      BY <1>3, <1>8, <1>10, <3>1
    <3> QED
      BY <1>4, <1>5, <3>1, <3>2 DEF EndsAtTail
  <2>4. InOldOrder(at2, rank)'
    BY <1>4, <1>8, <1>9 DEF InOldOrder
  <2>5. EndsAtTail(loop.list, at2, Kept)' /\ EndsAtTail(loop.white, at2, Whites)'
    BY <1>0, <1>2, <2>2, <2>3, NamesDiffer DEF EndsAtTail
  <2> QED
    BY <1>0, <1>5, <2>4, <2>5 DEF LoopShape
<1>13. HeldShape'
  BY <1>0 DEF HeldShape, Inv
<1>14. AtHome(at2)'
  <2>1. home[n] = loop.par /\ PartitionOf(l)' = loop.par
    BY <1>0, <1>3, <1>8, PartitionsAre DEF Inv, AtHome, PartitionsSpelled
  <2>2. \A m \in Used : m # n => home[m] = PartitionOf(at2[m])'
    BY <1>0, <1>10 DEF Inv, AtHome, PartitionOf
  <2> QED
    BY <1>0, <1>4, <1>10, <2>1, <2>2 DEF AtHome
<1>15. PayloadsDropped(at2)'
  BY <1>0 DEF Inv, PayloadsDropped, HeldShape
<1>16. PayloadsLive(at2)'
  BY <1>0, <1>4, <1>8, <1>10, NamesDiffer DEF Inv, PayloadsLive, HeldShape
<1>17. PassesKept(at2, rank)'
  BY <1>0 DEF PassesKept, Due
<1> QED
  BY <1>11, <1>12, <1>13, <1>14, <1>15, <1>16, <1>17 DEF Inv

\* The node at hand, the first of its list, is freed.
FreesFirst(n) ==
    /\ n \in Used /\ Heads[Current] = n
    /\ status' = WithStatus({n}, "free") /\ next' = Freed({n}, next)
    /\ Heads'[Current] = next[n] /\ \A m \in ListNames \ {Current} : Heads'[m] = Heads[m]

\* Nothing leads to it any more.
LEMMA FirstFreed ==
  ASSUME LinksTypeOK, NEW at \in [Nodes -> ListNames], NEW rank \in [Nodes -> Int], Inv(at, rank),
         NEW n, FreesFirst(n)
  PROVE  /\ Laid(Used', next', Heads', at, rank)
         /\ Used' = Used \ {n} /\ at[n] = Current
         /\ \A m \in Used' : status'[m] = status[m] /\ next'[m] = next[m]
<1> USE DEF FreesFirst
<1>1. Used \subseteq Nodes /\ None \notin Used /\ Current \in ListNames
  BY LinksLead, Names
<1>2. Used' = Used \ {n} /\ \A m \in Used' : status'[m] = status[m] /\ next'[m] = next[m]
  BY <1>1 DEF Used, WithStatus, Freed, LinksTypeOK
<1>3. TakesFront(Used, next, Heads, at, rank, Current, next', Heads')
  BY <1>1, <1>2 DEF TakesFront, Places
<1>4. Laid(Used \ {Heads[Current]}, next', Heads', at, rank)
  BY <1>3, TakeFront DEF Inv
<1>5. at[n] = Current
  BY <1>1, HeadsFirst DEF Inv
<1> QED
  BY <1>2, <1>4, <1>5

\* dealloc_partition frees the first node it has yet to see.
LEMMA DeallocStepKeeps ==
  ASSUME LinksTypeOK, NEW at \in [Nodes -> ListNames], NEW rank \in [Nodes -> Int], Inv(at, rank),
         DeallocStep
  PROVE  Inv(at, rank)'
<1>1. PICK n : n = loop.current
  OBVIOUS
<1>0. /\ loop.op = "dealloc" /\ n # None
      /\ status' = WithStatus({n}, "free") /\ next' = Freed({n}, next)
      /\ home' = home /\ chain' = chain /\ held' = held
      /\ loop'.op = "dealloc" /\ loop'.par = loop.par /\ loop'.current = next[n]
      /\ loop'.list = loop.list /\ loop'.white = loop.white /\ loop'.rest = loop.rest
  BY <1>1 DEF DeallocStep, After, LinksTypeOK, Loops
<1>2. n \in Used
  BY <1>0, <1>1, LinksLead
<1>3. Heads[Current] = n /\ Heads'[Current] = next[n]
      /\ \A m \in ListNames \ {Current} : Heads'[m] = Heads[m]
  BY <1>0, <1>1, Names, HeadsAre DEF HeadsSpelled
<1>4. /\ Laid(Used', next', Heads', at, rank)
      /\ Used' = Used \ {n} /\ \A m \in Used' : status'[m] = status[m]
  BY <1>0, <1>2, <1>3, FirstFreed DEF FreesFirst
<1>5. LoopShape(at, rank)' /\ HeldShape'
  BY <1>0 DEF LoopShape, HeldShape, Inv
<1>6. AtHome(at)'
  BY <1>0, <1>4 DEF Inv, AtHome, PartitionOf
<1>7. PayloadsDropped(at)' /\ PayloadsLive(at)'
  <2>1. PayloadsDropped(at) /\ PayloadsLive(at)
    BY DEF Inv
  <2>2. PayloadsDropped(at)'
    BY <1>0, <1>4, <2>1 DEF PayloadsDropped
  <2>3. PayloadsLive(at)'
    BY <1>0, <1>4, <2>1 DEF PayloadsLive
  <2> QED
    BY <2>2, <2>3
<1>8. PassesKept(at, rank)'
  BY <1>0 DEF PassesKept, Due
<1> QED
  BY <1>4, <1>5, <1>6, <1>7, <1>8 DEF Inv

\* sweep_dispose frees the node or keeps it for its pass.
LEMMA DisposeStepKeeps ==
  ASSUME LinksTypeOK, NEW at \in [Nodes -> ListNames], NEW rank \in [Nodes -> Int], Inv(at, rank),
         DisposeStep
  PROVE  \E at2 \in [Nodes -> ListNames] : Inv(at2, rank)'
<1>1. PICK n : n = loop.current
  OBVIOUS
<1>0. /\ loop.op = "dispose" /\ n # None
      /\ home' = home /\ chain' = chain /\ held' = held
      /\ loop'.op = "dispose" /\ loop'.par = loop.par /\ loop'.current = next[n]
      /\ loop'.white = loop.white /\ loop'.rest = loop.rest /\ loop'.pass = loop.pass
      /\ loop.pass \in Nat \ {0}
  <2>1. loop \in Loops /\ loop.pass \in Nat \ {0}
    BY PassesEnumerate DEF LinksTypeOK, Loops
  <2>2. CASE DropPass(n) = Passes[loop.pass]
    BY <1>1, <2>1, <2>2 DEF DisposeStep, After, Loops
  <2>3. CASE DropPass(n) # Passes[loop.pass]
    BY <1>1, <2>1, <2>3 DEF DisposeStep, After, Loops
  <2> QED
    BY <2>2, <2>3, <2>1 DEF DisposeStep
<1>2. n \in Used /\ Used \subseteq Nodes /\ None \notin Used
  BY <1>0, <1>1, LinksLead
<1>3. /\ loop.white = EmptyList /\ EndsAtTail(loop.list, at, Kept) /\ InOldOrder(at, rank)
      /\ loop.rest = NoRest /\ held.from = "none"
  BY <1>0 DEF Inv, LoopShape, HeldShape
<1>4. /\ Heads[Current] = n /\ Heads'[Current] = next[n]
      /\ Heads[Kept] = loop.list.head /\ Heads'[Kept] = loop'.list.head
      /\ \A m \in ListNames \ {Kept, Current} : Heads'[m] = Heads[m]
  BY <1>0, <1>1, Names, HeadsAre DEF HeadsSpelled
<1>5. CASE DropPass(n) = Passes[loop.pass]
  <2>0. /\ status' = WithStatus({n}, "free") /\ next' = Freed({n}, next)
        /\ loop'.list = loop.list
    BY <1>1, <1>5 DEF DisposeStep, LinksTypeOK, Loops
  <2>1. /\ Laid(Used', next', Heads', at, rank)
        /\ Used' = Used \ {n} /\ at[n] = Current
        /\ \A m \in Used' : status'[m] = status[m] /\ next'[m] = next[m]
    <3>1. FreesFirst(n)
      BY <1>2, <1>4, <2>0 DEF FreesFirst
    <3> QED
      BY <3>1, FirstFreed
  <2>2. LoopShape(at, rank)' /\ HeldShape'
    BY <1>0, <1>3, <2>0, <2>1, NamesDiffer DEF LoopShape, HeldShape, EndsAtTail, InOldOrder
  <2>3. AtHome(at)'
    BY <1>0, <2>1 DEF Inv, AtHome, PartitionOf
  <2>4. PayloadsDropped(at)' /\ PayloadsLive(at)'
    BY <1>0, <1>3, <2>1 DEF PayloadsDropped, PayloadsLive, Inv
  <2>5. PassesKept(at, rank)'
    BY <1>0, <2>1 DEF PassesKept, Due, Behind, Past, Inv
  <2> QED
    BY <2>1, <2>2, <2>3, <2>4, <2>5 DEF Inv
<1>6. CASE DropPass(n) # Passes[loop.pass]
  <2>1. PICK grown : grown = Appended(Detached(n), loop.list, n).list
    OBVIOUS
  <2>2. PICK list : list = loop.list
    OBVIOUS
  <2>0. /\ next' = Appended(Detached(n), list, n).next /\ status' = status
        /\ loop'.list = grown
    BY <1>1, <1>6, <2>1, <2>2 DEF DisposeStep, LinksTypeOK, Loops
  <2>3. Used' = Used
    BY <2>0 DEF Used
  <2>4. /\ Laid(Used, next', Heads', [at EXCEPT ![n] = Kept], rank)
        /\ at[n] = Current
        /\ next'[n] = None
        /\ InOldOrder([at EXCEPT ![n] = Kept], rank)
    <3>1. HandsOver(at, rank, n, Kept, list)
      <4>1. EndsAtTail(list, at, Kept) /\ Heads[Kept] = list.head
        BY <1>3, <1>4, <2>2
      <4>2. Heads'[Kept] = Appended(Detached(n), list, n).list.head
        BY <1>4, <2>0, <2>1, <2>2
      <4> QED
        BY <1>2, <1>3, <1>4, <2>0, <4>1, <4>2 DEF HandsOver
    <3>2. /\ Laid(Used, next', Heads', [at EXCEPT ![n] = Kept], rank)
          /\ at[n] = Current /\ n # list.tail
          /\ next'[n] = None /\ \A m \in Nodes \ {n, list.tail} : next'[m] = next[m]
          /\ InOldOrder([at EXCEPT ![n] = Kept], rank)
      BY <3>1, HandedOver
    <3> QED
      BY <3>2
  <2>5. PICK at2 \in [Nodes -> ListNames] : at2 = [at EXCEPT ![n] = Kept]
    BY Names
  <2>6. at2[n] = Kept /\ \A m \in Used : m # n => at2[m] = at[m]
    BY <1>2, <2>5
  <2>7. LoopShape(at2, rank)'
    <3>1. grown.tail = n /\ grown.head # None
      BY <1>2, <1>3, <2>1 DEF Appended, EndsAtTail
    <3>2. EndsAtTail(grown, at2, Kept)'
      BY <1>2, <2>3, <2>4, <2>6, <3>1 DEF EndsAtTail
    <3>3. InOldOrder(at2, rank)' /\ EndsAtTail(loop.list, at2, Kept)'
      BY <2>0, <2>3, <2>4, <2>5, <3>2 DEF InOldOrder, EndsAtTail
    <3> QED
      BY <1>0, <1>3, <3>3 DEF LoopShape
  <2>8. HeldShape'
    BY <1>0, <1>3 DEF HeldShape
  <2>9. AtHome(at2)'
    <3>1. home[n] = loop.par /\ PartitionOf(Kept)' = loop.par
      BY <1>0, <1>2, <2>4, PartitionsAre DEF Inv, AtHome, PartitionsSpelled
    <3>2. \A m \in Used : m # n => home[m] = PartitionOf(at2[m])'
      BY <1>0, <2>6 DEF Inv, AtHome, PartitionOf
    <3> QED
      BY <1>0, <2>3, <2>6, <3>1, <3>2 DEF AtHome
  <2>10. PayloadsDropped(at2)'
    BY <1>0, <1>2, <1>3, <2>0, <2>3, <2>4, <2>6 DEF PayloadsDropped, Inv
  <2>11. PayloadsLive(at2)'
    <3>1. PayloadsLive(at)
      BY DEF Inv
    <3>2. \A m \in Used, p \in PartitionIds : at2[m] = ChainOf(p) => at[m] = ChainOf(p)
      BY <2>6, NamesDiffer
    <3> QED
      BY <1>0, <2>0, <2>3, <3>1, <3>2 DEF PayloadsLive
  <2>12. PassesKept(at2, rank)'
    <3>1. Past(n, loop.pass - 1)
      BY <1>0, <1>2, <2>4 DEF Inv, PassesKept, Due
    <3>2. Past(n, loop.pass)
      BY <1>0, <1>6, <3>1, OnePastMore
    <3>3. ASSUME NEW m \in Used, at2[m] \in {Current, Kept}
          PROVE  Past(m, loop.pass - 1) /\ (at2[m] = Kept => Past(m, loop.pass))
      <4>1. CASE m = n
        BY <3>1, <3>2, <4>1
      <4>2. CASE m # n
        BY <1>0, <2>6, <3>3, <4>2 DEF Inv, PassesKept, Due, Behind
      <4> QED
        BY <4>1, <4>2
    <3> QED
      BY <1>0, <2>3, <3>3 DEF PassesKept, Due, Behind, Past
  <2> QED
    BY <2>3, <2>4, <2>5, <2>7, <2>8, <2>9, <2>10, <2>11, <2>12 DEF Inv
<1> QED
  BY <1>5, <1>6

\* A payload is dropped in its pass; the node stays where it is.
LEMMA FinalizeStepKeeps ==
  ASSUME LinksTypeOK, NEW at \in [Nodes -> ListNames], NEW rank \in [Nodes -> Int], Inv(at, rank),
         FinalizeStep
  PROVE  Inv(at, rank)'
<1>1. PICK n : n = loop.current
  OBVIOUS
<1>0. /\ loop.op = "finalize" /\ n # None
      /\ status' = IF DropPass(n) = Passes[loop.pass] THEN WithStatus({n}, "dropped") ELSE status
      /\ next' = next /\ home' = home /\ chain' = chain /\ held' = held
      /\ loop'.op = "finalize" /\ loop'.par = loop.par /\ loop'.current = next[n]
      /\ loop'.list = loop.list /\ loop'.white = loop.white /\ loop'.rest = loop.rest
      /\ loop'.pass = loop.pass /\ loop.pass \in Nat \ {0}
  BY <1>1, PassesEnumerate DEF FinalizeStep, Finalized, After, LinksTypeOK, Loops
<1>2. n \in Used /\ Used \subseteq Nodes /\ at[n] = ChainOf(loop.par)
      /\ (next[n] # None => next[n] \in Used /\ at[next[n]] = at[n])
  BY <1>0, <1>1, LinksLead DEF Inv, LoopShape
<1>3. Used' = Used
  BY <1>0, <1>2 DEF Used, WithStatus, LinksTypeOK
<1>4. \A m \in Used : \/ status'[m] = status[m]
                      \/ m = n /\ status'[m] = "dropped" /\ DropPass(n) = Passes[loop.pass]
  BY <1>0, <1>2 DEF WithStatus, LinksTypeOK
<1>5. \A m \in ListNames : Heads'[m] = Heads[m]
  BY <1>0, Names, HeadsAre DEF HeadsSpelled
<1>6. Laid(Used', next', Heads', at, rank)
  BY <1>0, <1>3, <1>5, HeadsSame DEF Inv
<1>7. LoopShape(at, rank)' /\ HeldShape'
  BY <1>0, <1>2, <1>3 DEF LoopShape, HeldShape, Inv
<1>8. AtHome(at)'
  BY <1>0, <1>3 DEF Inv, AtHome, PartitionOf
<1>9. PayloadsDropped(at)'
  BY <1>0 DEF PayloadsDropped, HeldShape, Inv
<1>10. PayloadsLive(at)'
  <2>1. PayloadsLive(at)
    BY DEF Inv
  <2>2. ASSUME NEW m \in Used, NEW p \in PartitionIds, at[m] = ChainOf(p)
        PROVE  status'[m] = "live" \/ (held.from = "teardown" /\ held.par = p) \/ loop.par = p
    <3>0. status[m] = "live" \/ (held.from = "teardown" /\ held.par = p) \/ loop.par = p
      BY <2>1, <2>2 DEF PayloadsLive
    <3>1. CASE status'[m] = status[m]
      BY <3>0, <3>1
    <3>2. CASE m = n
      BY <1>2, <2>2, <3>2, NamesDiffer
    <3> QED
      BY <1>4, <3>1, <3>2
  <2> QED
    BY <1>0, <1>3, <2>2 DEF PayloadsLive
<1>11. PassesKept(at, rank)'
  <2> SUFFICES ASSUME NEW m \in Used, Due(m, at)'
               PROVE  /\ Past(m, loop.pass - 1)
                      /\ next[n] = None \/ rank[m] < rank[next[n]] => Past(m, loop.pass)
    BY <1>0, <1>3 DEF PassesKept, Behind, Past
  <2>1. at[m] = ChainOf(loop.par) /\ status'[m] = "live"
    BY <1>0 DEF Due
  <2>2. Due(m, at) /\ (m = n => DropPass(n) # Passes[loop.pass])
    <3>1. status[m] = "live"
      BY <1>4, <2>1
    <3>2. m = n => DropPass(n) # Passes[loop.pass]
      BY <1>0, <1>2, <2>1 DEF WithStatus
    <3> QED
      BY <1>0, <2>1, <3>1, <3>2 DEF Due
  <2>3. Past(m, loop.pass - 1) /\ (Behind(m, at, rank) => Past(m, loop.pass))
    BY <2>2 DEF Inv, PassesKept
  <2>4. ASSUME next[n] = None \/ rank[m] < rank[next[n]]
        PROVE  Past(m, loop.pass)
    <3>1. m = n \/ rank[m] < rank[n]
      BY <1>2, <2>1, <2>4, BeforeNext
    <3>2. CASE m = n
      BY <1>0, <2>2, <2>3, <3>2, OnePastMore
    <3>3. CASE rank[m] < rank[n]
      BY <1>0, <1>1, <2>3, <3>3 DEF Behind
    <3> QED
      BY <3>1, <3>2, <3>3
  <2> QED
    BY <2>3, <2>4
<1> QED
  BY <1>6, <1>7, <1>8, <1>9, <1>10, <1>11 DEF Inv

\* The node is taken out, or becomes the one before the next.
LEMMA FilterStepKeeps ==
  ASSUME LinksTypeOK, NEW at \in [Nodes -> ListNames], NEW rank \in [Nodes -> Int], Inv(at, rank),
         FilterStep
  PROVE  Inv(at, rank)'
<1>1. PICK n, prev, head : n = loop.current /\ prev = loop.list.tail /\ head = loop.list.head
  OBVIOUS
<1>0. /\ loop.op \in {"sweep", "drop"} /\ n # None
      /\ home' = home /\ chain' = chain /\ held' = held /\ doomed' = doomed
      /\ loop'.op = loop.op /\ loop'.par = loop.par /\ loop'.current = next[n]
      /\ loop'.white = loop.white /\ loop'.rest = loop.rest
      /\ loop'.pass = loop.pass /\ loop.pass \in Nat \ {0}
  <2>1. loop \in Loops /\ loop.pass \in Nat \ {0}
    BY PassesEnumerate DEF LinksTypeOK, Loops
  <2>2. CASE Taken(n)
    <3>1. loop' = [loop EXCEPT !.current = next[n],
                               !.list.head = IF prev = None THEN next[n] ELSE @]
      BY <1>1, <2>2 DEF FilterStep, After
    <3> QED
      BY <1>1, <2>1, <2>2, <3>1 DEF FilterStep, Loops
  <2>3. CASE ~Taken(n)
    <3>1. loop' = [loop EXCEPT !.current = next[n], !.list.tail = n]
      BY <1>1, <2>3 DEF FilterStep, After
    <3> QED
      BY <1>1, <2>1, <2>3, <3>1 DEF FilterStep, Loops
  <2> QED
    BY <2>2, <2>3
<1>2. /\ n \in Used /\ Used \subseteq Nodes /\ None \notin Used
      /\ (next[n] # None => next[n] \in Used /\ at[next[n]] = at[n])
  BY <1>0, <1>1, LinksLead
<1>3. /\ prev = None => n = head
      /\ prev # None => prev \in Used /\ at[prev] = Kept /\ next[prev] = n
  BY <1>0, <1>1 DEF Inv, LoopShape, PrevIsBefore
<1>4. Heads[Kept] = head /\ Heads'[Kept] = loop'.list.head /\ Kept \in ListNames
      /\ \A m \in ListNames \ {Kept} : Heads'[m] = Heads[m]
  BY <1>0, <1>1, Names, HeadsAre DEF HeadsSpelled
<1>5. at[n] = Kept
  BY <1>2, <1>3, <1>4, HeadsFirst, LinksLead DEF Inv
<1>6. /\ Laid(Used', next', Heads', at, rank)
      /\ Used' = (IF Taken(n) THEN Used \ {n} ELSE Used)
      /\ \A m \in Used' : status'[m] = status[m]
      /\ PrevIsBefore(at)'
  <2>1. CASE Taken(n) /\ prev = None
    <3>0. /\ status' = WithStatus({n}, "free") /\ next' = Freed({n}, next)
          /\ loop'.list.head = next[n] /\ loop'.list.tail = None
      <4>1. loop' = [loop EXCEPT !.current = next[n],
                                 !.list.head = IF prev = None THEN next[n] ELSE @]
        BY <1>1, <2>1 DEF FilterStep, After
      <4>2. loop'.list = [loop.list EXCEPT !.head = next[n]] /\ loop.list \in Lists
        BY <2>1, <4>1 DEF LinksTypeOK, Loops
      <4>3. loop'.list.head = next[n] /\ loop'.list.tail = None
        BY <1>1, <2>1, <4>2 DEF Lists
      <4>4. status' = WithStatus({n}, "free") /\ next' = Freed({n}, next)
        BY <1>1, <2>1 DEF FilterStep
      <4> QED
        BY <4>3, <4>4
    <3>1. Used' = Used \ {n} /\ \A m \in Used' : status'[m] = status[m] /\ next'[m] = next[m]
      BY <1>2, <3>0 DEF Used, WithStatus, Freed, LinksTypeOK
    <3>2. TakesFront(Used, next, Heads, at, rank, Kept, next', Heads')
      BY <1>0, <1>2, <1>3, <1>4, <2>1, <3>0, <3>1 DEF TakesFront, Places
    <3>3. Laid(Used \ {Heads[Kept]}, next', Heads', at, rank)
      BY <3>2, TakeFront DEF Inv
    <3>4. PrevIsBefore(at)'
      BY <1>0, <3>0 DEF PrevIsBefore
    <3> QED
      BY <1>3, <1>4, <2>1, <3>1, <3>3, <3>4
  <2>2. CASE Taken(n) /\ prev # None
    <3>0. /\ status' = WithStatus({n}, "free") /\ next' = Freed({n}, [next EXCEPT ![prev] = next[n]])
          /\ loop'.list.head = head /\ loop'.list.tail = prev
      <4>1. loop' = [loop EXCEPT !.current = next[n],
                                 !.list.head = IF prev = None THEN next[n] ELSE @]
        BY <1>1, <2>2 DEF FilterStep, After
      <4>2. loop'.list = [loop.list EXCEPT !.head = head] /\ loop.list \in Lists
        BY <1>1, <2>2, <4>1 DEF LinksTypeOK, Loops
      <4>3. loop'.list.head = head /\ loop'.list.tail = prev
        BY <1>1, <4>2 DEF Lists
      <4>4. status' = WithStatus({n}, "free") /\ next' = Freed({n}, [next EXCEPT ![prev] = next[n]])
        BY <1>1, <2>2 DEF FilterStep
      <4> QED
        BY <4>3, <4>4
    <3>1. prev # n
      <4>1. rank[prev] < rank[n] /\ rank[n] \in Int
        BY <1>0, <1>2, <1>3, <2>2 DEF Inv, Laid, FirstOf, Beyond
      <4> QED
        BY <4>1
    <3>2. /\ Used' = Used \ {n} /\ \A m \in Used' : status'[m] = status[m]
          /\ next'[prev] = next[n] /\ \A m \in Used \ {prev, n} : next'[m] = next[m]
      BY <1>2, <1>3, <2>2, <3>0, <3>1 DEF Used, WithStatus, Freed, LinksTypeOK
    <3>3. TakesAfter(Used, next, at, rank, prev, n, next')
      BY <1>0, <1>2, <1>3, <2>2, <3>2 DEF TakesAfter, Places
    <3>4. Laid(Used \ {n}, next', Heads, at, rank)
      BY <3>3, TakeAfter DEF Inv
    <3>5. \A m \in ListNames : Heads'[m] = Heads[m]
      BY <1>4, <3>0
    <3>6. Laid(Used', next', Heads', at, rank)
      BY <3>2, <3>4, <3>5, HeadsSame
    <3>7. PrevIsBefore(at)'
      BY <1>0, <1>3, <2>2, <3>0, <3>1, <3>2 DEF PrevIsBefore
    <3> QED
      BY <2>2, <3>2, <3>6, <3>7
  <2>3. CASE ~Taken(n)
    <3>0. /\ status' = status /\ next' = next
          /\ loop'.list.head = head /\ loop'.list.tail = n
      <4>1. loop' = [loop EXCEPT !.current = next[n], !.list.tail = n]
        BY <1>1, <2>3 DEF FilterStep, After
      <4>2. loop'.list = [loop.list EXCEPT !.tail = n] /\ loop.list \in Lists
        BY <4>1 DEF LinksTypeOK, Loops
      <4>3. loop'.list.head = head /\ loop'.list.tail = n
        BY <1>1, <4>2 DEF Lists
      <4>4. status' = status /\ next' = next
        BY <1>1, <2>3 DEF FilterStep
      <4> QED
        BY <4>3, <4>4
    <3>1. Used' = Used
      BY <3>0 DEF Used
    <3>2. \A m \in ListNames : Heads'[m] = Heads[m]
      BY <1>4, <3>0
    <3>3. Laid(Used', next', Heads', at, rank)
      BY <3>0, <3>1, <3>2, HeadsSame DEF Inv
    <3>4. PrevIsBefore(at)'
      BY <1>0, <1>2, <1>5, <3>0, <3>1 DEF PrevIsBefore
    <3> QED
      BY <2>3, <3>0, <3>1, <3>3, <3>4
  <2> QED
    BY <2>1, <2>2, <2>3
<1>7. LoopShape(at, rank)' /\ HeldShape'
  BY <1>0, <1>6 DEF LoopShape, HeldShape, DoomedKept, Inv
<1>8. AtHome(at)'
  BY <1>0, <1>6 DEF Inv, AtHome, PartitionOf
<1>9. PayloadsDropped(at)' /\ PayloadsLive(at)'
  BY <1>0, <1>6 DEF PayloadsDropped, PayloadsLive, HeldShape, Inv
<1>10. PassesKept(at, rank)'
  <2> SUFFICES ASSUME NEW m \in Used', Due(m, at)'
               PROVE  /\ Past(m, loop.pass - 1)
                      /\ next[n] = None \/ rank[m] < rank[next[n]] => Past(m, loop.pass)
    BY <1>0 DEF PassesKept, Behind, Past
  <2>1. m \in Used /\ at[m] = Kept /\ Due(m, at)
    BY <1>0, <1>6 DEF Due
  <2>2. Past(m, loop.pass - 1) /\ (Behind(m, at, rank) => Past(m, loop.pass))
    BY <2>1 DEF Inv, PassesKept
  <2>3. ASSUME next[n] = None \/ rank[m] < rank[next[n]]
        PROVE  Past(m, loop.pass)
    <3>1. m = n \/ rank[m] < rank[n]
      BY <1>2, <1>5, <2>1, <2>3, BeforeNext
    <3>2. CASE m = n
      <4>1. DropPass(n) # Passes[loop.pass]
        BY <1>0, <1>6, <2>1, <3>2 DEF Taken, Due
      <4> QED
        BY <1>0, <2>2, <3>2, <4>1, OnePastMore
    <3>3. CASE rank[m] < rank[n]
      BY <1>0, <1>1, <2>2, <3>3 DEF Behind
    <3> QED
      BY <3>1, <3>2, <3>3
  <2> QED
    BY <2>2, <2>3
<1> QED
  BY <1>6, <1>7, <1>8, <1>9, <1>10 DEF Inv

-----------------------------------------------------------------------------
(* Types.                                                                  *)

\* The values of the initial state have their types.
LEMMA IdleTyped ==
  /\ 1 \in PartitionIds /\ 1 \in 1..Len(Passes) /\ None \in MaybeNode
  /\ NoRest \in [PartitionIds -> MaybeNode] /\ EmptyList \in Lists /\ Idle \in Loops
  /\ NoList \in [from : {"none", "sweep", "teardown"}, par : PartitionIds, head : MaybeNode]
  /\ \A h, t \in MaybeNode : [head |-> h, tail |-> t] \in Lists
<1>1. 1 \in PartitionIds /\ 1 \in 1..Len(Passes) /\ None \in MaybeNode
  BY LinksAssumption, PassesEnumerate DEF PartitionIds, MaybeNode
<1>2. NoRest \in [PartitionIds -> MaybeNode] /\ EmptyList \in Lists
  BY <1>1 DEF NoRest, EmptyList, Lists
<1>3. Idle \in Loops
  BY <1>1, <1>2 DEF Idle, Loops, Ops
<1> QED
  BY <1>1, <1>2, <1>3 DEF NoList, Lists

\* A list with a node added is a list, and the links are links.
LEMMA AppendedTyped ==
  ASSUME NEW links \in [Nodes -> Links], NEW list \in Lists, NEW n \in Nodes
  PROVE  Appended(links, list, n).next \in [Nodes -> Links] /\ Appended(links, list, n).list \in Lists
<1>1. Nodes \subseteq Links /\ Nodes \subseteq MaybeNode
  BY DEF Links, MaybeNode
<1>2. list.head \in MaybeNode
  BY DEF Lists
<1>3. [links EXCEPT ![list.tail] = n] \in [Nodes -> Links]
  BY <1>1
<1> QED
  BY <1>1, <1>2, <1>3, IdleTyped DEF Appended

\* The calls on a partition.
LEMMA StartsTyped ==
  ASSUME LinksTypeOK, NEW at \in [Nodes -> ListNames], NEW rank \in [Nodes -> Int], Inv(at, rank),
         NEW p \in PartitionIds,
         \/ \E n \in Nodes : Attach(n, p)
         \/ \E D \in SUBSET NodesOf(p) : UnlinkStart(p, D) \/ SweepStart(p, D)
         \/ FinalizeStart(p)
  PROVE  LinksTypeOK'
<1>1. chain[p] \in MaybeNode
  BY DEF LinksTypeOK
<1>2. CASE \E n \in Nodes : Attach(n, p)
  BY <1>1, <1>2 DEF Attach, LinksTypeOK, MaybeNode
<1>3. ASSUME loop.op = "none" PROVE NodesOf(p) \subseteq Nodes
  BY <1>3, ChainNodes, LinksLead DEF In
<1>4. ASSUME NEW D \in SUBSET NodesOf(p), UnlinkStart(p, D)
      PROVE  LinksTypeOK'
  <2>1. D \subseteq Nodes
    BY <1>3, <1>4 DEF UnlinkStart, HostMayUse
  <2>2. loop' \in Loops
    <3>1. loop' = [Idle EXCEPT !.op = "unlink", !.par = p, !.current = chain[p]]
      BY <1>4 DEF UnlinkStart
    <3> QED
      BY <1>1, <3>1, IdleTyped DEF Loops, Ops
  <2>3. chain' \in [PartitionIds -> MaybeNode]
    BY <1>4, IdleTyped DEF UnlinkStart, LinksTypeOK
  <2> QED
    BY <1>4, <2>1, <2>2, <2>3 DEF UnlinkStart, LinksTypeOK
<1>5. ASSUME NEW D \in SUBSET NodesOf(p), SweepStart(p, D)
      PROVE  LinksTypeOK'
  <2>1. D \subseteq Nodes
    BY <1>3, <1>5 DEF SweepStart, HostMayUse
  <2>2. loop' \in Loops
    <3>1. loop' = [Idle EXCEPT !.op = "sweep", !.par = p, !.current = chain[p], !.list.head = chain[p]]
      BY <1>5 DEF SweepStart
    <3>2. [Idle.list EXCEPT !.head = chain[p]] \in Lists
      BY <1>1, IdleTyped DEF Idle, EmptyList, Lists
    <3> QED
      BY <1>1, <3>1, <3>2, IdleTyped DEF Loops, Ops
  <2>3. chain' \in [PartitionIds -> MaybeNode]
    BY <1>5, IdleTyped DEF SweepStart, LinksTypeOK
  <2> QED
    BY <1>5, <2>1, <2>2, <2>3 DEF SweepStart, LinksTypeOK
<1>6. CASE FinalizeStart(p)
  <2>1. loop' \in Loops
    <3>1. loop' = [Idle EXCEPT !.op = "finalize", !.par = p, !.current = chain[p]]
      BY <1>6 DEF FinalizeStart
    <3> QED
      BY <1>1, <3>1, IdleTyped DEF Loops, Ops
  <2> QED
    BY <1>6, <2>1 DEF FinalizeStart, LinksTypeOK
<1> QED
  BY <1>2, <1>4, <1>5, <1>6

\* The calls that go on with a held list, and the drop of the heap.
LEMMA CallsTyped ==
  ASSUME LinksTypeOK, NEW at \in [Nodes -> ListNames], NEW rank \in [Nodes -> Int], Inv(at, rank),
         DropPayloads \/ DisposeStart \/ DeallocStart \/ DropHeap
  PROVE  LinksTypeOK'
<1>1. CASE DropPayloads
  BY <1>1 DEF DropPayloads, WithStatus, LinksTypeOK
<1>2. held.par \in PartitionIds /\ held.head \in MaybeNode
  BY DEF LinksTypeOK
<1>3. CASE DisposeStart
  <2>1. loop' = [Idle EXCEPT !.op = "dispose", !.par = held.par, !.current = held.head]
    BY <1>3 DEF DisposeStart
  <2>2. loop' \in Loops
    BY <1>2, <2>1, IdleTyped DEF Loops, Ops
  <2> QED
    BY <1>3, <2>2, IdleTyped DEF DisposeStart, LinksTypeOK
<1>4. CASE DeallocStart
  <2>1. loop' = [Idle EXCEPT !.op = "dealloc", !.par = held.par, !.current = held.head]
    BY <1>4 DEF DeallocStart
  <2>2. loop' \in Loops
    BY <1>2, <2>1, IdleTyped DEF Loops, Ops
  <2> QED
    BY <1>4, <2>2, IdleTyped DEF DeallocStart, LinksTypeOK
<1>5. CASE DropHeap
  <2>1. loop' = [Idle EXCEPT !.op = "drop", !.current = chain[1], !.list.head = chain[1],
                             !.rest = [chain EXCEPT ![1] = None]]
    BY <1>5 DEF DropHeap
  <2>2. chain[1] \in MaybeNode /\ [chain EXCEPT ![1] = None] \in [PartitionIds -> MaybeNode]
    BY IdleTyped DEF LinksTypeOK
  <2>3. [Idle.list EXCEPT !.head = chain[1]] \in Lists
    BY <2>2, IdleTyped DEF Idle, EmptyList, Lists
  <2>4. loop' \in Loops
    BY <2>1, <2>2, <2>3, IdleTyped DEF Loops, Ops
  <2> QED
    BY <1>5, <2>4, IdleTyped DEF DropHeap, LinksTypeOK
<1> QED
  BY <1>1, <1>3, <1>4, <1>5

\* A round of a loop: it never reads a link of freed memory.
LEMMA RoundTyped ==
  ASSUME LinksTypeOK, NEW at \in [Nodes -> ListNames], NEW rank \in [Nodes -> Int], Inv(at, rank),
         Round
  PROVE  LinksTypeOK'
<1> DEFINE n == loop.current
<1>1. /\ loop \in Loops /\ loop.list \in Lists /\ loop.white \in Lists
      /\ loop.list.head \in MaybeNode /\ loop.par \in PartitionIds
      /\ loop.rest \in [PartitionIds -> MaybeNode] /\ loop.pass \in 1..Len(Passes)
  BY DEF LinksTypeOK, Loops, Lists
<1>2. n # None => n \in Used /\ n \in Nodes /\ next[n] \in MaybeNode
  BY LinksLead DEF MaybeNode
<1>3. next \in [Nodes -> Links] /\ Garbage \in Links /\ MaybeNode \subseteq Links
  BY DEF LinksTypeOK, Links
<1>4. \A m \in Nodes : Detached(m) \in [Nodes -> Links]
  BY <1>3, IdleTyped DEF Detached
<1>5. loop.pass # Len(Passes) => loop.pass + 1 \in 1..Len(Passes)
  BY <1>1, PassesEnumerate
<1>6. \A links \in [Nodes -> Links] : \A S : Freed(S, links) \in [Nodes -> Links]
  BY <1>3 DEF Freed
<1>7. \A S : WithStatus(S, "free") \in [Nodes -> {"free", "live", "dropped"}]
             /\ WithStatus(S, "dropped") \in [Nodes -> {"free", "live", "dropped"}]
  BY DEF WithStatus, LinksTypeOK
<1>8. CASE UnlinkStep
  <2>1. PICK to \in Lists : to = IF n \in doomed THEN loop.white ELSE loop.list
    BY <1>1
  <2>2. n \in Nodes /\ next[n] \in MaybeNode
    BY <1>2, <1>8 DEF UnlinkStep
  <2>3. Appended(Detached(n), to, n).next \in [Nodes -> Links]
        /\ Appended(Detached(n), to, n).list \in Lists
    BY <1>4, <2>2, AppendedTyped
  <2>4. next' = Appended(Detached(n), to, n).next
        /\ \/ loop' = [loop EXCEPT !.white = Appended(Detached(n), to, n).list, !.current = next[n]]
           \/ loop' = [loop EXCEPT !.list = Appended(Detached(n), to, n).list, !.current = next[n]]
    BY <1>8, <2>1 DEF UnlinkStep, After
  <2>5. loop' \in Loops
    BY <1>1, <2>2, <2>3, <2>4 DEF Loops
  <2> QED
    BY <1>8, <2>3, <2>4, <2>5 DEF UnlinkStep, LinksTypeOK, Links
<1>9. CASE UnlinkEnd
  <2>1. loop' \in Loops /\ chain' \in [PartitionIds -> MaybeNode]
    BY <1>1, <1>9, IdleTyped DEF UnlinkEnd, LinksTypeOK
  <2>2. held' \in [from : {"none", "sweep", "teardown"}, par : PartitionIds, head : MaybeNode]
    BY <1>1, <1>9, IdleTyped DEF UnlinkEnd, Lists
  <2> QED
    BY <1>9, <2>1, <2>2 DEF UnlinkEnd, LinksTypeOK
<1>10. CASE DisposeStep
  <2>1. n \in Nodes /\ next[n] \in MaybeNode
    BY <1>2, <1>10 DEF DisposeStep
  <2>2. CASE DropPass(n) = Passes[loop.pass]
    <3>1. loop' = [loop EXCEPT !.current = next[n]] /\ next' = Freed({n}, next)
          /\ status' = WithStatus({n}, "free")
      BY <1>10, <2>2 DEF DisposeStep, After
    <3>2. loop' \in Loops
      BY <1>1, <2>1, <3>1 DEF Loops
    <3> QED
      BY <1>3, <1>6, <1>7, <1>10, <3>1, <3>2 DEF DisposeStep, LinksTypeOK, Links
  <2>3. CASE DropPass(n) # Passes[loop.pass]
    <3>1. loop' = [loop EXCEPT !.current = next[n], !.list = Appended(Detached(n), loop.list, n).list]
          /\ next' = Appended(Detached(n), loop.list, n).next /\ status' = status
      BY <1>10, <2>3 DEF DisposeStep, After
    <3>2. Appended(Detached(n), loop.list, n).next \in [Nodes -> Links]
          /\ Appended(Detached(n), loop.list, n).list \in Lists
      BY <1>1, <1>4, <2>1, AppendedTyped
    <3>3. loop' \in Loops
      BY <1>1, <2>1, <3>1, <3>2 DEF Loops
    <3> QED
      BY <1>10, <3>1, <3>2, <3>3 DEF DisposeStep, LinksTypeOK, Links
  <2> QED
    BY <2>2, <2>3
<1>11. CASE DisposePassEnd
  <2>1. loop' \in Loops
    <3>1. CASE LastRound
      BY <1>11, <3>1, IdleTyped DEF DisposePassEnd
    <3>2. CASE ~LastRound
      <4>1. loop' = [loop EXCEPT !.pass = loop.pass + 1, !.current = loop.list.head, !.list = EmptyList]
        BY <1>11, <3>2 DEF DisposePassEnd, NextPass
      <4>2. loop.pass + 1 \in 1..Len(Passes)
        BY <1>5, <3>2 DEF LastRound
      <4> QED
        BY <1>1, <4>1, <4>2, IdleTyped DEF Loops
    <3> QED
      BY <3>1, <3>2
  <2> QED
    BY <1>11, <2>1 DEF DisposePassEnd, LinksTypeOK
<1>12. CASE FilterStep
  <2>1. n \in Nodes /\ next[n] \in MaybeNode
    BY <1>2, <1>12 DEF FilterStep
  <2> DEFINE prev == loop.list.tail
  <2>2. CASE Taken(n)
    <3>1. loop' = [loop EXCEPT !.current = next[n], !.list.head = IF prev = None THEN next[n] ELSE @]
          /\ next' = Freed({n}, IF prev = None THEN next ELSE [next EXCEPT ![prev] = next[n]])
          /\ status' = WithStatus({n}, "free")
      BY <1>12, <2>2 DEF FilterStep, After
    <3>2. [loop.list EXCEPT !.head = IF prev = None THEN next[n] ELSE @] \in Lists
      BY <1>1, <2>1 DEF Lists
    <3>3. loop' \in Loops
      BY <1>1, <2>1, <3>1, <3>2 DEF Loops
    <3>4. next' \in [Nodes -> Links]
      <4>1. [next EXCEPT ![prev] = next[n]] \in [Nodes -> Links]
        BY <1>3, <2>1
      <4> QED
        BY <1>3, <1>6, <3>1, <4>1
    <3> QED
      BY <1>7, <1>12, <3>1, <3>3, <3>4 DEF FilterStep, LinksTypeOK, Links
  <2>3. CASE ~Taken(n)
    <3>1. loop' = [loop EXCEPT !.current = next[n], !.list.tail = n] /\ UNCHANGED <<status, next>>
      BY <1>12, <2>3 DEF FilterStep, After
    <3>2. [loop.list EXCEPT !.tail = n] \in Lists
      BY <1>1, <2>1 DEF Lists, MaybeNode
    <3>3. loop' \in Loops
      BY <1>1, <2>1, <3>1, <3>2 DEF Loops
    <3> QED
      BY <1>12, <3>1, <3>3 DEF FilterStep, LinksTypeOK
  <2> QED
    BY <2>2, <2>3
<1>13. CASE FilterPassEnd
  <2>1. loop' = [loop EXCEPT !.pass = loop.pass + 1, !.current = loop.list.head, !.list.tail = None]
    BY <1>13 DEF FilterPassEnd, NextPass
  <2>2. loop.pass + 1 \in 1..Len(Passes)
    BY <1>5, <1>13 DEF FilterPassEnd, LastRound
  <2>3. [loop.list EXCEPT !.tail = None] \in Lists
    BY <1>1, IdleTyped DEF Lists
  <2>4. loop' \in Loops
    BY <1>1, <2>1, <2>2, <2>3 DEF Loops
  <2> QED
    BY <1>13, <2>4 DEF FilterPassEnd, LinksTypeOK
<1>14. CASE SweepEnd
  BY <1>1, <1>14, IdleTyped DEF SweepEnd, LinksTypeOK
<1>15. CASE DropNextChain
  <2>1. CASE loop.par = MaxPartitions
    <3>1. loop' = [Idle EXCEPT !.op = "gone"]
      BY <1>15, <2>1 DEF DropNextChain
    <3>2. loop' \in Loops
      BY <3>1, IdleTyped DEF Loops, Ops
    <3> QED
      BY <1>15, <3>2 DEF DropNextChain, LinksTypeOK
  <2>2. CASE loop.par # MaxPartitions
    <3>1. PICK p \in PartitionIds : p = loop.par + 1
      BY <1>1, <2>2, LinksAssumption DEF PartitionIds
    <3>2. loop' = [loop EXCEPT !.par = p, !.pass = 1, !.current = loop.rest[p],
                               !.list = [head |-> loop.rest[p], tail |-> None], !.rest[p] = None]
      BY <1>15, <2>2, <3>1 DEF DropNextChain
    <3>3. loop.rest[p] \in MaybeNode /\ [loop.rest EXCEPT ![p] = None] \in [PartitionIds -> MaybeNode]
      BY <1>1, IdleTyped
    <3>4. [head |-> loop.rest[p], tail |-> None] \in Lists
      BY <3>3, IdleTyped
    <3>5. loop' \in Loops
      BY <1>1, <3>2, <3>3, <3>4, IdleTyped DEF Loops
    <3> QED
      BY <1>15, <3>5 DEF DropNextChain, LinksTypeOK
  <2> QED
    BY <2>1, <2>2
<1>16. CASE FinalizeStep
  <2>1. loop' = [loop EXCEPT !.current = next[n]] /\ next[n] \in MaybeNode
    BY <1>2, <1>16 DEF FinalizeStep, After
  <2>2. loop' \in Loops
    BY <1>1, <2>1 DEF Loops
  <2> QED
    BY <1>7, <1>16, <2>2 DEF FinalizeStep, LinksTypeOK
<1>17. CASE FinalizePassEnd
  <2>1. chain[loop.par] \in MaybeNode
    BY <1>1 DEF LinksTypeOK
  <2>2. CASE loop.pass = Len(Passes)
    BY <1>1, <1>17, <2>1, <2>2, IdleTyped DEF FinalizePassEnd, LinksTypeOK
  <2>3. CASE loop.pass # Len(Passes)
    <3>1. loop' = [loop EXCEPT !.pass = loop.pass + 1, !.current = chain[loop.par]] /\ held' = held
      BY <1>17, <2>3 DEF FinalizePassEnd, NextPass
    <3>2. loop' \in Loops
      BY <1>1, <1>5, <2>1, <2>3, <3>1 DEF Loops
    <3> QED
      BY <1>17, <3>1, <3>2 DEF FinalizePassEnd, LinksTypeOK
  <2> QED
    BY <2>2, <2>3
<1>18. CASE DeallocStep
  <2>1. loop' = [loop EXCEPT !.current = next[n]] /\ next[n] \in MaybeNode
        /\ next' = Freed({n}, next) /\ status' = WithStatus({n}, "free")
    BY <1>2, <1>18 DEF DeallocStep, After
  <2>2. loop' \in Loops
    BY <1>1, <2>1 DEF Loops
  <2> QED
    BY <1>3, <1>6, <1>7, <1>18, <2>1, <2>2 DEF DeallocStep, LinksTypeOK, Links
<1>19. CASE DeallocEnd
  BY <1>19, IdleTyped DEF DeallocEnd, LinksTypeOK
<1> QED
  BY <1>8, <1>9, <1>10, <1>11, <1>12, <1>13, <1>14, <1>15, <1>16, <1>17, <1>18, <1>19 DEF Round

-----------------------------------------------------------------------------
(* What holds in every reachable state.                                    *)

\* The inductive invariant: some layout fits.  The code keeps none.
LinksInv ==
    /\ LinksTypeOK
    /\ \E at \in [Nodes -> ListNames], rank \in [Nodes -> Int] : Inv(at, rank)

\* Of a heap without nodes every layout is one.
LEMMA LinksStart ==
  ASSUME LinksInit
  PROVE  LinksInv
<1>1. LinksTypeOK
  BY IdleTyped DEF LinksInit, LinksTypeOK
<1>2. PICK at \in [Nodes -> ListNames], rank \in [Nodes -> Int] :
        at = [n \in Nodes |-> Kept] /\ rank = [n \in Nodes |-> 0]
  <2>1. [n \in Nodes |-> Kept] \in [Nodes -> ListNames] /\ [n \in Nodes |-> 0] \in [Nodes -> Int]
    BY Names
  <2> QED
    BY <2>1
<1>3. Used = {}
  BY DEF LinksInit, Used
<1>4. /\ loop.op = "none" /\ loop.current = None
      /\ loop.list = EmptyList /\ loop.white = EmptyList /\ loop.rest = NoRest
      /\ held.from = "none" /\ \A p \in PartitionIds : chain[p] = None
  BY DEF LinksInit, Idle, NoList
<1>5. \A l \in ListNames : Heads[l] = None
  BY <1>4, Names, HeadsAre DEF HeadsSpelled, EmptyList, NoRest
<1>6. Laid(Used, next, Heads, at, rank)
  BY <1>3, <1>5 DEF Laid, FirstOf, In
<1>7. LoopShape(at, rank) /\ HeldShape
  BY <1>4 DEF LoopShape, HeldShape
<1>8. AtHome(at) /\ PayloadsDropped(at) /\ PayloadsLive(at) /\ PassesKept(at, rank)
  BY <1>3 DEF AtHome, PayloadsDropped, PayloadsLive, PassesKept
<1> QED
  BY <1>1, <1>6, <1>7, <1>8 DEF LinksInv, Inv

\* When nothing changes, the layout still fits.
LEMMA SameInv ==
  ASSUME LinksTypeOK, NEW at \in [Nodes -> ListNames], NEW rank \in [Nodes -> Int], Inv(at, rank),
         UNCHANGED linkVars
  PROVE  Inv(at, rank)'
<1> USE DEF linkVars
<1>1. Used' = Used
  BY DEF Used
<1>2. \A l \in ListNames : Heads'[l] = Heads[l]
  BY DEF Heads
<1>3. Laid(Used', next', Heads', at, rank)
  BY <1>1, <1>2, HeadsSame DEF Inv
<1>4. LoopShape(at, rank)' /\ HeldShape'
  BY <1>1 DEF Inv, LoopShape, HeldShape, EndsAtTail, InOldOrder, PrevIsBefore, DoomedKept
<1>5. AtHome(at)' /\ PayloadsDropped(at)' /\ PayloadsLive(at)'
  BY <1>1 DEF Inv, AtHome, PartitionOf, PayloadsDropped, PayloadsLive
<1>6. PassesKept(at, rank)'
  BY <1>1 DEF Inv, PassesKept, Due, Behind
<1> QED
  BY <1>3, <1>4, <1>5, <1>6 DEF Inv

\* A new node is put before all others of its chain.  No other step, whichever it is,
\* gives a node another place than it had.
LEMMA LinksStep ==
  ASSUME LinksTypeOK, NEW at \in [Nodes -> ListNames], NEW rank \in [Nodes -> Int], Inv(at, rank),
         [LinksNext]_linkVars
  PROVE  /\ LinksTypeOK'
         /\ \E at2 \in [Nodes -> ListNames], rank2 \in [Nodes -> Int] :
                Inv(at2, rank2)' /\ (loop.op # "none" => rank2 = rank)
<1> DEFINE Typed == LinksTypeOK'
           Fits(at2) == Inv(at2, rank)'
           Goal == /\ Typed
                   /\ \E at2 \in [Nodes -> ListNames], rank2 \in [Nodes -> Int] :
                        Inv(at2, rank2)' /\ (loop.op # "none" => rank2 = rank)
<1>0. ASSUME Typed, NEW at2 \in [Nodes -> ListNames], Fits(at2)
      PROVE  Goal
  BY <1>0
<1>1. ASSUME NEW n \in Nodes, NEW p \in PartitionIds, Attach(n, p)
      PROVE  Goal
  <2>1. loop.op = "none"
    BY <1>1 DEF Attach, HostMayUse
  <2>2. \E at2 \in [Nodes -> ListNames], rank2 \in [Nodes -> Int] : Inv(at2, rank2)'
    BY <1>1, AttachKeeps
  <2>3. Typed
    BY <1>1, StartsTyped
  <2> QED
    BY <2>1, <2>2, <2>3
<1>2. ASSUME NEW p \in PartitionIds, NEW D \in SUBSET NodesOf(p), UnlinkStart(p, D) \/ SweepStart(p, D)
      PROVE  Goal
  <2>1. Typed
    BY <1>2, StartsTyped
  <2>2. PICK at2 \in [Nodes -> ListNames] : Fits(at2)
    BY <1>2, UnlinkStartKeeps, SweepStartKeeps
  <2> HIDE DEF Goal, Typed, Fits
  <2> QED
    BY <1>0, <2>1, <2>2
<1>3. ASSUME NEW p \in PartitionIds, FinalizeStart(p)
      PROVE  Goal
  <2>1. Typed /\ Fits(at)
    BY <1>3, StartsTyped, FinalizeStartKeeps
  <2> HIDE DEF Goal, Typed, Fits
  <2> QED
    BY <1>0, <2>1
<1>4. ASSUME DropPayloads \/ DisposeStart \/ DeallocStart \/ DropHeap
      PROVE  Goal
  <2>1. Typed
    BY <1>4, CallsTyped
  <2>2. PICK at2 \in [Nodes -> ListNames] : Fits(at2)
    BY <1>4, DropPayloadsKeeps, DisposeStartKeeps, DeallocStartKeeps, DropHeapKeeps
  <2> HIDE DEF Goal, Typed, Fits
  <2> QED
    BY <1>0, <2>1, <2>2
<1>5. ASSUME Round
      PROVE  Goal
  <2>1. Typed
    BY <1>5, RoundTyped
  <2>2. PICK at2 \in [Nodes -> ListNames] : Fits(at2)
    <3>1. CASE UnlinkStep \/ UnlinkEnd \/ DisposeStep \/ DisposePassEnd
      BY <3>1, UnlinkStepKeeps, UnlinkEndKeeps, DisposeStepKeeps, DisposePassEndKeeps
    <3>2. CASE FilterStep \/ FilterPassEnd \/ SweepEnd \/ DropNextChain
      BY <3>2, FilterStepKeeps, FilterPassEndKeeps, SweepEndKeeps, DropNextChainKeeps
    <3>3. CASE FinalizeStep \/ FinalizePassEnd \/ DeallocStep \/ DeallocEnd
      BY <3>3, FinalizeStepKeeps, FinalizePassEndKeeps, DeallocStepKeeps, DeallocEndKeeps
    <3> QED
      BY <1>5, <3>1, <3>2, <3>3 DEF Round
  <2> HIDE DEF Goal, Typed, Fits
  <2> QED
    BY <1>0, <2>1, <2>2
<1>6. ASSUME UNCHANGED linkVars
      PROVE  Goal
  <2>1. Typed
    BY <1>6 DEF LinksTypeOK, linkVars
  <2>2. Fits(at)
    BY <1>6, SameInv
  <2> HIDE DEF Goal, Typed, Fits
  <2> QED
    BY <1>0, <2>1, <2>2
<1>7. Goal
  <2> HIDE DEF Goal
  <2> QED
    BY <1>1, <1>2, <1>3, <1>4, <1>5, <1>6 DEF LinksNext
<1> QED
  BY <1>7

\* However the host's calls and the sweeps interleave, in the midst of any loop.
THEOREM LinksInvariant == LinksSpec => []LinksInv
<1>1. LinksInit => LinksInv
  BY LinksStart
<1>2. LinksInv /\ [LinksNext]_linkVars => LinksInv'
  <2> SUFFICES ASSUME LinksInv, [LinksNext]_linkVars
               PROVE  LinksInv'
    OBVIOUS
  <2>1. PICK at \in [Nodes -> ListNames], rank \in [Nodes -> Int] : Inv(at, rank)
    BY DEF LinksInv
  <2>2. LinksTypeOK
    BY DEF LinksInv
  <2> QED
    BY <2>1, <2>2, LinksStep DEF LinksInv
<1> QED
  BY <1>1, <1>2, PTL DEF LinksSpec

\* No link that was read from freed memory is ever followed, stored or held: the
\* loops read where they go on before they free or detach a node.
THEOREM LinksTyped == LinksSpec => []LinksTypeOK
<1>1. LinksInv => LinksTypeOK
  BY DEF LinksInv
<1> QED
  BY <1>1, LinksInvariant, PTL

\* Each list has the nodes that the layout puts there, in the order of their ranks.
LEMMA ListsClimb ==
  ASSUME LinksTypeOK, NEW at \in [Nodes -> ListNames], NEW rank \in [Nodes -> Int], Inv(at, rank),
         NEW l \in ListNames
  PROVE  Climbs(Walk(Heads[l]), In(Used, at, l), rank)
<1>1. Laid(Used, next, Heads, at, rank) /\ Used \in SUBSET Nodes /\ next \in [Nodes -> Links]
  BY LinksLead DEF Inv, LinksTypeOK, Links
<1>2. Walk(Heads[l]) = WalkBy(next)[Cardinality(Nodes) + 1][Heads[l]]
  BY WalkIs
<1> QED
  BY <1>1, <1>2, ListClimbs

\* What ascends, read as a sequence of nodes.
LEMMA ClimbingNodes ==
  ASSUME NEW S \in SUBSET Nodes, NEW rank, NEW s, Climbs(s, S, rank)
  PROVE  /\ s \in Seq(Nodes) /\ Len(s) \in Nat /\ DOMAIN s = 1..Len(s)
         /\ \A i \in 1..Len(s) : s[i] \in S /\ s[i] \in Nodes
         /\ \A i, j \in 1..Len(s) : i < j => rank[s[i]] < rank[s[j]]
<1>1. s \in Seq(S)
  BY DEF Climbs
<1>2. \A i \in 1..Len(s) : s[i] \in S
  BY <1>1
<1>3. Len(s) \in Nat /\ DOMAIN s = 1..Len(s)
  BY <1>1
<1>4. s \in Seq(Nodes)
  BY <1>1, <1>2, <1>3
<1> QED
  BY <1>2, <1>3, <1>4 DEF Climbs

\* No node is lost, and none is in two lists or twice in one: what is not free is
\* found by exactly one walk, also between two rounds of a loop.
THEOREM NoNodeLost == LinksSpec => []EachInOneList
<1>1. ASSUME LinksInv
      PROVE  EachInOneList
  <2>1. PICK at \in [Nodes -> ListNames], rank \in [Nodes -> Int] : Inv(at, rank)
    BY <1>1 DEF LinksInv
  <2>2. \A l \in ListNames : LiveLists[l] = Walk(Heads[l])
    BY DEF LiveLists
  <2>3. ASSUME NEW l \in ListNames
        PROVE  Climbs(LiveLists[l], In(Used, at, l), rank)
    BY <1>1, <2>1, <2>2, ListsClimb DEF LinksInv
  <2>4. ASSUME NEW l \in ListNames
        PROVE  Range(LiveLists[l]) = In(Used, at, l)
    BY <2>3 DEF Climbs, Range
  <2>5. ASSUME NEW l \in ListNames
        PROVE  IsInjective(LiveLists[l])
    <3>1. PICK s : s = LiveLists[l]
      OBVIOUS
    <3>2. Climbs(s, In(Used, at, l), rank) /\ In(Used, at, l) \in SUBSET Nodes
      BY <2>3, <3>1 DEF In, Used
    <3>3. /\ DOMAIN s = 1..Len(s) /\ \A i \in 1..Len(s) : rank[s[i]] \in Int
          /\ \A i, j \in 1..Len(s) : i < j => rank[s[i]] < rank[s[j]]
      <4> HIDE DEF LinksInv
      <4> QED
        BY <3>2, ClimbingNodes
    <3>4. ASSUME NEW i \in 1..Len(s), NEW j \in 1..Len(s), s[i] = s[j]
          PROVE  i = j
      <4>1. i \in Int /\ j \in Int /\ ~(rank[s[i]] < rank[s[j]]) /\ ~(rank[s[j]] < rank[s[i]])
        BY <3>3, <3>4
      <4> QED
        BY <3>3, <4>1
    <3> QED
      BY <3>1, <3>3, <3>4 DEF IsInjective
  <2>6. \A l, m \in ListNames : l # m => Range(LiveLists[l]) \intersect Range(LiveLists[m]) = {}
    BY <2>4 DEF In
  <2>7. UNION {Range(LiveLists[l]) : l \in ListNames} = Used
    <3>1. \A n \in Used : at[n] \in ListNames
      BY DEF Used
    <3> QED
      BY <2>4, <3>1 DEF In
  <2> QED
    BY <2>5, <2>6, <2>7 DEF EachInOneList, Used
<1> QED
  BY <1>1, LinksInvariant, PTL

\* In what OrderKept compares, ranks ascend.
OrderedByRank ==
    \A at \in [Nodes -> ListNames], rank \in [Nodes -> Int] :
        LinksTypeOK /\ Inv(at, rank) =>
            \A xy \in Ordered : xy[1] \in Nodes /\ xy[2] \in Nodes /\ rank[xy[1]] < rank[xy[2]]

\* Of two nodes, OrderKept compares the ranks, as long as the layout fits.
LEMMA OrderIsRank == OrderedByRank
<1> SUFFICES ASSUME LinksTypeOK, NEW at \in [Nodes -> ListNames], NEW rank \in [Nodes -> Int],
                    Inv(at, rank), NEW xy \in Ordered
             PROVE  xy[1] \in Nodes /\ xy[2] \in Nodes /\ rank[xy[1]] < rank[xy[2]]
  BY DEF OrderedByRank
<1> DEFINE Rises(s) ==
        /\ DOMAIN s = 1..Len(s)
        /\ \A i \in DOMAIN s : s[i] \in Nodes
        /\ \A i, j \in DOMAIN s : i < j => rank[s[i]] < rank[s[j]]
<1>1. ASSUME NEW l \in ListNames
      PROVE  /\ Climbs(Walk(Heads[l]), In(Used, at, l), rank)
             /\ Rises(Walk(Heads[l]))
  <2>1. Climbs(Walk(Heads[l]), In(Used, at, l), rank)
    BY ListsClimb
  <2>2. PICK s : s = Walk(Heads[l])
    OBVIOUS
  <2>3. Climbs(s, In(Used, at, l), rank) /\ In(Used, at, l) \in SUBSET Nodes
    BY <2>1, <2>2 DEF In, Used
  <2>4. Rises(s)
    BY <2>3, ClimbingNodes
  <2> QED
    BY <2>1, <2>2, <2>4
<1>2. PICK rest : rest = IF loop.op \in {"unlink", "dispose"} THEN Walk(loop.current) ELSE <<>>
  OBVIOUS
<1>3. ASSUME NEW l \in {Kept, Whites}, NEW s, s = Walk(Heads[l]) \o rest
      PROVE  Rises(s)
  <2>1. PICK w : w = Walk(Heads[l])
    OBVIOUS
  <2>a. \A m : In(Used, at, m) \in SUBSET Nodes
    BY DEF In, Used
  <2>2. /\ w \in Seq(Nodes) /\ Len(w) \in Nat /\ \A i \in 1..Len(w) : w[i] \in In(Used, at, l)
        /\ \A i, j \in 1..Len(w) : i < j => rank[w[i]] < rank[w[j]]
    <3>1. l \in ListNames /\ Climbs(w, In(Used, at, l), rank)
      BY <1>1, <2>1, Names
    <3> QED
      BY <2>a, <3>1, ClimbingNodes
  <2>3. CASE loop.op \in {"unlink", "dispose"}
    <3>1. rest = Walk(Heads[Current]) /\ Current \in ListNames
      BY <1>2, <2>3, HeadsAre, Names DEF HeadsSpelled
    <3>2. /\ rest \in Seq(Nodes) /\ Len(rest) \in Nat
          /\ \A i \in 1..Len(rest) : rest[i] \in In(Used, at, Current)
          /\ \A i, j \in 1..Len(rest) : i < j => rank[rest[i]] < rank[rest[j]]
      <4>1. Climbs(rest, In(Used, at, Current), rank)
        BY <1>1, <3>1
      <4> QED
        BY <2>a, <4>1, ClimbingNodes
    <3>3. InOldOrder(at, rank)
      BY <2>3 DEF Inv, LoopShape
    <3>4. \A i \in 1..Len(w), j \in 1..Len(rest) : rank[w[i]] < rank[rest[j]]
      BY <2>2, <3>2, <3>3 DEF In, InOldOrder
    <3>5. s \in Seq(Nodes) /\ Len(s) = Len(w) + Len(rest)
          /\ \A i \in 1..Len(s) : s[i] = IF i <= Len(w) THEN w[i] ELSE rest[i - Len(w)]
      BY <1>3, <2>1, <2>2, <3>2
    <3>6. ASSUME NEW i \in 1..Len(s), NEW j \in 1..Len(s), i < j
          PROVE  rank[s[i]] < rank[s[j]]
      <4>1. CASE j <= Len(w)
        <5>1. i \in 1..Len(w) /\ j \in 1..Len(w) /\ s[i] = w[i] /\ s[j] = w[j]
          BY <2>2, <3>5, <3>6, <4>1
        <5> QED
          BY <2>2, <3>6, <5>1
      <4>2. CASE i <= Len(w) /\ Len(w) < j
        <5>1. i \in 1..Len(w) /\ j - Len(w) \in 1..Len(rest)
              /\ s[i] = w[i] /\ s[j] = rest[j - Len(w)]
          BY <2>2, <3>2, <3>5, <3>6, <4>2
        <5> QED
          BY <3>4, <5>1
      <4>3. CASE Len(w) < i
        <5>1. i - Len(w) \in 1..Len(rest) /\ j - Len(w) \in 1..Len(rest) /\ i - Len(w) < j - Len(w)
          BY <2>2, <3>2, <3>5, <3>6, <4>3
        <5>2. s[i] = rest[i - Len(w)] /\ s[j] = rest[j - Len(w)]
          <6>1. i \in 1..Len(s) /\ j \in 1..Len(s) /\ ~(i <= Len(w)) /\ ~(j <= Len(w))
            BY <2>2, <3>6, <4>3
          <6> QED
            BY <3>5, <6>1
        <5> QED
          BY <3>2, <5>1, <5>2
      <4> QED
        BY <2>2, <4>1, <4>2, <4>3
    <3> QED
      BY <3>5, <3>6
  <2>4. CASE loop.op \notin {"unlink", "dispose"}
    <3>1. s = Walk(Heads[l])
      BY <1>2, <1>3, <2>1, <2>2, <2>4
    <3>2. l \in ListNames
      BY Names
    <3> HIDE DEF Rises
    <3> QED
      BY <1>1, <3>1, <3>2
  <2> QED
    BY <2>3, <2>4
<1>4. PICK s \in Range(LiveLists) \union {Walk(loop.list.head) \o rest, Walk(loop.white.head) \o rest} :
        \E i, j \in DOMAIN s : i < j /\ xy = <<s[i], s[j]>>
  <2>1. PICK s \in Range(LiveLists) \union {Walk(loop.list.head) \o rest, Walk(loop.white.head) \o rest} :
          xy \in {<<s[ij[1]], s[ij[2]]>> : ij \in {p \in (DOMAIN s) \X (DOMAIN s) : p[1] < p[2]}}
    BY <1>2 DEF Ordered
  <2> QED
    BY <2>1
<1>5. Rises(s)
  <2>1. Heads[Kept] = loop.list.head /\ Heads[Whites] = loop.white.head
    BY HeadsAre DEF HeadsSpelled
  <2>2. CASE s \in Range(LiveLists)
    <3>1. PICK l \in ListNames : s = Walk(Heads[l])
      BY <2>2 DEF Range, LiveLists
    <3> HIDE DEF Rises
    <3> QED
      BY <1>1, <3>1
  <2>3. CASE s \in {Walk(loop.list.head) \o rest, Walk(loop.white.head) \o rest}
    <3> HIDE DEF Rises
    <3> QED
      BY <1>3, <2>1, <2>3
  <2> QED
    BY <2>2, <2>3, <1>4
<1>6. PICK i, j \in DOMAIN s : i < j /\ xy = <<s[i], s[j]>>
  BY <1>4
<1>7. xy[1] = s[i] /\ xy[2] = s[j]
  BY <1>6
<1> QED
  BY <1>5, <1>6, <1>7

\* No round of any loop turns two nodes of a list round: what a sweep leaves, and what
\* it takes, stay in the order in which the host allocated them.
THEOREM ChainsKeepOrder == LinksSpec => OrderKept
<1> DEFINE Step == loop.op # "none" =>
                     LET later == Ordered' IN \A xy \in Ordered : <<xy[2], xy[1]>> \notin later
<1>1. OrderedByRank
  BY OrderIsRank
<1>2. OrderedByRank'
  BY <1>1, PTL
<1>3. LinksInv /\ [LinksNext]_linkVars => Step
  <2> SUFFICES ASSUME LinksInv, [LinksNext]_linkVars, loop.op # "none",
                      NEW xy \in Ordered, <<xy[2], xy[1]>> \in Ordered'
               PROVE  FALSE
    OBVIOUS
  <2>1. PICK at \in [Nodes -> ListNames], rank \in [Nodes -> Int] : Inv(at, rank)
    BY DEF LinksInv
  <2>2. LinksTypeOK
    BY DEF LinksInv
  <2>3. LinksTypeOK' /\ \E at2 \in [Nodes -> ListNames] : Inv(at2, rank)'
    BY <2>1, <2>2, LinksStep
  <2>4. xy[1] \in Nodes /\ xy[2] \in Nodes /\ rank[xy[1]] < rank[xy[2]]
    BY <1>1, <2>1, <2>2 DEF OrderedByRank
  <2>5. rank[xy[2]] < rank[xy[1]]
    BY <1>2, <2>3 DEF OrderedByRank
  <2>6. rank[xy[1]] \in Int /\ rank[xy[2]] \in Int
    BY <2>4
  <2> QED
    BY <2>4, <2>5, <2>6
<1>4. []LinksInv /\ [][LinksNext]_linkVars => OrderKept
  BY <1>3, PTL DEF OrderKept
<1> QED
  BY <1>4, LinksInvariant, PTL DEF LinksSpec

\* What is due now is due in this pass or a later one.
LEMMA DueLater ==
  ASSUME LinksTypeOK, NEW at \in [Nodes -> ListNames], NEW rank \in [Nodes -> Int], Inv(at, rank),
         NEW m \in Used, Due(m, at)
  PROVE  Passes[loop.pass] <= DropPass(m)
<1>1. m \in Nodes
  BY DEF Used
<1>2. PICK i \in 1..Len(Passes) : Passes[i] = DropPass(m)
  BY <1>1, PassesEnumerate
<1>3. loop.pass \in 1..Len(Passes)
  BY DEF LinksTypeOK, Loops
<1>4. i \notin 1..(loop.pass - 1)
  BY <1>2 DEF Inv, PassesKept, Past
<1>5. i = loop.pass \/ loop.pass < i
  BY <1>3, <1>4, PassesEnumerate
<1> QED
  BY <1>2, <1>3, <1>5, PassesEnumerate

\* A live node of the partition at hand that dies in this call is due in it.
LEMMA DiesHere ==
  ASSUME LinksTypeOK, NEW at \in [Nodes -> ListNames], NEW rank \in [Nodes -> Int], Inv(at, rank),
         loop.op \in {"sweep", "drop", "finalize"},
         NEW m \in Nodes, status[m] = "live", home[m] = loop.par, loop.op = "sweep" => m \in doomed
  PROVE  Due(m, at)
<1>1. m \in Used
  BY DEF Used
<1>2. loop.par \in PartitionIds /\ PartitionOf(at[m]) = loop.par
  BY <1>1 DEF Inv, AtHome, LinksTypeOK, Loops
<1>3. CASE loop.op = "sweep"
  BY <1>1, <1>3 DEF Inv, LoopShape, DoomedKept, Due
<1>4. CASE loop.op \in {"drop", "finalize"}
  <2>1. Heads[at[m]] # None
    BY <1>1, HeadsFirst DEF Inv
  <2>2. held.from = "none" /\ loop.white = EmptyList
    BY <1>4 DEF Inv, HeldShape, LoopShape
  <2>3. at[m] \notin {Whites, HeldList, Current}
    BY <1>4, <2>1, <2>2, HeadsAre DEF HeadsSpelled, EmptyList
  <2>4. at[m] # RestOf(loop.par)
    <3>1. loop.rest[loop.par] = None
      <4>1. loop.par <= loop.par
        BY <1>2 DEF PartitionIds
      <4>2. NoRest[loop.par] = None
        BY <1>2 DEF NoRest
      <4> QED
        BY <1>2, <1>4, <4>1, <4>2 DEF Inv, LoopShape
    <3> QED
      BY <1>2, <2>1, <3>1, HeadsAre DEF HeadsSpelled
  <2>5. at[m] = Kept \/ at[m] = ChainOf(loop.par)
    <3>1. at[m] \in ListNames
      OBVIOUS
    <3>2. CASE at[m] = Kept
      BY <3>2
    <3>3. ASSUME NEW p \in PartitionIds, at[m] = ChainOf(p) \/ at[m] = RestOf(p)
          PROVE  at[m] = ChainOf(loop.par)
      BY <1>2, <2>4, <3>3, PartitionsAre DEF PartitionsSpelled
    <3> QED
      BY <2>3, <3>1, <3>2, <3>3, Names
  <2>6. CASE loop.op = "drop"
    <3>1. at[m] # ChainOf(loop.par)
      BY <1>2, <2>1, <2>6, HeadsAre DEF Inv, LoopShape, HeadsSpelled
    <3> QED
      BY <2>5, <2>6, <3>1 DEF Due
  <2>7. CASE loop.op = "finalize"
    <3>1. at[m] # Kept
      BY <2>1, <2>7, HeadsAre DEF Inv, LoopShape, HeadsSpelled, EmptyList
    <3> QED
      BY <2>5, <2>7, <3>1 DEF Due
  <2> QED
    BY <1>4, <2>6, <2>7
<1> QED
  BY <1>3, <1>4

\* The node a round drops is of the pass at hand and of the partition at hand.
LEMMA DropsAtHand ==
  ASSUME LinksTypeOK, NEW at \in [Nodes -> ListNames], NEW rank \in [Nodes -> Int], Inv(at, rank),
         Round, NEW n \in Nodes, Drops(n)
  PROVE  /\ loop.op \in {"sweep", "drop", "finalize"}
         /\ DropPass(n) = Passes[loop.pass] /\ home[n] = loop.par
<1>1. status[n] = "live" /\ status'[n] # "live" /\ n \in Used
  BY DEF Drops, Used
<1>2. CASE UnlinkStep \/ UnlinkEnd \/ DisposePassEnd \/ FilterPassEnd \/ SweepEnd \/ DropNextChain
            \/ FinalizePassEnd \/ DeallocEnd
  BY <1>1, <1>2 DEF UnlinkStep, UnlinkEnd, DisposePassEnd, FilterPassEnd, SweepEnd, DropNextChain,
                    FinalizePassEnd, DeallocEnd
<1>3. CASE DisposeStep \/ DeallocStep
  <2>1. loop.op \in {"dispose", "dealloc"} /\ loop.current # None
        /\ status' \in {status, WithStatus({loop.current}, "free")}
    BY <1>3 DEF DisposeStep, DeallocStep
  <2>2. n = loop.current
    BY <1>1, <2>1 DEF WithStatus
  <2>3. at[n] = Current
    BY <1>1, <2>1, <2>2, LinksLead, HeadsAre, Names DEF HeadsSpelled
  <2> QED
    BY <1>1, <2>1, <2>3 DEF Inv, PayloadsDropped
<1>4. CASE FilterStep
  <2>1. loop.op \in {"sweep", "drop"} /\ loop.current # None
    BY <1>4 DEF FilterStep
  <2>2. Taken(loop.current) /\ n = loop.current
    BY <1>1, <1>4 DEF FilterStep, WithStatus
  <2>3. at[n] = Kept
    <3>1. PrevIsBefore(at) /\ Heads[Kept] = loop.list.head /\ Kept \in ListNames
      BY <2>1, HeadsAre, Names DEF Inv, LoopShape, HeadsSpelled
    <3> QED
      BY <2>1, <2>2, <3>1, LinksLead DEF PrevIsBefore
  <2>4. home[n] = loop.par
    BY <1>1, <2>3, PartitionsAre DEF Inv, AtHome, PartitionsSpelled
  <2> QED
    BY <2>1, <2>2, <2>4 DEF Taken
<1>5. CASE FinalizeStep
  <2>1. loop.op = "finalize" /\ loop.current # None
    BY <1>5 DEF FinalizeStep
  <2>2. DropPass(n) = Passes[loop.pass] /\ n = loop.current
    BY <1>1, <1>5 DEF FinalizeStep, Finalized, WithStatus
  <2>3. at[n] = ChainOf(loop.par)
    BY <2>1, <2>2 DEF Inv, LoopShape
  <2>4. home[n] = loop.par
    BY <1>1, <2>3, PartitionsAre DEF Inv, AtHome, PartitionsSpelled
  <2> QED
    BY <2>1, <2>2, <2>4
<1> QED
  BY <1>2, <1>3, <1>4, <1>5 DEF Round

\* No payload is dropped while one of a lower pass, of the same partition and due in
\* the same call, is still there: passes are what lets a drop use what it refers to.
\* sweep_drop_payloads is the exception: it drops a list at once, in its order.
THEOREM DropsByPass == LinksSpec => PassesInOrder
<1> DEFINE Step == loop.op # "none" =>
                     \A n, m \in Nodes :
                        Drops(n) /\ DropPass(m) < DropPass(n) /\ home[m] = home[n]
                        /\ (loop.op = "sweep" => m \in doomed)
                        => status[m] # "live"
<1>1. LinksInv /\ [LinksNext]_linkVars => Step
  <2> SUFFICES ASSUME LinksInv, [LinksNext]_linkVars, loop.op # "none",
                      NEW n \in Nodes, NEW m \in Nodes,
                      Drops(n), DropPass(m) < DropPass(n), home[m] = home[n],
                      loop.op = "sweep" => m \in doomed, status[m] = "live"
               PROVE  FALSE
    OBVIOUS
  <2>1. PICK at \in [Nodes -> ListNames], rank \in [Nodes -> Int] : Inv(at, rank)
    BY DEF LinksInv
  <2>2. LinksTypeOK
    BY DEF LinksInv
  <2>3. Round
    <3>1. status' # status
      BY DEF Drops
    <3>2. ~UNCHANGED linkVars
      BY <3>1 DEF linkVars
    <3> QED
      BY <3>2 DEF LinksNext, Attach, UnlinkStart, SweepStart, FinalizeStart, HostMayUse,
                  DropPayloads, DisposeStart, DeallocStart, DropHeap
  <2>4. /\ loop.op \in {"sweep", "drop", "finalize"}
        /\ DropPass(n) = Passes[loop.pass] /\ home[n] = loop.par
    BY <2>1, <2>2, <2>3, DropsAtHand
  <2>5. Due(m, at) /\ m \in Used
    BY <2>1, <2>2, <2>4, DiesHere DEF Used
  <2>6. Passes[loop.pass] <= DropPass(m)
    BY <2>1, <2>2, <2>5, DueLater
  <2>7. DropPass(m) \in Nat /\ DropPass(n) \in Nat
    BY PassesEnumerate
  <2> QED
    BY <2>4, <2>6, <2>7
<1>2. []LinksInv /\ [][LinksNext]_linkVars => PassesInOrder
  BY <1>1, PTL DEF PassesInOrder
<1> QED
  BY <1>2, LinksInvariant, PTL DEF LinksSpec
-----------------------------------------------------------------------------
(* Each payload is dropped once.                                           *)

\* In a chain whose payloads are being dropped, those are gone whose turn has come,
\* and no others.
DroppedInTurn(at, rank) ==
    loop.op = "finalize" =>
        \A n \in Used : at[n] = ChainOf(loop.par) /\ status[n] # "live" =>
            \/ \E j \in 1..(loop.pass - 1) : Passes[j] = DropPass(n)
            \/ DropPass(n) = Passes[loop.pass] /\ Behind(n, at, rank)

\* The drop of the heap frees what it drops.
LiveInDrop == loop.op = "drop" => \A n \in Used : status[n] = "live"

OnceInv ==
    /\ LinksTypeOK /\ LiveInDrop
    /\ \E at \in [Nodes -> ListNames], rank \in [Nodes -> Int] :
            Inv(at, rank) /\ DroppedInTurn(at, rank)

\* When the heap is dropped, all its nodes are in chains that the host may use.
LEMMA DropHeapLive ==
  ASSUME LinksTypeOK, NEW at \in [Nodes -> ListNames], NEW rank \in [Nodes -> Int], Inv(at, rank),
         DropHeap
  PROVE  LiveInDrop'
<1>0. /\ loop.op = "none" /\ held.from = "none" /\ status' = status
  BY DEF DropHeap, NoList
<1>1. loop.list = EmptyList /\ loop.white = EmptyList /\ loop.rest = NoRest
  BY <1>0 DEF Inv, LoopShape
<1>2. ASSUME NEW n \in Used
      PROVE  status[n] = "live"
  <2>1. Heads[at[n]] # None /\ at[n] \in ListNames
    BY HeadsFirst DEF Inv, Used
  <2>2. at[n] \notin {Kept, Whites, HeldList, Current}
    BY <1>0, <1>1, <2>1, HeadsAre DEF HeadsSpelled, EmptyList
  <2>3. \A p \in PartitionIds : at[n] # RestOf(p)
    BY <1>1, <2>1, HeadsAre DEF HeadsSpelled, NoRest
  <2>4. PICK p \in PartitionIds : at[n] = ChainOf(p)
    BY <2>1, <2>2, <2>3, Names
  <2> QED
    BY <1>0, <2>4 DEF Inv, PayloadsLive
<1> QED
  BY <1>0, <1>2 DEF LiveInDrop, Used

\* A loop goes on as it is, until it is over; DropHeap's is over when the heap is gone.
LoopGoesOn == loop'.op \in {loop.op, "none", "gone"}

\* No round is one of another loop.
LEMMA RoundGoesOn ==
  ASSUME LinksTypeOK, Round
  PROVE  LoopGoesOn
<1>0. loop \in Loops
  BY DEF LinksTypeOK
<1>1. CASE UnlinkStep \/ DisposeStep
  <2>1. \E a, b, c : loop' \in {[loop EXCEPT !.white = a, !.current = b], [loop EXCEPT !.list = a, !.current = b],
                               [loop EXCEPT !.current = b], [loop EXCEPT !.current = b, !.list = a]}
    BY <1>1 DEF UnlinkStep, DisposeStep
  <2> QED
    BY <1>0, <2>1 DEF LoopGoesOn, Loops
<1>2. CASE FilterStep \/ FinalizeStep \/ DeallocStep
  <2>1. \E a, b : loop' \in {[loop EXCEPT !.current = a, !.list.head = b], [loop EXCEPT !.current = a, !.list.tail = b],
                            [loop EXCEPT !.current = a]}
    BY <1>2 DEF FilterStep, FinalizeStep, DeallocStep
  <2> QED
    BY <1>0, <2>1 DEF LoopGoesOn, Loops
<1>3. CASE DisposePassEnd
  <2>1. \/ loop'.op = "none"
        \/ \E a, b, c : loop' = [loop EXCEPT !.pass = a, !.current = b, !.list = c]
    BY <1>3 DEF DisposePassEnd, Idle
  <2> QED
    BY <1>0, <2>1 DEF LoopGoesOn, Loops
<1>4. CASE FilterPassEnd
  <2>1. loop' = [loop EXCEPT !.pass = NextPass(@), !.current = loop.list.head, !.list.tail = None]
    BY <1>4 DEF FilterPassEnd
  <2> QED
    BY <1>0, <2>1 DEF LoopGoesOn, Loops
<1>5. CASE FinalizePassEnd
  <2>1. CASE loop.pass = Len(Passes)
    BY <1>5, <2>1 DEF FinalizePassEnd, Idle, LoopGoesOn
  <2>2. CASE loop.pass # Len(Passes)
    <3>1. loop' = [loop EXCEPT !.pass = NextPass(loop.pass), !.current = chain[loop.par]]
      BY <1>5, <2>2 DEF FinalizePassEnd
    <3> QED
      BY <1>0, <3>1 DEF LoopGoesOn, Loops
  <2> QED
    BY <2>1, <2>2
<1>6. CASE DropNextChain
  <2>1. \/ loop'.op = "gone"
        \/ \E a, b, c, p : loop' = [loop EXCEPT !.par = p, !.pass = 1, !.current = a,
                                               !.list = b, !.rest[p] = c]
    BY <1>6 DEF DropNextChain, Idle
  <2> QED
    BY <1>0, <2>1 DEF LoopGoesOn, Loops
<1>7. CASE UnlinkEnd \/ SweepEnd \/ DeallocEnd
  BY <1>7 DEF UnlinkEnd, SweepEnd, DeallocEnd, LoopGoesOn, Idle
<1> QED
  BY <1>1, <1>2, <1>3, <1>4, <1>5, <1>6, <1>7 DEF Round

\* finalize_partition's rounds are the two.
LEMMA FinalizeRounds ==
  ASSUME Round, ~FinalizeStep, ~FinalizePassEnd
  PROVE  loop.op # "finalize"
BY DEF Round, UnlinkStep, UnlinkEnd, DisposeStep, DisposePassEnd, FilterStep, FilterPassEnd,
       SweepEnd, DropNextChain, DeallocStep, DeallocEnd

\* A step under which the heap is being dropped frees nodes, or leaves them alone.
LEMMA LiveInDropKeeps ==
  ASSUME LinksTypeOK, NEW at \in [Nodes -> ListNames], NEW rank \in [Nodes -> Int], Inv(at, rank),
         LiveInDrop, [LinksNext]_linkVars
  PROVE  LiveInDrop'
<1>1. CASE DropHeap
  BY <1>1, DropHeapLive
<1>2. CASE FilterStep
  <2>1. loop'.op = loop.op /\ \A n \in Nodes : status'[n] \in {status[n], "free"}
    BY <1>2 DEF FilterStep, WithStatus, LinksTypeOK, Loops
  <2> QED
    BY <2>1 DEF LiveInDrop, Used
<1>3. CASE FilterPassEnd \/ DropNextChain \/ UNCHANGED linkVars
  <2>1. status' = status /\ (loop'.op = "drop" => loop.op = "drop")
    BY <1>3 DEF FilterPassEnd, DropNextChain, linkVars, LinksTypeOK, Loops
  <2> QED
    BY <2>1 DEF LiveInDrop, Used
<1>4. ASSUME Round, loop.op # "drop"
      PROVE  LiveInDrop'
  <2>1. loop'.op # "drop"
    BY <1>4, RoundGoesOn DEF LoopGoesOn
  <2> QED
    BY <2>1 DEF LiveInDrop
<1>5. ASSUME Round, loop.op = "drop"
      PROVE  FilterStep \/ FilterPassEnd \/ DropNextChain
  BY <1>5 DEF Round, UnlinkStep, UnlinkEnd, DisposeStep, DisposePassEnd, SweepEnd,
              FinalizeStep, FinalizePassEnd, DeallocStep, DeallocEnd
<1>6. CASE DropPayloads \/ DisposeStart \/ DeallocStart
  <2>1. loop'.op # "drop"
    BY <1>6 DEF DropPayloads, DisposeStart, DeallocStart, Idle
  <2> QED
    BY <2>1 DEF LiveInDrop
<1>7. ASSUME NEW p \in PartitionIds
      PROVE  /\ \A n \in Nodes : Attach(n, p) => LiveInDrop'
             /\ FinalizeStart(p) => LiveInDrop'
             /\ \A D \in SUBSET NodesOf(p) : UnlinkStart(p, D) \/ SweepStart(p, D) => LiveInDrop'
  <2>1. \A n \in Nodes : Attach(n, p) => loop'.op # "drop"
    BY DEF Attach, HostMayUse
  <2>2. FinalizeStart(p) => loop'.op # "drop"
    BY DEF FinalizeStart, Idle
  <2>3. \A D \in SUBSET NodesOf(p) : UnlinkStart(p, D) \/ SweepStart(p, D) => loop'.op # "drop"
    BY DEF UnlinkStart, SweepStart, Idle
  <2> QED
    BY <2>1, <2>2, <2>3 DEF LiveInDrop
<1> QED
  BY <1>1, <1>2, <1>3, <1>4, <1>5, <1>6, <1>7 DEF LinksNext

\* finalize_partition starts with a chain that the host may use: nothing is dropped.
LEMMA FinalizeStartInTurn ==
  ASSUME LinksTypeOK, NEW at \in [Nodes -> ListNames], NEW rank \in [Nodes -> Int], Inv(at, rank),
         NEW p \in PartitionIds, FinalizeStart(p)
  PROVE  DroppedInTurn(at, rank)'
<1>0. /\ loop.op = "none" /\ ~(held.from = "teardown" /\ held.par = p)
      /\ status' = status /\ loop'.op = "finalize" /\ loop'.par = p
  BY DEF FinalizeStart, HostMayUse, Idle
<1>1. Used' = Used
  BY <1>0 DEF Used
<1>2. \A n \in Used : at[n] = ChainOf(p) => status[n] = "live"
  BY <1>0 DEF Inv, PayloadsLive
<1> QED
  BY <1>0, <1>1, <1>2 DEF DroppedInTurn

\* The node at hand is dropped if it is its turn, and is behind then.
LEMMA FinalizeStepInTurn ==
  ASSUME LinksTypeOK, NEW at \in [Nodes -> ListNames], NEW rank \in [Nodes -> Int], Inv(at, rank),
         DroppedInTurn(at, rank), FinalizeStep
  PROVE  DroppedInTurn(at, rank)'
<1>1. PICK n : n = loop.current
  OBVIOUS
<1>0. /\ loop.op = "finalize" /\ n # None
      /\ status' = IF DropPass(n) = Passes[loop.pass] THEN WithStatus({n}, "dropped") ELSE status
      /\ next' = next
      /\ loop'.op = "finalize" /\ loop'.par = loop.par /\ loop'.current = next[n]
      /\ loop'.pass = loop.pass
  BY <1>1 DEF FinalizeStep, Finalized, After, LinksTypeOK, Loops
<1>2. n \in Used /\ Used \subseteq Nodes /\ at[n] = ChainOf(loop.par)
  BY <1>0, <1>1, LinksLead DEF Inv, LoopShape
<1>3. Used' = Used
  BY <1>0, <1>2 DEF Used, WithStatus, LinksTypeOK
<1>4. \A m \in Used : status'[m] = status[m] \/ (m = n /\ DropPass(n) = Passes[loop.pass])
  BY <1>0, <1>2 DEF WithStatus, LinksTypeOK
<1>5. next[n] = None \/ rank[n] < rank[next[n]]
  BY <1>2 DEF Inv, Laid, FirstOf, Beyond
<1>6. ASSUME NEW m \in Used, m = n \/ rank[m] < rank[n]
      PROVE  next[n] = None \/ rank[m] < rank[next[n]]
  <2>1. next[n] # None => next[n] \in Used
    BY <1>2, LinksLead DEF Inv
  <2>2. rank[m] \in Int /\ rank[n] \in Int /\ (next[n] # None => rank[next[n]] \in Int)
    BY <1>2, <2>1
  <2> QED
    BY <1>5, <1>6, <2>2
<1>7. ASSUME NEW m \in Used, at[m] = ChainOf(loop.par), status'[m] # "live"
      PROVE  \/ \E j \in 1..(loop.pass - 1) : Passes[j] = DropPass(m)
             \/ /\ DropPass(m) = Passes[loop.pass]
                /\ next[n] = None \/ rank[m] < rank[next[n]]
  <2>1. CASE status'[m] = status[m]
    <3>1. \/ \E j \in 1..(loop.pass - 1) : Passes[j] = DropPass(m)
          \/ DropPass(m) = Passes[loop.pass] /\ rank[m] < rank[n]
      BY <1>0, <1>1, <1>7, <2>1 DEF DroppedInTurn, Behind
    <3> QED
      BY <1>6, <3>1
  <2>2. CASE m = n /\ DropPass(n) = Passes[loop.pass]
    BY <1>6, <2>2
  <2> QED
    BY <1>4, <2>1, <2>2
<1> QED
  BY <1>0, <1>3, <1>7 DEF DroppedInTurn, Behind

\* At the end of a pass its payloads are gone; the next has yet to see its nodes.
LEMMA FinalizePassEndInTurn ==
  ASSUME LinksTypeOK, NEW at \in [Nodes -> ListNames], NEW rank \in [Nodes -> Int], Inv(at, rank),
         DroppedInTurn(at, rank), FinalizePassEnd
  PROVE  DroppedInTurn(at, rank)'
<1>1. CASE loop.pass = Len(Passes)
  BY <1>1 DEF FinalizePassEnd, Idle, DroppedInTurn
<1>2. CASE loop.pass # Len(Passes)
  <2>0. /\ loop.op = "finalize" /\ status' = status /\ loop.pass \in Nat \ {0}
        /\ loop'.par = loop.par /\ loop'.pass = loop.pass + 1
    <3>1. loop.op = "finalize" /\ status' = status
      BY DEF FinalizePassEnd
    <3>2. loop.pass \in Nat \ {0}
      BY PassesEnumerate DEF LinksTypeOK, Loops
    <3>3. loop' = [loop EXCEPT !.pass = NextPass(@), !.current = chain[loop.par]]
      BY <1>2 DEF FinalizePassEnd
    <3>4. loop \in Loops
      BY DEF LinksTypeOK
    <3>5. loop'.par = loop.par /\ loop'.pass = loop.pass + 1
      BY <3>3, <3>4 DEF Loops, NextPass
    <3> QED
      BY <3>1, <3>2, <3>5
  <2>1. Used' = Used
    BY <2>0 DEF Used
  <2>2. ASSUME NEW n \in Used, at[n] = ChainOf(loop.par), status[n] # "live"
        PROVE  \E j \in 1..((loop.pass + 1) - 1) : Passes[j] = DropPass(n)
    <3>1. PICK j \in 1..(loop.pass - 1) \union {loop.pass} : Passes[j] = DropPass(n)
      BY <2>0, <2>2 DEF DroppedInTurn
    <3>2. j \in 1..((loop.pass + 1) - 1)
      BY <2>0
    <3> QED
      BY <3>1, <3>2
  <2> QED
    BY <2>0, <2>1, <2>2 DEF DroppedInTurn
<1> QED
  BY <1>1, <1>2

\* Every step keeps it: outside finalize_partition it says nothing.
LEMMA OnceStep ==
  ASSUME OnceInv, [LinksNext]_linkVars
  PROVE  OnceInv'
<1>1. PICK at \in [Nodes -> ListNames], rank \in [Nodes -> Int] :
        Inv(at, rank) /\ DroppedInTurn(at, rank)
  BY DEF OnceInv
<1>2. LinksTypeOK /\ LiveInDrop
  BY DEF OnceInv
<1>3. LinksTypeOK' /\ \E at2 \in [Nodes -> ListNames], rank2 \in [Nodes -> Int] : Inv(at2, rank2)'
  BY <1>1, <1>2, LinksStep
<1>4. LiveInDrop'
  BY <1>1, <1>2, LiveInDropKeeps
<1>5. CASE loop'.op # "finalize"
  <2>1. \A at2, rank2 : DroppedInTurn(at2, rank2)'
    BY <1>5 DEF DroppedInTurn
  <2> QED
    BY <1>3, <1>4, <2>1 DEF OnceInv
<1>6. ASSUME NEW p \in PartitionIds, FinalizeStart(p)
      PROVE  OnceInv'
  <2>1. Inv(at, rank)' /\ DroppedInTurn(at, rank)'
    BY <1>1, <1>2, <1>6, FinalizeStartKeeps, FinalizeStartInTurn
  <2> QED
    BY <1>3, <1>4, <2>1 DEF OnceInv
<1>7. CASE FinalizeStep
  <2>1. Inv(at, rank)' /\ DroppedInTurn(at, rank)'
    BY <1>1, <1>2, <1>7, FinalizeStepKeeps, FinalizeStepInTurn
  <2> QED
    BY <1>3, <1>4, <2>1 DEF OnceInv
<1>8. CASE FinalizePassEnd
  <2>1. Inv(at, rank)' /\ DroppedInTurn(at, rank)'
    BY <1>1, <1>2, <1>8, FinalizePassEndKeeps, FinalizePassEndInTurn
  <2> QED
    BY <1>3, <1>4, <2>1 DEF OnceInv
<1>9. CASE UNCHANGED linkVars
  <2>1. Inv(at, rank)'
    BY <1>1, <1>2, <1>9, SameInv
  <2>2. DroppedInTurn(at, rank)'
    BY <1>1, <1>9 DEF linkVars, DroppedInTurn, Behind, Used
  <2> QED
    BY <1>3, <1>4, <2>1, <2>2 DEF OnceInv
<1>10. ASSUME LinksNext, \A p \in PartitionIds : ~FinalizeStart(p), ~FinalizeStep, ~FinalizePassEnd
       PROVE  loop'.op # "finalize"
  <2>1. ASSUME NEW n \in Nodes, NEW p \in PartitionIds, Attach(n, p)
        PROVE  loop'.op # "finalize"
    BY <2>1 DEF Attach, HostMayUse
  <2>2. ASSUME NEW p \in PartitionIds, NEW D \in SUBSET NodesOf(p), UnlinkStart(p, D) \/ SweepStart(p, D)
        PROVE  loop'.op # "finalize"
    BY <2>2 DEF UnlinkStart, SweepStart, Idle
  <2>3. CASE DropPayloads \/ DisposeStart \/ DeallocStart \/ DropHeap
    BY <2>3 DEF DropPayloads, DisposeStart, DeallocStart, DropHeap, Idle
  <2>4. Round => LoopGoesOn
    BY <1>2, RoundGoesOn
  <2>5. CASE Round
    <3>1. loop.op # "finalize"
      BY <1>10, <2>5, FinalizeRounds
    <3> QED
      BY <2>4, <2>5, <3>1 DEF LoopGoesOn
  <2> QED
    BY <1>10, <2>1, <2>2, <2>3, <2>5 DEF LinksNext
<1> QED
  BY <1>5, <1>6, <1>7, <1>8, <1>9, <1>10

\* A heap without nodes has none to drop.
LEMMA OnceStart ==
  ASSUME LinksInit
  PROVE  OnceInv
<1>1. loop.op = "none"
  BY DEF LinksInit, Idle
<1>2. LinksInv
  BY LinksStart
<1>3. LiveInDrop /\ \A at, rank : DroppedInTurn(at, rank)
  BY <1>1 DEF LiveInDrop, DroppedInTurn
<1> QED
  BY <1>2, <1>3 DEF LinksInv, OnceInv

\* What finalize_partition is to drop in this pass has not been dropped.
LEMMA FinalizesLive ==
  ASSUME LinksTypeOK, NEW at \in [Nodes -> ListNames], NEW rank \in [Nodes -> Int], Inv(at, rank),
         DroppedInTurn(at, rank),
         loop.op = "finalize", loop.current # None, Finalized(loop.current)
  PROVE  status[loop.current] = "live"
<1>1. PICK n : n = loop.current
  OBVIOUS
<1>2. n \in Used /\ n \in Nodes /\ at[n] = ChainOf(loop.par)
  BY <1>1, LinksLead DEF Inv, LoopShape
<1>3. DropPass(n) = Passes[loop.pass] /\ ~Behind(n, at, rank)
  <2>1. rank[n] \in Int
    BY <1>2
  <2>2. ~(rank[n] < rank[n])
    BY <2>1
  <2> QED
    BY <1>1, <2>2 DEF Finalized, Behind
<1>4. ASSUME NEW j \in 1..(loop.pass - 1)
      PROVE  Passes[j] # DropPass(n)
  <2>1. loop.pass \in 1..Len(Passes)
    BY DEF LinksTypeOK, Loops
  <2>2. j \in 1..Len(Passes) /\ j < loop.pass
    BY <2>1, PassesEnumerate
  <2>3. Passes[j] < Passes[loop.pass] /\ Passes[j] \in Nat /\ Passes[loop.pass] \in Nat
    BY <2>1, <2>2, PassesEnumerate
  <2> QED
    BY <1>3, <2>3
<1> QED
  BY <1>1, <1>2, <1>3, <1>4 DEF DroppedInTurn

\* What a sweep, or the drop of the heap, has at hand has its payload still.
LEMMA FiltersLive ==
  ASSUME LinksTypeOK, NEW at \in [Nodes -> ListNames], NEW rank \in [Nodes -> Int], Inv(at, rank),
         LiveInDrop, loop.op \in {"sweep", "drop"}, loop.current # None
  PROVE  status[loop.current] = "live"
<1>1. loop.current \in Used
  BY LinksLead
<1>2. CASE loop.op = "drop"
  BY <1>1, <1>2 DEF LiveInDrop
<1>3. CASE loop.op = "sweep"
  <2>1. PrevIsBefore(at)
    BY <1>3 DEF Inv, LoopShape
  <2>2. Heads[Kept] = loop.list.head /\ Kept \in ListNames
    BY HeadsAre, Names DEF HeadsSpelled
  <2>3. at[loop.current] = Kept
    BY <2>1, <2>2, LinksLead DEF PrevIsBefore
  <2> QED
    BY <1>1, <1>3, <2>3 DEF Inv, PayloadsLive
<1> QED
  BY <1>2, <1>3

\* The loops that only free memory have nodes at hand whose payloads are gone.
LEMMA FreesDropped ==
  ASSUME LinksTypeOK, NEW at \in [Nodes -> ListNames], NEW rank \in [Nodes -> Int], Inv(at, rank),
         loop.op \in {"dispose", "dealloc"}, loop.current # None
  PROVE  status[loop.current] = "dropped"
<1>1. Heads[Current] = loop.current /\ Current \in ListNames
  BY HeadsAre, Names DEF HeadsSpelled
<1>2. loop.current \in Used /\ at[loop.current] = Current
  BY <1>1, LinksLead
<1> QED
  BY <1>2 DEF Inv, PayloadsDropped

\* The payloads of a list that the host holds are dropped together.
LEMMA HeldAlike ==
  ASSUME LinksTypeOK, NEW at \in [Nodes -> ListNames], NEW rank \in [Nodes -> Int], Inv(at, rank),
         held.from = "sweep", NEW n \in Range(Walk(held.head))
  PROVE  status[n] = status[held.head]
<1>1. Heads[HeldList] = held.head /\ HeldList \in ListNames
  BY HeadsAre, Names DEF HeadsSpelled
<1>2. n \in In(Used, at, HeldList)
  <2>1. Climbs(Walk(held.head), In(Used, at, HeldList), rank)
    BY <1>1, ListsClimb
  <2> QED
    BY <2>1 DEF Climbs, Range
<1>3. held.head # None
  BY <1>1, <1>2 DEF Inv, Laid, FirstOf
<1>4. held.head \in Used /\ at[held.head] = HeldList
  BY <1>1, <1>3, LinksLead
<1> QED
  BY <1>2, <1>4 DEF Inv, PayloadsDropped, In

\* No payload is dropped twice or freed undropped: whichever loop comes to a node, of
\* whichever pass, finds what the ones before it were to leave.
THEOREM PayloadsDropOnce == LinksSpec => []DropsOnce
<1>1. ASSUME OnceInv
      PROVE  DropsOnce
  <2>1. PICK at \in [Nodes -> ListNames], rank \in [Nodes -> Int] :
          Inv(at, rank) /\ DroppedInTurn(at, rank)
    BY <1>1 DEF OnceInv
  <2>2. LinksTypeOK /\ LiveInDrop
    BY <1>1 DEF OnceInv
  <2>3. ASSUME loop.current # None
        PROVE  /\ loop.op = "finalize" /\ Finalized(loop.current) => status[loop.current] = "live"
               /\ loop.op \in {"sweep", "drop"} => status[loop.current] = "live"
               /\ loop.op \in {"dispose", "dealloc"} => status[loop.current] = "dropped"
    BY <2>1, <2>2, <2>3, FinalizesLive, FiltersLive, FreesDropped
  <2>4. ASSUME held.from = "sweep"
        PROVE  \A n \in Range(Walk(held.head)) : status[n] = status[held.head]
    BY <2>1, <2>2, <2>4, HeldAlike
  <2>5. ASSUME NEW p \in PartitionIds, HostMayUse(p)
        PROVE  \A n \in NodesOf(p) : status[n] = "live"
    <3>1. loop.op = "none" /\ ~(held.from = "teardown" /\ held.par = p)
      BY <2>5 DEF HostMayUse
    <3>2. NodesOf(p) = In(Used, at, ChainOf(p))
      BY <2>1, <2>2, <3>1, ChainNodes
    <3> QED
      BY <2>1, <3>1, <3>2 DEF Inv, PayloadsLive, In
  <2> QED
    BY <2>3, <2>4, <2>5 DEF DropsOnce
<1>2. LinksInit => OnceInv
  BY OnceStart
<1>3. OnceInv /\ [LinksNext]_linkVars => OnceInv'
  BY OnceStep
<1>4. OnceInv => DropsOnce
  BY <1>1
<1> QED
  BY <1>2, <1>3, <1>4, PTL DEF LinksSpec

=============================================================================
