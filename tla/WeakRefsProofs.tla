---------------------------- MODULE WeakRefsProofs ----------------------------
(***************************************************************************)
(* Theorems about weak references, for any nodes, partitions, number of    *)
(* slots and width of the version: upgrade gives the allocation the        *)
(* reference was made from or nothing, until its slot has been given out   *)
(* MaxVersion times since; never freed memory, never a node in teardown;   *)
(* and always the node when it lives, if no downgrade happens during a     *)
(* teardown (~SplitTeardown; WeakTeardown shows what happens otherwise).   *)
(***************************************************************************)
EXTENDS WeakRefs, FiniteInduction

\* Where a node may be while its slot names it.
Whole == {"linked", "unlinked", "dropped"}

\* A slot that names a node is the one the node's weak_id names.
Mutual ==
    \A i \in DOMAIN slots : slots[i].node # None =>
        /\ weakId[slots[i].node] = WeakId(i, slots[i].ver, slots[i].use)
        /\ stage[slots[i].node] \in Whole

\* The version d uses after version v.
Later(v, d) == IF v + d <= MaxVersion THEN v + d ELSE v + d - MaxVersion

\* What became of the slot since id was made for node n.  The version is known for
\* as long as it has not come round.
Since(id, n) ==
    /\ id.index \in DOMAIN slots
    /\ id.use <= slots[id.index].use
    /\ slots[id.index].use = id.use => slots[id.index].node \in {None, n}
    /\ slots[id.index].use < id.use + MaxVersion =>
          slots[id.index].ver = Later(id.ver, slots[id.index].use - id.use)

IInv ==
    /\ TypeOK
    /\ Mutual
    /\ \A w \in weaks : Since(w.id, w.node)
    /\ \A n \in Nodes : weakId[n] # None => Since(weakId[n], n)

-----------------------------------------------------------------------------

\* None is neither a weak id nor a node.
LEMMA NoneIsNoId == None \notin WeakIds /\ None \notin Nodes
<1>1. WeakIds \subseteq [index : Nat, ver : Nat, use : Nat]
  BY VersionAssumption, SlotsAssumption DEF WeakIds
<1> QED
  BY <1>1, NoneAssumption

\* A function on 1..n is a sequence.
LEMMA SequenceOf ==
  ASSUME NEW T, NEW n \in Nat, NEW f \in [1..n -> T]
  PROVE  f \in Seq(T) /\ Len(f) = n
OBVIOUS

\* The fields of ids and slots.
LEMMA Fields ==
  ASSUME TypeOK
  PROVE  /\ \A i \in DOMAIN slots : /\ slots[i] \in Slots
                                    /\ slots[i].ver \in 1..MaxVersion
                                    /\ slots[i].use \in Nat \ {0}
                                    /\ slots[i].node \in Nodes \union {None}
         /\ \A w \in weaks : w.id \in WeakIds /\ w.node \in Nodes
         /\ \A id \in WeakIds : /\ id.index \in 1..MaxSlots /\ id.ver \in 1..MaxVersion
                                /\ id.use \in Nat \ {0}
                                /\ id = WeakId(id.index, id.ver, id.use)
         /\ DOMAIN slots = 1..Len(slots) /\ Len(slots) \in Nat
         /\ MaxVersion \in Nat \ {0}
<1>1. slots \in Seq(Slots)
  BY DEF TypeOK
<1>2. \A i \in DOMAIN slots : slots[i] \in Slots
  BY <1>1
<1>3. \A w \in weaks : w.id \in WeakIds /\ w.node \in Nodes
  BY DEF TypeOK
<1>4. \A id \in WeakIds : /\ id.index \in 1..MaxSlots /\ id.ver \in 1..MaxVersion
                          /\ id.use \in Nat \ {0}
                          /\ id = WeakId(id.index, id.ver, id.use)
  BY DEF WeakIds, WeakId
<1>5. \A s \in Slots : /\ s.ver \in 1..MaxVersion /\ s.use \in Nat \ {0}
                       /\ s.node \in Nodes \union {None}
  BY DEF Slots
<1>6. DOMAIN slots = 1..Len(slots) /\ Len(slots) \in Nat
  BY <1>1
<1> QED
  BY <1>2, <1>3, <1>4, <1>5, <1>6, VersionAssumption

\* Emptying slots changes no version and no use.
LEMMA Emptied ==
  ASSUME TypeOK, NEW S \in SUBSET Nodes
  PROVE  /\ ClearSlots(S) \in Seq(Slots) /\ Len(ClearSlots(S)) = Len(slots)
         /\ DOMAIN ClearSlots(S) = DOMAIN slots
         /\ \A i \in DOMAIN slots :
               /\ ClearSlots(S)[i].ver = slots[i].ver
               /\ ClearSlots(S)[i].use = slots[i].use
               /\ ClearSlots(S)[i].node =
                     IF \E n \in S : weakId[n] # None /\ weakId[n].index = i
                     THEN None ELSE slots[i].node
<1> DEFINE c == ClearSlots(S)
<1>1. \A i \in DOMAIN slots :
          c[i] = IF \E n \in S : weakId[n] # None /\ weakId[n].index = i
                 THEN [slots[i] EXCEPT !.node = None] ELSE slots[i]
  BY DEF ClearSlots
<1>2. DOMAIN c = DOMAIN slots
  BY DEF ClearSlots
<1>3. \A s \in Slots : /\ [s EXCEPT !.node = None] \in Slots
                       /\ [s EXCEPT !.node = None].ver = s.ver
                       /\ [s EXCEPT !.node = None].use = s.use
                       /\ [s EXCEPT !.node = None].node = None
  BY DEF Slots
<1>4. ASSUME NEW i \in DOMAIN slots
      PROVE  /\ c[i] \in Slots
             /\ c[i].ver = slots[i].ver /\ c[i].use = slots[i].use
             /\ c[i].node = IF \E n \in S : weakId[n] # None /\ weakId[n].index = i
                           THEN None ELSE slots[i].node
  <2>1. slots[i] \in Slots
    BY Fields
  <2>2. CASE \E n \in S : weakId[n] # None /\ weakId[n].index = i
    <3>1. c[i] = [slots[i] EXCEPT !.node = None]
      BY <1>1, <2>2
    <3> HIDE DEF c
    <3> QED
      BY <1>3, <2>1, <2>2, <3>1
  <2>3. CASE ~\E n \in S : weakId[n] # None /\ weakId[n].index = i
    <3>1. c[i] = slots[i]
      BY <1>1, <2>3
    <3> HIDE DEF c
    <3> QED
      BY <2>1, <2>3, <3>1
  <2> QED
    BY <2>2, <2>3
<1>5. c \in [1..Len(slots) -> Slots]
  BY <1>2, <1>4, Fields DEF ClearSlots
<1>6. c \in Seq(Slots) /\ Len(c) = Len(slots)
  BY <1>5, SequenceOf, Fields
<1> HIDE DEF c
<1> QED
  BY <1>2, <1>4, <1>6 DEF c

-----------------------------------------------------------------------------
(* Steps that give out no slot.                                            *)

\* Slots of S may be emptied, weak ids of nodes that no slot names forgotten.
LEMMA KeptIInv ==
  ASSUME IInv, NEW S \in SUBSET Nodes, slots' = ClearSlots(S), weaks' = weaks,
         stage' \in [Nodes -> Stages],
         \A n \in Nodes \ S : stage[n] \in Whole => stage'[n] \in Whole,
         weakId' \in [Nodes -> WeakIds \union {None}],
         \A n \in Nodes : \/ weakId'[n] = weakId[n]
                          \/ weakId'[n] = None /\ (n \in S \/ stage[n] \notin Whole)
  PROVE  IInv'
<1>1. TypeOK /\ Mutual
  BY DEF IInv
<1>2. /\ DOMAIN slots' = DOMAIN slots /\ slots' \in Seq(Slots) /\ Len(slots') = Len(slots)
      /\ \A i \in DOMAIN slots : /\ slots'[i].ver = slots[i].ver
                                 /\ slots'[i].use = slots[i].use
                                 /\ slots'[i].node =
                                       IF \E n \in S : weakId[n] # None /\ weakId[n].index = i
                                       THEN None ELSE slots[i].node
  BY <1>1, Emptied
<1>3. TypeOK'
  BY <1>1, <1>2 DEF TypeOK
<1>4. ASSUME NEW id, NEW n, Since(id, n) PROVE Since(id, n)'
  BY <1>2, <1>4 DEF Since
<1>5. ASSUME NEW i \in DOMAIN slots', slots'[i].node # None
      PROVE  /\ weakId'[slots'[i].node] = WeakId(i, slots'[i].ver, slots'[i].use)
             /\ stage'[slots'[i].node] \in Whole
  <2> DEFINE n == slots[i].node
  <2>1. /\ i \in DOMAIN slots /\ slots'[i].node = n /\ n # None
        /\ ~\E m \in S : weakId[m] # None /\ weakId[m].index = i
    BY <1>2, <1>5
  <2>2. n \in Nodes
    BY <1>1, <2>1, Fields
  <2>3. weakId[n] = WeakId(i, slots[i].ver, slots[i].use) /\ stage[n] \in Whole
    BY <1>1, <2>1 DEF Mutual
  <2> HIDE DEF n
  <2>4. weakId[n].index = i
    BY <2>3 DEF WeakId
  <2>5. weakId[n] # None
    <3>1. WeakId(i, slots[i].ver, slots[i].use) \in [index : Nat, ver : Nat, use : Nat]
      BY <1>1, <2>1, Fields DEF WeakId
    <3> QED
      BY <2>3, <3>1, NoneAssumption
  <2>6. n \notin S
    BY <2>1, <2>4, <2>5
  <2> QED
    BY <1>2, <2>1, <2>2, <2>3, <2>6
<1>6. Mutual'
  BY <1>5 DEF Mutual
<1>7. (\A w \in weaks : Since(w.id, w.node))'
  BY <1>4 DEF IInv
<1>8. (\A n \in Nodes : weakId[n] # None => Since(weakId[n], n))'
  BY <1>4 DEF IInv
<1> QED
  BY <1>3, <1>6, <1>7, <1>8 DEF IInv

\* No slot is emptied.
LEMMA NothingEmptied == ASSUME TypeOK PROVE ClearSlots({}) = slots
<1>1. ClearSlots({}) = [i \in DOMAIN slots |-> slots[i]]
  BY DEF ClearSlots
<1>2. slots = [i \in DOMAIN slots |-> slots[i]]
  BY DEF TypeOK
<1> QED
  BY <1>1, <1>2

\* What Move does, node by node.
LEMMA MoveType ==
  ASSUME TypeOK, NEW S \in SUBSET Nodes, NEW st \in Stages, Move(S, st)
  PROVE  /\ stage' \in [Nodes -> Stages]
         /\ \A n \in Nodes : stage'[n] = IF n \in S THEN st ELSE stage[n]
BY DEF TypeOK, Move

\* What NoWeakId does, node by node.
LEMMA NoWeakIdType ==
  ASSUME TypeOK, NEW S \in SUBSET Nodes, NoWeakId(S)
  PROVE  /\ weakId' \in [Nodes -> WeakIds \union {None}]
         /\ \A n \in Nodes : weakId'[n] = IF n \in S THEN None ELSE weakId[n]
BY DEF TypeOK, NoWeakId

\* A node moves on, and no slot.
LEMMA MoveIInv ==
  ASSUME IInv, NEW S \in SUBSET Nodes, NEW st \in Stages, Move(S, st),
         UNCHANGED <<weakId, slots, weaks>>,
         \A n \in S : stage[n] \in Whole => st \in Whole
  PROVE  IInv'
<1>1. TypeOK /\ slots' = ClearSlots({}) /\ {} \in SUBSET Nodes
  BY NothingEmptied DEF IInv
<1>2. /\ stage' \in [Nodes -> Stages]
      /\ \A n \in Nodes : stage'[n] = IF n \in S THEN st ELSE stage[n]
  BY <1>1, MoveType
<1>3. \A n \in Nodes \ {} : stage[n] \in Whole => stage'[n] \in Whole
  BY <1>2
<1>4. weakId' \in [Nodes -> WeakIds \union {None}]
  BY <1>1 DEF TypeOK
<1> QED
  BY <1>1, <1>2, <1>3, <1>4, KeptIInv

\* A node moves on, and its slot is emptied.
LEMMA EmptyIInv ==
  ASSUME IInv, NEW S \in SUBSET Nodes, NEW st \in Stages, Move(S, st),
         slots' = ClearSlots(S), weaks' = weaks, weakId' = weakId \/ NoWeakId(S)
  PROVE  IInv'
<1>1. TypeOK
  BY DEF IInv
<1>2. /\ stage' \in [Nodes -> Stages]
      /\ \A n \in Nodes : stage'[n] = IF n \in S THEN st ELSE stage[n]
  BY <1>1, MoveType
<1>3. weakId' \in [Nodes -> WeakIds \union {None}]
  BY <1>1, NoWeakIdType DEF TypeOK
<1>4. \A n \in Nodes : \/ weakId'[n] = weakId[n]
                       \/ weakId'[n] = None /\ (n \in S \/ stage[n] \notin Whole)
  BY <1>1, NoWeakIdType
<1> QED
  BY <1>2, <1>3, <1>4, KeptIInv

\* The memory of a node goes whose slot was emptied before.
LEMMA DisposeMemIInv ==
  ASSUME IInv, NEW n \in Nodes, DisposeMemOnly(n)
  PROVE  IInv'
<1>1. /\ TypeOK /\ stage[n] = "dying" /\ Move({n}, "free") /\ NoWeakId({n})
      /\ UNCHANGED <<slots, weaks>> /\ slots' = ClearSlots({})
  BY NothingEmptied DEF DisposeMemOnly, IInv
<1>2. /\ stage' \in [Nodes -> Stages]
      /\ \A m \in Nodes : stage'[m] = IF m \in {n} THEN "free" ELSE stage[m]
  BY <1>1, MoveType DEF Stages
<1>3. /\ weakId' \in [Nodes -> WeakIds \union {None}]
      /\ \A m \in Nodes : weakId'[m] = IF m \in {n} THEN None ELSE weakId[m]
  BY <1>1, NoWeakIdType
<1>4. \A m \in Nodes \ {} : stage[m] \in Whole => stage'[m] \in Whole
  BY <1>1, <1>2 DEF Whole
<1>5. \A m \in Nodes : \/ weakId'[m] = weakId[m]
                       \/ weakId'[m] = None /\ (m \in {} \/ stage[m] \notin Whole)
  BY <1>1, <1>3 DEF Whole
<1> QED
  BY <1>1, <1>2, <1>3, <1>4, <1>5, KeptIInv

-----------------------------------------------------------------------------
(* downgrade.                                                              *)

\* The slot downgrade takes has no node.
LEMMA FreeSlotIsFree ==
  ASSUME TypeOK
  PROVE  /\ FreeSlot \in 1..(Len(slots) + 1)
         /\ FreeSlot \in DOMAIN slots => slots[FreeSlot].node = None
<1> DEFINE empty == {i \in DOMAIN slots : slots[i].node = None}
<1>1. DOMAIN slots = 1..Len(slots) /\ Len(slots) \in Nat
  BY Fields
<1>2. CASE empty = {}
  BY <1>1, <1>2 DEF FreeSlot
<1>3. CASE empty # {}
  <2>1. empty \in SUBSET Nat
    BY <1>1
  <2>2. FreeSlot = CHOOSE i \in empty : \A j \in empty : i <= j
    BY <1>3, Zenon DEF FreeSlot
  <2> HIDE DEF empty
  <2>3. \E i \in empty : \A j \in empty : i <= j
    BY <1>3, <2>1, LeastOf
  <2>4. FreeSlot \in empty
    BY <2>2, <2>3
  <2> QED
    BY <1>1, <2>4 DEF empty
<1> QED
  BY <1>2, <1>3

\* One use more brings the next version, as long as versions have not come round.
LEMMA NextIsLater ==
  ASSUME NEW v \in 1..MaxVersion, NEW d \in Nat, d + 1 < MaxVersion
  PROVE  NextVersion(Later(v, d)) = Later(v, d + 1)
BY VersionAssumption DEF NextVersion, Later

\* A slot is given out: to a node that has none yet.
LEMMA GiveOutIInv ==
  ASSUME IInv, NEW n \in Nodes, stage[n] = "linked", weakId[n] = None,
         NEW i, i = FreeSlot, NEW v, v = NextVersion(Current(i).ver),
         NEW u, u = Current(i).use + 1, Len(slots) < MaxSlots,
         slots' = [j \in DOMAIN slots \union {i} |->
                      IF j = i THEN Slot(v, n, u) ELSE slots[j]],
         weakId' = [weakId EXCEPT ![n] = WeakId(i, v, u)],
         weaks' = weaks \union {[id |-> WeakId(i, v, u), node |-> n]},
         stage' = stage
  PROVE  IInv'
<1>1. TypeOK /\ Mutual
  BY DEF IInv
<1>2. /\ DOMAIN slots = 1..Len(slots) /\ Len(slots) \in Nat /\ i \in 1..(Len(slots) + 1)
      /\ i \in DOMAIN slots => slots[i].node = None
      /\ MaxVersion \in Nat \ {0}
  BY <1>1, FreeSlotIsFree, Fields
<1>3. /\ i \in DOMAIN slots => /\ v = NextVersion(slots[i].ver)
                               /\ u = slots[i].use + 1
      /\ i \notin DOMAIN slots => v = 1 /\ u = 1
  BY <1>2 DEF Current, Slot, NextVersion
<1>4. v \in 1..MaxVersion /\ u \in Nat \ {0} /\ i \in 1..MaxSlots
  <2>1. CASE i \in DOMAIN slots
    <3>1. slots[i].ver \in 1..MaxVersion /\ slots[i].use \in Nat
      BY <1>1, <2>1, Fields
    <3> QED
      BY <1>2, <1>3, <2>1, <3>1, SlotsAssumption DEF NextVersion
  <2>2. CASE i \notin DOMAIN slots
    BY <1>2, <1>3, <2>2, SlotsAssumption
  <2> QED
    BY <2>1, <2>2
<1> DEFINE id == WeakId(i, v, u)
<1>5. /\ id \in WeakIds /\ id.index = i /\ id.ver = v /\ id.use = u /\ id # None
      /\ Slot(v, n, u) \in Slots /\ Slot(v, n, u).ver = v
      /\ Slot(v, n, u).node = n /\ Slot(v, n, u).use = u
  BY <1>4, NoneIsNoId DEF WeakId, WeakIds, Slot, Slots
<1>6. /\ DOMAIN slots' = DOMAIN slots \union {i}
      /\ slots'[i].node = n /\ slots'[i].ver = v /\ slots'[i].use = u
      /\ slots'[i] = Slot(v, n, u)
      /\ \A j \in DOMAIN slots : j # i => slots'[j] = slots[j]
  BY <1>5
<1>7. /\ slots' \in Seq(Slots) /\ Len(slots') <= MaxSlots
  <2> DEFINE l == IF i \in DOMAIN slots THEN Len(slots) ELSE Len(slots) + 1
  <2>1. DOMAIN slots \union {i} = 1..l /\ l \in Nat /\ l <= MaxSlots
    BY <1>2, SlotsAssumption
  <2>2. \A j \in 1..l : slots'[j] \in Slots
    BY <1>1, <1>5, <1>6, <2>1, Fields
  <2> HIDE DEF l
  <2>3. slots' \in [1..l -> Slots]
    BY <2>1, <2>2
  <2>4. slots' \in Seq(Slots) /\ Len(slots') = l
    <3>1. ASSUME NEW f \in [1..l -> Slots] PROVE f \in Seq(Slots) /\ Len(f) = l
      BY <2>1, <3>1, SequenceOf
    <3> QED
      BY <2>3, <3>1, Zenon
  <2> QED
    BY <2>1, <2>4
<1>8. weakId' \in [Nodes -> WeakIds \union {None}]
      /\ weakId'[n] = id /\ \A m \in Nodes \ {n} : weakId'[m] = weakId[m]
  BY <1>1, <1>5 DEF TypeOK
<1>9. weaks' = weaks \union {[id |-> id, node |-> n]}
  OBVIOUS
<1> HIDE DEF id
<1>10. TypeOK'
  <2>1. stage' \in [Nodes -> Stages]
    BY <1>1 DEF TypeOK
  <2>2. weaks' \subseteq [id : WeakIds, node : Nodes]
    BY <1>1, <1>5, <1>9 DEF TypeOK
  <2>3. \A w \in weaks' : w.id.index \in DOMAIN slots'
    BY <1>1, <1>5, <1>6, <1>9 DEF TypeOK
  <2> QED
    BY <1>7, <1>8, <2>1, <2>2, <2>3 DEF TypeOK
<1>11. ASSUME NEW old \in WeakIds, NEW m, Since(old, m) PROVE Since(old, m)'
  <2>1. /\ old.index \in DOMAIN slots /\ old.use \in Nat \ {0} /\ old.ver \in 1..MaxVersion
        /\ slots[old.index].use \in Nat
    BY <1>1, <1>11, Fields DEF Since
  <2>2. CASE old.index # i
    BY <1>6, <1>11, <2>1, <2>2 DEF Since
  <2>3. CASE old.index = i
    <3>1. u = slots[i].use + 1 /\ old.use <= slots[i].use /\ v = NextVersion(slots[i].ver)
      BY <1>3, <1>11, <2>1, <2>3 DEF Since
    <3>2. ASSUME u < old.use + MaxVersion PROVE v = Later(old.ver, u - old.use)
      <4> DEFINE d == slots[i].use - old.use
      <4>1. d \in Nat /\ d + 1 < MaxVersion /\ d + 1 = u - old.use
            /\ slots[i].use < old.use + MaxVersion
        BY <1>2, <2>1, <2>3, <3>1, <3>2
      <4>2. slots[i].ver = Later(old.ver, d)
        BY <1>11, <2>3, <4>1 DEF Since
      <4> HIDE DEF d
      <4> QED
        BY <2>1, <3>1, <4>1, <4>2, NextIsLater
    <3> QED
      BY <1>6, <2>1, <2>3, <3>1, <3>2 DEF Since
  <2> QED
    BY <2>2, <2>3
<1>12. Since(id, n)'
  <2>1. Later(v, u - u) = v
    BY <1>2, <1>4 DEF Later
  <2> QED
    BY <1>4, <1>5, <1>6, <2>1 DEF Since
<1>13. (\A w \in weaks : Since(w.id, w.node))'
  <2>1. \A w \in weaks : Since(w.id, w.node)'
    BY <1>1, <1>11, Fields DEF IInv
  <2> QED
    BY <1>9, <1>12, <2>1
<1>14. (\A m \in Nodes : weakId[m] # None => Since(weakId[m], m))'
  <2>1. \A m \in Nodes : weakId[m] # None => weakId[m] \in WeakIds /\ Since(weakId[m], m)
    BY <1>1 DEF IInv, TypeOK
  <2> QED
    BY <1>8, <1>11, <1>12, <2>1
<1>15. ASSUME NEW j \in DOMAIN slots', slots'[j].node # None
       PROVE  /\ weakId'[slots'[j].node] = WeakId(j, slots'[j].ver, slots'[j].use)
              /\ stage'[slots'[j].node] \in Whole
  <2>1. CASE j = i
    BY <1>6, <1>8, <2>1 DEF id, Whole
  <2>2. CASE j # i
    <3>1. j \in DOMAIN slots /\ slots'[j] = slots[j]
      BY <1>6, <2>2
    <3>2. /\ weakId[slots[j].node] = WeakId(j, slots[j].ver, slots[j].use)
          /\ stage[slots[j].node] \in Whole /\ slots[j].node \in Nodes
      BY <1>1, <1>15, <3>1, Fields DEF Mutual
    <3>3. WeakId(j, slots[j].ver, slots[j].use) \in [index : Nat, ver : Nat, use : Nat]
      BY <1>1, <3>1, Fields DEF WeakId
    <3>4. slots[j].node # n
      BY <3>2, <3>3, NoneAssumption
    <3> QED
      BY <1>8, <3>1, <3>2, <3>4
  <2> QED
    BY <2>1, <2>2
<1>16. Mutual'
  BY <1>15 DEF Mutual
<1> QED
  BY <1>10, <1>13, <1>14, <1>16 DEF IInv

\* downgrade takes a free slot, or the one the node has.
LEMMA DowngradeIInv ==
  ASSUME IInv, NEW n \in Nodes, Downgrade(n)
  PROVE  IInv'
<1>1. CASE /\ weakId[n] # None
           /\ weaks' = weaks \union {[id |-> weakId[n], node |-> n]}
           /\ UNCHANGED <<slots, weakId, stage>>
  <2>1. weakId[n] \in WeakIds /\ Since(weakId[n], n) /\ TypeOK
    BY <1>1 DEF IInv, TypeOK
  <2>2. TypeOK'
    BY <1>1, <2>1 DEF TypeOK, Since
  <2>3. \A id, m : Since(id, m)' <=> Since(id, m)
    BY <1>1 DEF Since
  <2>4. Mutual'
    BY <1>1 DEF IInv, Mutual
  <2>5. \A w \in weaks' : Since(w.id, w.node)
    BY <1>1, <2>1 DEF IInv
  <2> QED
    BY <1>1, <2>2, <2>3, <2>4, <2>5 DEF IInv
<1>2. CASE weakId[n] = None
  BY <1>2, GiveOutIInv DEF Downgrade
<1> QED
  BY <1>1, <1>2 DEF Downgrade
-----------------------------------------------------------------------------
(* Every step.                                                             *)

\* Before the first call there are no slots.
LEMMA InitIInv == Init => IInv
<1> SUFFICES ASSUME Init PROVE IInv
  OBVIOUS
<1>1. TypeOK
  <2>1. << >> \in Seq(Slots) /\ Len(<< >>) = 0
    OBVIOUS
  <2> QED
    BY <2>1, SlotsAssumption DEF Init, TypeOK, Stages
<1>2. Mutual
  BY DEF Init, Mutual
<1> QED
  BY <1>1, <1>2 DEF Init, IInv

\* The calls of the host keep the invariant.
LEMMA HostIInv ==
  ASSUME IInv, Host
  PROVE  IInv'
<1>1. ASSUME NEW n \in Nodes, Alloc(n) PROVE IInv'
  BY <1>1, MoveIInv DEF Alloc, Stages, Whole
<1>2. ASSUME NEW n \in Nodes, SweepDropPayload(n) PROVE IInv'
  BY <1>2, MoveIInv DEF SweepDropPayload, Stages, Whole
<1>3. ASSUME NEW n \in Nodes, FinalizeDrop(n) PROVE IInv'
  BY <1>3, MoveIInv DEF FinalizeDrop, Stages, Whole
<1>4. ASSUME NEW n \in Nodes, DisposeDrop(n) PROVE IInv'
  BY <1>4, EmptyIInv DEF DisposeDrop, Stages
<1>5. ASSUME NEW p \in Partitions, NEW S \in SUBSET Nodes, SweepUnlink(p, S) PROVE IInv'
  BY <1>5, MoveIInv DEF SweepUnlink, Stages, Whole
<1>6. ASSUME NEW S \in SUBSET Nodes, Free(S) PROVE IInv'
  BY <1>6, EmptyIInv DEF Free, Stages
<1>7. ASSUME NEW p \in Partitions, FinalizePrepare(p) PROVE IInv'
  <2>1. In(p, "linked") \in SUBSET Nodes /\ "prepared" \in Stages
    BY DEF In, Stages
  <2> QED
    BY <1>7, <2>1, EmptyIInv DEF FinalizePrepare
<1>8. \A p \in Partitions : In(p, "dropped") \in SUBSET Nodes
                            /\ In(p, "finalized") \in SUBSET Nodes
  BY DEF In
<1> QED
  BY <1>1, <1>2, <1>3, <1>4, <1>5, <1>6, <1>7, <1>8, DowngradeIInv
     DEF Host, SweepDispose, DeallocPartition

\* Every step keeps the invariant.
LEMMA NextIInv == IInv /\ [Next]_vars => IInv'
<1> SUFFICES ASSUME IInv, [Next]_vars PROVE IInv'
  OBVIOUS
<1>1. CASE UNCHANGED vars
  BY <1>1 DEF vars, IInv, TypeOK, Mutual, Since
<1> QED
  BY <1>1, HostIInv, DisposeMemIInv DEF Next

\* The invariant that the theorems below rest on: a slot and the node it names
\* agree, and a reference knows the version of its slot until it has come round.
\* It holds whatever downgrade, sweep and teardown of weak.rs, mark_sweep.rs and
\* partition.rs do in between.
THEOREM WeakSafety == Spec => []IInv
BY InitIInv, NextIInv, PTL DEF Spec

\* The weak slots never outgrow MaxSlots, and every GcWeak has its slot: upgrade
\* never indexes past weak_slots.
THEOREM WeakTypes == Spec => []TypeOK
<1>1. IInv => TypeOK
  BY DEF IInv
<1> QED
  BY <1>1, WeakSafety, PTL

-----------------------------------------------------------------------------
(* What upgrade gives.                                                     *)

\* Versions are the same again only after a full round.
LEMMA VersionsApart ==
  ASSUME NEW v \in 1..MaxVersion, NEW d \in Nat, d < MaxVersion, Later(v, d) = v
  PROVE  d = 0
BY VersionAssumption DEF Later

\* The node upgrade gives is named by the slot, and names it.
LEMMA Given ==
  ASSUME IInv, NEW w \in weaks, Upgrade(w) # None
  PROVE  /\ w.id.index \in DOMAIN slots
         /\ Upgrade(w) = slots[w.id.index].node
         /\ slots[w.id.index].ver = w.id.ver
         /\ weakId[Upgrade(w)] =
               WeakId(w.id.index, slots[w.id.index].ver, slots[w.id.index].use)
         /\ stage[Upgrade(w)] \in Whole
<1>1. w.id.index \in DOMAIN slots
  BY DEF IInv, Since
<1>2. Upgrade(w) = slots[w.id.index].node /\ slots[w.id.index].ver = w.id.ver
  BY DEF Upgrade
<1> QED
  BY <1>1, <1>2 DEF IInv, Mutual

\* Within a round of versions, a reference upgrades to the node it was made of.
LEMMA SoundlyGiven ==
  ASSUME IInv, NEW w \in weaks, Upgrade(w) # None,
         slots[w.id.index].use < w.id.use + MaxVersion
  PROVE  Upgrade(w) = w.node /\ weakId[w.node] = w.id
<1> DEFINE s == slots[w.id.index]
<1>1. /\ w.id.index \in DOMAIN slots /\ Upgrade(w) = s.node /\ s.ver = w.id.ver
      /\ weakId[Upgrade(w)] = WeakId(w.id.index, s.ver, s.use)
  BY Given
<1>2. /\ w.id.ver \in 1..MaxVersion /\ w.id.use \in Nat \ {0} /\ s.use \in Nat \ {0}
      /\ w.id = WeakId(w.id.index, w.id.ver, w.id.use) /\ MaxVersion \in Nat \ {0}
  BY <1>1, Fields DEF IInv
<1>3. Since(w.id, w.node)
  BY DEF IInv
<1>4. s.use - w.id.use \in Nat /\ s.use - w.id.use < MaxVersion
      /\ s.ver = Later(w.id.ver, s.use - w.id.use)
  BY <1>2, <1>3 DEF Since
<1>5. s.use = w.id.use
  BY <1>1, <1>2, <1>4, VersionsApart
<1>6. s.node = w.node
  BY <1>1, <1>3, <1>5 DEF Since
<1> QED
  BY <1>1, <1>2, <1>5, <1>6

\* upgrade (weak.rs) gives the allocation the reference was made from or nothing,
\* until downgrade has given its slot out MaxVersion times since.
THEOREM UpgradesRight == Spec => []UpgradeSound
<1>1. IInv => UpgradeSound
  BY SoundlyGiven DEF UpgradeSound
<1> QED
  BY <1>1, WeakSafety, PTL

\* upgrade gives no node whose memory sweep_dispose, dispose or dealloc_partition
\* has freed, not even when versions have come round.
THEOREM NothingFreedUpgrades == Spec => []NoFreedUpgrade
<1>1. IInv => NoFreedUpgrade
  BY Given DEF NoFreedUpgrade, Whole
<1> QED
  BY <1>1, WeakSafety, PTL

\* A Drop that runs in finalize_partition or dispose upgrades no node that the same
\* teardown finalizes.
THEOREM NothingFinalizedUpgrades == Spec => []NoFinalizedUpgrade
<1>1. IInv => NoFinalizedUpgrade
  BY Given DEF NoFinalizedUpgrade, Whole
<1> QED
  BY <1>1, WeakSafety, PTL

-----------------------------------------------------------------------------
(* What becomes of one slot in one step.                                   *)

SlotStep ==
    \A i \in DOMAIN slots :
        \/ slots'[i].use = slots[i].use + 1
        \/ /\ slots'[i].use = slots[i].use
           /\ slots'[i].ver = slots[i].ver
           /\ slots'[i].node \in {slots[i].node, None}

\* In one step a slot is given out once more, or keeps its node, or is emptied.
LEMMA StepOfSlots ==
  ASSUME TypeOK, [Next]_vars
  PROVE  SlotStep
<1>1. ASSUME UNCHANGED slots PROVE SlotStep
  BY <1>1 DEF SlotStep
<1>2. ASSUME NEW S \in SUBSET Nodes, slots' = ClearSlots(S) PROVE SlotStep
  BY <1>2, Emptied DEF SlotStep
<1>3. ASSUME NEW n \in Nodes, Downgrade(n), ~UNCHANGED slots PROVE SlotStep
  <2>1. slots' = [j \in DOMAIN slots \union {FreeSlot} |->
                     IF j = FreeSlot
                     THEN Slot(NextVersion(Current(FreeSlot).ver), n,
                               Current(FreeSlot).use + 1)
                     ELSE slots[j]]
    BY <1>3 DEF Downgrade
  <2>2. ASSUME NEW i \in DOMAIN slots PROVE
           slots'[i].use = slots[i].use + 1 \/ slots'[i] = slots[i]
    BY <2>1, <2>2 DEF Current, Slot
  <2> QED
    BY <2>2 DEF SlotStep
<1>4. ASSUME Host PROVE SlotStep
  <2>1. \A p \in Partitions : /\ In(p, "dropped") \in SUBSET Nodes
                              /\ In(p, "finalized") \in SUBSET Nodes
                              /\ In(p, "linked") \in SUBSET Nodes
    BY DEF In
  <2>2. ASSUME NEW n \in Nodes, DisposeDrop(n) PROVE SlotStep
    BY <1>2, <2>2 DEF DisposeDrop
  <2>3. ASSUME NEW p \in Partitions, FinalizePrepare(p) PROVE SlotStep
    BY <1>2, <2>1, <2>3 DEF FinalizePrepare
  <2>4. ASSUME NEW p \in Partitions, SweepDispose(p) \/ DeallocPartition(p)
        PROVE  SlotStep
    BY <1>2, <2>1, <2>4 DEF SweepDispose, DeallocPartition, Free
  <2>5. ASSUME NEW n \in Nodes, Alloc(n) \/ SweepDropPayload(n) \/ FinalizeDrop(n)
        PROVE  UNCHANGED slots
    BY <2>5 DEF Alloc, SweepDropPayload, FinalizeDrop
  <2>6. ASSUME NEW p \in Partitions, NEW S \in SUBSET Nodes, SweepUnlink(p, S)
        PROVE  UNCHANGED slots
    BY <2>6 DEF SweepUnlink
  <2> QED
    BY <1>1, <1>3, <1>4, <2>2, <2>3, <2>4, <2>5, <2>6 DEF Host
<1>5. ASSUME NEW n \in Nodes, DisposeMemOnly(n) PROVE UNCHANGED slots
  BY <1>5 DEF DisposeMemOnly
<1> QED
  BY <1>1, <1>4, <1>5 DEF Next, vars

\* Within a round of versions, a reference that failed to upgrade fails for good.
LEMMA StaysDead ==
  ASSUME IInv, IInv', [Next]_vars, NEW w \in weaks, Upgrade(w) = None,
         slots'[w.id.index].use < w.id.use + MaxVersion
  PROVE  Upgrade(w)' = None
<1> DEFINE i == w.id.index
<1>1. /\ i \in DOMAIN slots /\ w.id.use <= slots[i].use
      /\ w.id.ver \in 1..MaxVersion /\ w.id.use \in Nat \ {0}
      /\ slots[i].use \in Nat \ {0} /\ MaxVersion \in Nat \ {0}
  BY Fields DEF IInv, Since
<1>2. SlotStep
  BY StepOfSlots DEF IInv
<1>3. CASE slots'[i].use = slots[i].use + 1
  <2>1. w \in weaks'
    BY DEF Next, Host, vars, Alloc, Downgrade, DisposeDrop, DisposeMemOnly, SweepUnlink,
           SweepDropPayload, SweepDispose, FinalizePrepare, FinalizeDrop,
           DeallocPartition, Free
  <2>2. slots'[i].ver = Later(w.id.ver, slots'[i].use - w.id.use)
    BY <2>1 DEF IInv, Since
  <2>3. slots'[i].ver # w.id.ver
    <3> DEFINE d == slots'[i].use - w.id.use
    <3>1. d \in Nat /\ d < MaxVersion /\ d # 0
      BY <1>1, <1>3
    <3> HIDE DEF d
    <3>2. Later(w.id.ver, d) # w.id.ver
      BY <1>1, <3>1, VersionsApart
    <3> QED
      BY <2>2, <3>2 DEF d
  <2> QED
    BY <2>3 DEF Upgrade
<1>4. CASE /\ slots'[i].ver = slots[i].ver
           /\ slots'[i].node \in {slots[i].node, None}
  BY <1>4 DEF Upgrade
<1> QED
  BY <1>1, <1>2, <1>3, <1>4 DEF SlotStep

\* A reference that no longer upgrades never does again: neither dispose and the
\* sweep, which empty its slot, nor downgrade, which gives the slot to another node
\* with the next version, can bring it back before versions come round.
THEOREM DeadStaysDead == Spec => NeverRevives
<1>1. IInv /\ IInv' /\ [Next]_vars
      => [\A w \in weaks :
            /\ Upgrade(w) = None
            /\ slots'[w.id.index].use < w.id.use + MaxVersion
            => Upgrade(w)' = None]_vars
  BY StaysDead
<1> QED
  BY <1>1, WeakSafety, PTL DEF Spec, NeverRevives

-----------------------------------------------------------------------------
(* A live node upgrades, unless downgrade runs during a teardown.          *)

Torn == {"prepared", "finalized", "dying"}

\* The slot a weak_id names is the node's own until teardown empties it, and nobody
\* else's until the node is freed.
LInv ==
    \A n \in Nodes : weakId[n] # None =>
        /\ stage[n] # "free"
        /\ stage[n] \in Whole => slots[weakId[n].index].node = n
        /\ stage[n] \in Torn => slots[weakId[n].index].node = None

\* Clearing the slots of S leaves the references to other nodes alone.
LEMMA KeptLInv ==
  ASSUME IInv, LInv, NEW S \in SUBSET Nodes, slots' = ClearSlots(S),
         \A n \in Nodes : weakId'[n] # None =>
            /\ weakId'[n] = weakId[n]
            /\ stage'[n] # "free"
            /\ stage'[n] \in Whole => stage[n] \in Whole /\ n \notin S
            /\ stage'[n] \in Torn => stage[n] \in Torn \/ n \in S
  PROVE  LInv'
<1>1. TypeOK /\ \A n \in Nodes : weakId[n] # None => weakId[n].index \in DOMAIN slots
  BY DEF IInv, Since
<1>2. \A i \in DOMAIN slots :
          slots'[i].node = IF \E n \in S : weakId[n] # None /\ weakId[n].index = i
                           THEN None ELSE slots[i].node
  BY <1>1, Emptied
<1>3. ASSUME NEW n \in Nodes, weakId'[n] # None
      PROVE  /\ stage'[n] # "free"
             /\ stage'[n] \in Whole => slots'[weakId'[n].index].node = n
             /\ stage'[n] \in Torn => slots'[weakId'[n].index].node = None
  <2> DEFINE i == weakId[n].index
  <2>1. weakId'[n] = weakId[n] /\ weakId[n] # None /\ i \in DOMAIN slots
    BY <1>1, <1>3
  <2>2. ASSUME stage'[n] \in Whole PROVE slots'[i].node = n
    <3>1. slots[i].node = n /\ n \notin S
      BY <1>3, <2>1, <2>2 DEF LInv
    <3>2. ASSUME NEW m \in S, weakId[m] # None, weakId[m].index = i PROVE FALSE
      <4>1. stage[m] \in Stages /\ stage[m] # "free" /\ m # n
        BY <1>1, <3>1, <3>2 DEF LInv, TypeOK
      <4>2. slots[i].node = m \/ slots[i].node = None
        BY <3>2, <4>1 DEF LInv, Stages, Whole, Torn
      <4> QED
        BY <3>1, <4>1, <4>2, NoneIsNoId
    <3> QED
      BY <1>2, <2>1, <3>1, <3>2
  <2>3. ASSUME stage'[n] \in Torn PROVE slots'[i].node = None
    BY <1>2, <1>3, <2>1, <2>3 DEF LInv
  <2> QED
    BY <1>3, <2>1, <2>2, <2>3
<1> QED
  BY <1>3 DEF LInv

\* Every step keeps what references to living nodes need, if nothing is downgraded during
\* a teardown.
LEMMA NextLInv ==
  ASSUME ~SplitTeardown, IInv, LInv, [Next]_vars
  PROVE  LInv'
<1>1. TypeOK /\ {} \in SUBSET Nodes
  BY DEF IInv
<1>2. CASE UNCHANGED vars
  BY <1>2 DEF vars, LInv
<1>3. ASSUME NEW S \in SUBSET Nodes, NEW st \in Stages, Move(S, st),
             UNCHANGED <<weakId, slots>>,
             \A n \in S : /\ stage[n] = "free" \/ st # "free"
                          /\ st \in Whole => stage[n] \in Whole \union {"free"}
                          /\ st \in Torn => stage[n] \in Torn
      PROVE  LInv'
  <2>1. slots' = ClearSlots({})
    BY <1>1, <1>3, NothingEmptied
  <2>2. \A n \in Nodes : stage'[n] = IF n \in S THEN st ELSE stage[n]
    BY <1>1, <1>3, MoveType
  <2>3. ASSUME NEW n \in Nodes, weakId'[n] # None
        PROVE  /\ weakId'[n] = weakId[n]
               /\ stage'[n] # "free"
               /\ stage'[n] \in Whole => stage[n] \in Whole /\ n \notin {}
               /\ stage'[n] \in Torn => stage[n] \in Torn \/ n \in {}
    BY <1>3, <2>2, <2>3 DEF LInv
  <2> QED
    BY <1>1, <2>1, <2>3, KeptLInv
<1>4. ASSUME NEW S \in SUBSET Nodes, NEW st \in Torn, Move(S, st),
             slots' = ClearSlots(S), weakId' = weakId,
             \A n \in S : stage[n] = "linked"
      PROVE  LInv'
  <2>1. \A n \in Nodes : stage'[n] = IF n \in S THEN st ELSE stage[n]
    BY <1>1, <1>4, MoveType DEF Torn, Stages
  <2>2. ASSUME NEW n \in Nodes, weakId'[n] # None
        PROVE  /\ weakId'[n] = weakId[n]
               /\ stage'[n] # "free"
               /\ stage'[n] \in Whole => stage[n] \in Whole /\ n \notin S
               /\ stage'[n] \in Torn => stage[n] \in Torn \/ n \in S
    BY <1>4, <2>1, <2>2 DEF LInv, Torn, Whole
  <2> QED
    BY <1>4, <2>2, KeptLInv
<1>5. ASSUME NEW S \in SUBSET Nodes, NEW T \in SUBSET S, Move(S, "free"),
             slots' = ClearSlots(T), NoWeakId(S)
      PROVE  LInv'
  <2>1. \A n \in Nodes : /\ stage'[n] = IF n \in S THEN "free" ELSE stage[n]
                         /\ weakId'[n] = IF n \in S THEN None ELSE weakId[n]
    BY <1>1, <1>5, MoveType, NoWeakIdType DEF Stages
  <2>2. ASSUME NEW n \in Nodes, weakId'[n] # None
        PROVE  /\ weakId'[n] = weakId[n]
               /\ stage'[n] # "free"
               /\ stage'[n] \in Whole => stage[n] \in Whole /\ n \notin T
               /\ stage'[n] \in Torn => stage[n] \in Torn \/ n \in T
    BY <2>1, <2>2 DEF LInv
  <2> QED
    BY <1>5, <2>2, KeptLInv
<1>6. ASSUME NEW n \in Nodes, Downgrade(n), Dying = {} PROVE LInv'
  <2>1. CASE UNCHANGED <<slots, weakId>>
    BY <1>6, <2>1 DEF Downgrade, LInv
  <2>2. CASE ~UNCHANGED <<slots, weakId>>
    <3> DEFINE i == FreeSlot
               v == NextVersion(Current(i).ver)
               u == Current(i).use + 1
    <3>1. /\ weakId[n] = None /\ stage[n] = "linked" /\ stage' = stage
          /\ slots' = [j \in DOMAIN slots \union {i} |->
                         IF j = i THEN Slot(v, n, u) ELSE slots[j]]
          /\ weakId' = [weakId EXCEPT ![n] = WeakId(i, v, u)]
      BY <1>6, <2>2 DEF Downgrade
    <3>2. \A m \in Nodes : stage[m] \notin Torn
      <4>1. \A m \in Nodes : Home[m] \in Partitions
        BY HomeAssumption
      <4>2. \A p \in Partitions : In(p, "prepared") = {} /\ In(p, "finalized") = {}
        BY <1>6 DEF Downgrade, InTeardown
      <4> QED
        BY <1>6, <4>1, <4>2 DEF In, Dying, Torn
    <3>3. i \in DOMAIN slots => slots[i].node = None
      BY <1>1, FreeSlotIsFree
    <3> HIDE DEF i, v, u
    <3>4. /\ slots'[i].node = n /\ DOMAIN slots' = DOMAIN slots \union {i}
          /\ \A j \in DOMAIN slots : j # i => slots'[j] = slots[j]
          /\ WeakId(i, v, u).index = i
      BY <3>1 DEF Slot, WeakId
    <3>5. weakId'[n] = WeakId(i, v, u) /\ \A m \in Nodes \ {n} : weakId'[m] = weakId[m]
      BY <1>1, <3>1 DEF TypeOK
    <3>6. ASSUME NEW m \in Nodes \ {n}, weakId[m] # None
          PROVE  stage[m] # "free"
                 /\ (stage[m] \in Whole => slots'[weakId[m].index].node = m)
      <4>1. weakId[m].index \in DOMAIN slots
        BY <3>6 DEF IInv, Since
      <4>2. stage[m] \in Whole => slots[weakId[m].index].node = m
        BY <3>6 DEF LInv
      <4> QED
        BY <3>3, <3>4, <3>6, <4>1, <4>2, NoneIsNoId DEF LInv
    <3>7. stage'[n] = "linked" /\ slots'[weakId'[n].index].node = n /\ "linked" \notin Torn
      BY <3>1, <3>4, <3>5 DEF Torn
    <3>8. ASSUME NEW m \in Nodes, weakId'[m] # None
          PROVE  /\ stage'[m] # "free"
                 /\ stage'[m] \in Whole => slots'[weakId'[m].index].node = m
                 /\ stage'[m] \notin Torn
      <4>1. CASE m = n
        BY <3>7, <4>1
      <4>2. CASE m # n
        BY <3>1, <3>2, <3>5, <3>6, <3>8, <4>2
      <4> QED
        BY <4>1, <4>2
    <3> QED
      BY <3>8 DEF LInv
  <2> QED
    BY <2>1, <2>2
<1>7. ASSUME Host, Dying = {} PROVE LInv'
  <2>1. ASSUME NEW p \in Partitions, NEW st \in Stages PROVE In(p, st) \in SUBSET Nodes
    BY DEF In
  <2>2. ASSUME NEW n \in Nodes, Alloc(n) PROVE LInv'
    BY <1>3, <2>2 DEF Alloc, Stages, Torn
  <2>3. ASSUME NEW n \in Nodes, SweepDropPayload(n) PROVE LInv'
    BY <1>3, <2>3 DEF SweepDropPayload, Stages, Whole, Torn
  <2>4. ASSUME NEW n \in Nodes, FinalizeDrop(n) PROVE LInv'
    BY <1>3, <2>4 DEF FinalizeDrop, Stages, Whole, Torn
  <2>5. ASSUME NEW n \in Nodes, DisposeDrop(n) PROVE LInv'
    BY <1>4, <2>5 DEF DisposeDrop, Torn
  <2>6. ASSUME NEW p \in Partitions, NEW S \in SUBSET Nodes, SweepUnlink(p, S) PROVE LInv'
    <3>1. \A n \in S : stage[n] = "linked"
      BY <2>6 DEF SweepUnlink, In
    <3> QED
      BY <1>3, <2>6, <3>1 DEF SweepUnlink, Stages, Whole, Torn
  <2>7. ASSUME NEW p \in Partitions, FinalizePrepare(p) PROVE LInv'
    <3>1. In(p, "linked") \in SUBSET Nodes /\ \A n \in In(p, "linked") : stage[n] = "linked"
      BY DEF In
    <3>2. "prepared" \in Torn
      BY DEF Torn
    <3> QED
      BY <1>4, <2>7, <3>1, <3>2 DEF FinalizePrepare
  <2>8. ASSUME NEW S \in SUBSET Nodes, Free(S) PROVE LInv'
    BY <1>5, <2>8 DEF Free
  <2>9. \A p \in Partitions : In(p, "dropped") \in SUBSET Nodes
                              /\ In(p, "finalized") \in SUBSET Nodes
    BY DEF In
  <2> QED
    BY <1>6, <1>7, <2>2, <2>3, <2>4, <2>5, <2>6, <2>7, <2>8, <2>9
       DEF Host, SweepDispose, DeallocPartition
<1>8. ASSUME NEW n \in Nodes, DisposeMemOnly(n) PROVE LInv'
  <2>1. slots' = ClearSlots({}) /\ {} \in SUBSET {n}
    BY <1>1, <1>8, NothingEmptied DEF DisposeMemOnly
  <2> QED
    BY <1>5, <1>8, <2>1 DEF DisposeMemOnly
<1> QED
  BY <1>2, <1>7, <1>8 DEF Next

\* A node in a chain is what its weak id leads to.
LEMMA NodeIsUpgraded ==
  ASSUME IInv, LInv, NEW w \in weaks, stage[w.node] = "linked", weakId[w.node] = w.id
  PROVE  Upgrade(w) = w.node
<1>1. w.id \in WeakIds /\ w.node \in Nodes /\ w.id.index \in DOMAIN slots
  BY Fields DEF IInv, Since
<1>2. w.id # None
  BY <1>1, NoneIsNoId
<1>3. slots[w.id.index].node = w.node
  BY <1>1, <1>2 DEF LInv, Whole
<1>4. w.id = WeakId(w.id.index, slots[w.id.index].ver, slots[w.id.index].use)
  BY <1>1, <1>3, NoneIsNoId DEF IInv, Mutual
<1>5. w.id.ver = slots[w.id.index].ver
  BY <1>4 DEF WeakId
<1> QED
  BY <1>3, <1>5 DEF Upgrade

\* As long as its node is in a chain, a weak reference upgrades to it: dispose,
\* sweep_dispose and dealloc_partition never empty a slot that has been given to
\* another node since.  The condition is that no downgrade runs between
\* finalize_partition_prepare and dealloc_partition.
THEOREM LiveUpgrades == ~SplitTeardown => (Spec => []LiveUpgrade)
<1> SUFFICES ASSUME ~SplitTeardown PROVE Spec => []LiveUpgrade
  OBVIOUS
<1>1. Init => LInv
  BY DEF Init, LInv
<1>2. IInv /\ LInv /\ [Next]_vars => LInv'
  BY NextLInv
<1>3. IInv /\ LInv => LiveUpgrade
  BY NodeIsUpgraded DEF LiveUpgrade
<1> QED
  BY <1>1, <1>2, <1>3, WeakSafety, PTL DEF Spec
=============================================================================
