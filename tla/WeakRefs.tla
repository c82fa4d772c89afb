------------------------------ MODULE WeakRefs ------------------------------
(***************************************************************************)
(* Weak references: GcHeap.weak_slots, downgrade and upgrade, against the  *)
(* ways a node dies, each in several steps between which the host or the   *)
(* Drop of a payload runs:                                                 *)
(*   the three-step sweep   sweep_unlink, sweep_drop_payloads,             *)
(*                          sweep_dispose                                  *)
(*   partition teardown     finalize_partition_prepare, the payload drops  *)
(*                          of finalize_partition, dealloc_partition       *)
(*   dispose                of the one-call sweep and of GcHeap::drop      *)
(* Which nodes a sweep takes is MarkSweep's business: here it is any set.  *)
(***************************************************************************)
EXTENDS Integers, Sequences

CONSTANTS
    Nodes,          \* identities of allocations
    Partitions,
    Home,           \* partition_id of a node
    None,           \* no node, no weak id
    MaxVersion,     \* u8::MAX: versions run from 1 to it and start over
    MaxSlots,       \* (1 << 24) - 1: downgrade panics at so many slots
    SplitTeardown,  \* may the host call downgrade during a teardown?
    MaxUses         \* bound of the model on how often one slot is given out

ASSUME HomeAssumption == Home \in [Nodes -> Partitions]
ASSUME NoneAssumption == None \notin Nodes \union [index : Nat, ver : Nat, use : Nat]
ASSUME VersionAssumption == MaxVersion \in Nat \ {0}
ASSUME SlotsAssumption == MaxSlots \in Nat /\ MaxUses \in Nat
ASSUME SplitAssumption == SplitTeardown \in BOOLEAN

VARIABLES
    stage,   \* how far each node is on its way to being freed
    weakId,  \* GcHead.weak_id of each node
    slots,   \* GcHeap.weak_slots
    weaks    \* the GcWeak values ever handed out, with the node they are for

vars == <<stage, weakId, slots, weaks>>

\* "unlinked": in the list sweep_unlink returned, payload intact; "dropped":
\* sweep_drop_payloads ran.  "prepared" and "finalized": the same during a
\* teardown, while the node is still in its chain.  "dying": dispose runs Drop.
Stages == {"free", "linked", "unlinked", "dropped", "prepared", "finalized", "dying"}

\* A weak id is an index and a version.  `use` is no field of the code: it says
\* the how-many-eth use of the slot this is, which the version only approximates.
Slot(v, n, u) == [ver |-> v, node |-> n, use |-> u]
WeakId(i, v, u) == [index |-> i, ver |-> v, use |-> u]

In(p, st) == {n \in Nodes : Home[n] = p /\ stage[n] = st}
Move(S, st) == stage' = [n \in Nodes |-> IF n \in S THEN st ELSE stage[n]]

\* The host waits while dispose runs: the Drop of a payload must not call the heap.
Dying == {n \in Nodes : stage[n] = "dying"}

\* A partition between finalize_partition_prepare and dealloc_partition.
InTeardown(p) == In(p, "prepared") # {} \/ In(p, "finalized") # {}

Init ==
    /\ stage = [n \in Nodes |-> "free"]
    /\ weakId = [n \in Nodes |-> None]
    /\ slots = <<>>
    /\ weaks = {}

-----------------------------------------------------------------------------

Alloc(n) ==
    /\ stage[n] = "free"
    /\ ~InTeardown(Home[n])
    /\ Move({n}, "linked")
    /\ UNCHANGED <<weakId, slots, weaks>>

\* Defect: the version is not advanced when a slot is used again.
SameVersion(v) == IF v = 0 THEN 1 ELSE v

\* Defect: the version does not start over.
NextVersionUnbounded(v) == v + 1

NextVersion(v) == IF v = MaxVersion THEN 1 ELSE v + 1

\* Defect: the first slot is taken though it has a node.
FirstSlot == 1

\* The first slot without a node, or a new one.
FreeSlot ==
    LET empty == {i \in DOMAIN slots : slots[i].node = None}
    IN IF empty = {} THEN Len(slots) + 1
       ELSE CHOOSE i \in empty : \A j \in empty : i <= j

Current(i) == IF i \in DOMAIN slots THEN slots[i] ELSE Slot(0, None, 0)

\* A node has one weak id for life: the second downgrade returns it again.
Downgrade(n) ==
    /\ stage[n] = "linked"
    /\ SplitTeardown \/ \A p \in Partitions : ~InTeardown(p)
    /\ \/ /\ weakId[n] # None
          /\ weaks' = weaks \union {[id |-> weakId[n], node |-> n]}
          /\ UNCHANGED <<slots, weakId>>
       \/ /\ weakId[n] = None
          /\ Len(slots) < MaxSlots
          /\ Current(FreeSlot).use < MaxUses
          /\ LET i == FreeSlot
                 v == NextVersion(Current(i).ver)
                 u == Current(i).use + 1
             IN /\ slots' = [j \in DOMAIN slots \union {i} |->
                                IF j = i THEN Slot(v, n, u) ELSE slots[j]]
                /\ weakId' = [weakId EXCEPT ![n] = WeakId(i, v, u)]
                /\ weaks' = weaks \union {[id |-> WeakId(i, v, u), node |-> n]}
    /\ UNCHANGED stage

\* Defect: a stale version is not noticed.
UpgradeAnyVersion(w) == slots[w.id.index].node

Upgrade(w) ==
    LET s == slots[w.id.index] IN IF s.ver = w.id.ver THEN s.node ELSE None

-----------------------------------------------------------------------------

\* Defect: the slot still points to the node.
KeepSlots(S) == slots

\* The slots after those of the nodes of S are emptied.  Nothing checks that a
\* slot still belongs to the node whose weak_id names it.
ClearSlots(S) ==
    [i \in DOMAIN slots |->
        IF \E n \in S : weakId[n] # None /\ weakId[n].index = i
        THEN [slots[i] EXCEPT !.node = None] ELSE slots[i]]

NoWeakId(S) == weakId' = [n \in Nodes |-> IF n \in S THEN None ELSE weakId[n]]

Free(S) ==
    /\ Move(S, "free")
    /\ slots' = ClearSlots(S)
    /\ NoWeakId(S)
    /\ UNCHANGED weaks

\* dispose empties the slot, drops the payload, and frees the memory.
DisposeDrop(n) ==
    /\ stage[n] = "linked"
    /\ ~InTeardown(Home[n])
    /\ Move({n}, "dying")
    /\ slots' = ClearSlots({n})
    /\ UNCHANGED <<weakId, weaks>>

DisposeMemOnly(n) ==
    /\ stage[n] = "dying"
    /\ Move({n}, "free")
    /\ NoWeakId({n})
    /\ UNCHANGED <<slots, weaks>>

SweepUnlink(p, S) ==
    /\ ~InTeardown(p)
    /\ S # {} /\ S \subseteq In(p, "linked")
    /\ Move(S, "unlinked")
    /\ UNCHANGED <<weakId, slots, weaks>>

\* One payload after another; each may look at weak references.
SweepDropPayload(n) ==
    /\ stage[n] = "unlinked"
    /\ Move({n}, "dropped")
    /\ UNCHANGED <<weakId, slots, weaks>>

SweepDispose(p) == In(p, "dropped") # {} /\ Free(In(p, "dropped"))

\* Defect: the slots are cleared with the memory only.
FinalizePrepareKeepsSlots(p) ==
    /\ In(p, "linked") # {}
    /\ In(p, "unlinked") \union In(p, "dropped") = {}
    /\ ~InTeardown(p)
    /\ Move(In(p, "linked"), "prepared")
    /\ UNCHANGED <<weakId, slots, weaks>>

\* Clears the slots, not the weak_id of the nodes.
FinalizePrepare(p) ==
    /\ In(p, "linked") # {}
    /\ In(p, "unlinked") \union In(p, "dropped") = {}
    /\ ~InTeardown(p)
    /\ Move(In(p, "linked"), "prepared")
    /\ slots' = ClearSlots(In(p, "linked"))
    /\ UNCHANGED <<weakId, weaks>>

FinalizeDrop(n) ==
    /\ stage[n] = "prepared"
    /\ Move({n}, "finalized")
    /\ UNCHANGED <<weakId, slots, weaks>>

DeallocPartition(p) ==
    /\ In(p, "finalized") # {} /\ In(p, "prepared") = {}
    /\ Free(In(p, "finalized"))

Host ==
    \/ \E n \in Nodes :
        \/ Alloc(n) \/ Downgrade(n)
        \/ SweepDropPayload(n) \/ FinalizeDrop(n) \/ DisposeDrop(n)
    \/ \E p \in Partitions :
        \/ \E S \in SUBSET Nodes : SweepUnlink(p, S)
        \/ SweepDispose(p)
        \/ FinalizePrepare(p)
        \/ DeallocPartition(p)

Next ==
    \/ Dying = {} /\ Host
    \/ \E n \in Nodes : DisposeMemOnly(n)

Spec == Init /\ [][Next]_vars

-----------------------------------------------------------------------------

WeakIds == [index : 1..MaxSlots, ver : 1..MaxVersion, use : Nat \ {0}]
Slots == [ver : 1..MaxVersion, node : Nodes \union {None}, use : Nat \ {0}]

TypeOK ==
    /\ stage \in [Nodes -> Stages]
    /\ weakId \in [Nodes -> WeakIds \union {None}]
    /\ slots \in Seq(Slots) /\ Len(slots) <= MaxSlots
    /\ weaks \subseteq [id : WeakIds, node : Nodes]
    /\ \A w \in weaks : w.id.index \in DOMAIN slots

\* A weak reference upgrades to the allocation it was made from or not at all,
\* until its slot has been given out MaxVersion times since: then the version is
\* the same again.
UpgradeSound ==
    \A w \in weaks :
        /\ Upgrade(w) # None
        /\ slots[w.id.index].use < w.id.use + MaxVersion
        => Upgrade(w) = w.node /\ weakId[w.node] = w.id

\* As long as its node lives, a weak reference upgrades to it.
LiveUpgrade ==
    \A w \in weaks : stage[w.node] = "linked" /\ weakId[w.node] = w.id
        => Upgrade(w) = w.node

\* Nobody gets hold of freed memory through upgrade: sweep_dispose and
\* dealloc_partition empty the slot before the memory goes.
NoFreedUpgrade == \A w \in weaks : Upgrade(w) # None => stage[Upgrade(w)] # "free"

\* Nor of a payload that sweep_drop_payloads or finalize_partition has dropped,
\* say from the Drop of the payload that is next.
NoDroppedUpgrade ==
    \A w \in weaks : Upgrade(w) # None
        => stage[Upgrade(w)] \notin {"dropped", "finalized"}

\* finalize_partition_prepare clears the slots first, and dispose that of its node,
\* so that no Drop that runs then upgrades to a node whose payload is already gone.
NoFinalizedUpgrade ==
    \A w \in weaks : Upgrade(w) # None
        => stage[Upgrade(w)] \notin {"prepared", "finalized", "dying"}

\* A reference that no longer upgrades never does again, wrap-around excepted.
NeverRevives ==
    [][\A w \in weaks :
         /\ Upgrade(w) = None
         /\ slots'[w.id.index].use < w.id.use + MaxVersion
         => Upgrade(w)' = None]_vars
=============================================================================
