------------------------------ MODULE MarkSweep ------------------------------
(***************************************************************************)
(* The incremental tri-color collector of gc-lite: the heap's nodes, the   *)
(* marking cycle (mark_prepare / mark_grays / mark_reset), the three-step  *)
(* sweep (sweep_unlink / sweep_drop_payloads / sweep_dispose), partition   *)
(* teardown, the two write barriers (GcRef::with_write_barrier and         *)
(* GcHeap::bind), and the operations of the host that the collector must   *)
(* tolerate between any two of its calls.                                  *)
(*                                                                         *)
(* GcHeap is single-threaded: every public method runs alone, so a method  *)
(* is one action.  mark_grays(p, max_steps) is the exception: it is a loop *)
(* whose iterations trace one node each, a call with max_steps = k being k *)
(* consecutive MarkGrays steps.                                            *)
(*                                                                         *)
(* A partition's chain and its gray list are sets here: what the collector *)
(* does never depends on the order, and a duplicate in gray_list is popped *)
(* when its node is already Black and ignored (mark_grays tests the color).*)
(***************************************************************************)

CONSTANTS
    Nodes,         \* identities of allocations: a freed identity may come back
    Partitions,    \* the partitions of the heap, all created beforehand
    Home,          \* partition_id of a node, written once when it is allocated
    CrossRefs,     \* may the host store a reference across partitions?
    ForeignScopes  \* may a scope protect a node of another partition?

ASSUME HomeAssumption == Home \in [Nodes -> Partitions]
ASSUME HostAssumption == CrossRefs \in BOOLEAN /\ ForeignScopes \in BOOLEAN

VARIABLES
    linked,     \* nodes in the chain (GcPartition.nodes) of their partition
    condemned,  \* nodes in the lists sweep_unlink returned, not yet disposed
    root,       \* nodes with the ROOT flag
    local,      \* nodes with the LOCAL flag
    refs,       \* the references GcTrace::trace of a node's payload reports
    color,      \* GcTriColor of a node
    listed,     \* nodes with the GRAY_LISTED flag
    gray,       \* GcPartition.gray_list
    marking     \* partitions whose `marking` is true

vars == <<linked, condemned, root, local, refs, color, listed, gray, marking>>

heapVars == <<linked, condemned, root, local, refs>>
markVars == <<color, listed, gray>>

Colors == {"White", "Gray", "Black"}
Protected == root \union local
Chain(p) == {n \in linked : Home[n] = p}
Unused == Nodes \ (linked \union condemned)
GrayPartitions == {p \in Partitions : gray[p] # {}}

\* What the host may store in m: a node that is still in its chain.
Storable(m) == {s \in linked : CrossRefs \/ Home[s] = Home[m]}

Init ==
    /\ linked = {}
    /\ condemned = {}
    /\ root = {}
    /\ local = {}
    /\ refs = [n \in Nodes |-> {}]
    /\ color = [n \in Nodes |-> "White"]
    /\ listed = {}
    /\ gray = [p \in Partitions |-> {}]
    /\ marking = {}

-----------------------------------------------------------------------------
(* Gray lists.                                                             *)

\* Color n Gray and push it on p's list unless the flag says it is on a list.
Enlist(p, n) ==
    /\ color' = [color EXCEPT ![n] = "Gray"]
    /\ listed' = listed \union {n}
    /\ gray' = IF n \in listed THEN gray
               ELSE [gray EXCEPT ![p] = @ \union {n}]

\* GcPartition::add_gray_node: a Black node is left alone.
AddGrayNode(p, n) ==
    IF color[n] = "Black" THEN UNCHANGED markVars ELSE Enlist(p, n)

\* Defect: protecting a node during a cycle does not shade it.
ShadeNever(p, n) == UNCHANGED markVars

\* Every operation that protects a node on behalf of p shades it if p marks.
ShadeIfMarking(p, n) ==
    IF p \in marking THEN AddGrayNode(p, n) ELSE UNCHANGED markVars

-----------------------------------------------------------------------------
(* Allocation.  A payload may hold references from the start.              *)

NewNode(n, S) ==
    /\ n \in Unused
    /\ S \subseteq Storable(n)
    /\ linked' = linked \union {n}
    /\ refs' = [refs EXCEPT ![n] = S]
    /\ UNCHANGED <<condemned, marking>>

AllocRaw(n, S) ==
    /\ NewNode(n, S)
    /\ UNCHANGED <<root, local, color, listed, gray>>

AllocRoot(n, S) ==
    /\ NewNode(n, S)
    /\ root' = root \union {n}
    /\ local' = local
    /\ ShadeIfMarking(Home[n], n)

AllocLocal(n, S) ==
    /\ NewNode(n, S)
    /\ local' = local \union {n}
    /\ root' = root
    /\ ShadeIfMarking(Home[n], n)

-----------------------------------------------------------------------------
(* Protection.                                                             *)

SetRoot(n) ==
    /\ n \in linked \ root
    /\ root' = root \union {n}
    /\ ShadeIfMarking(Home[n], n)
    /\ UNCHANGED <<linked, condemned, local, refs, marking>>

\* protect_node on the current scope of partition p: only a node that is
\* neither root nor local.  It is the scope's partition that is asked whether
\* it marks, and its list that gets the node.
Protect(p, n) ==
    /\ n \in linked \ Protected
    /\ ForeignScopes \/ p = Home[n]
    /\ local' = local \union {n}
    /\ ShadeIfMarking(p, n)
    /\ UNCHANGED <<linked, condemned, root, refs, marking>>

\* A scope is cleared (all its nodes at once) or lets one node go.
Unprotect(S) ==
    /\ S # {}
    /\ S \subseteq local
    /\ local' = local \ S
    /\ UNCHANGED <<linked, condemned, root, refs, color, listed, gray, marking>>

\* GcHeap::add_gray_node is public.  Its partition must be marking, the code
\* asserts.
HostAddGrayNode(n) ==
    /\ n \in linked
    /\ Home[n] \in marking
    /\ AddGrayNode(Home[n], n)
    /\ UNCHANGED <<linked, condemned, root, local, refs, marking>>

-----------------------------------------------------------------------------
(* The host changes references.                                            *)

\* Defect: the write barrier is left out.
WriteUnshaded(m, S) ==
    /\ m \in linked
    /\ S \subseteq Storable(m)
    /\ refs' = [refs EXCEPT ![m] = S]
    /\ UNCHANGED <<linked, condemned, root, local, color, listed, gray, marking>>

\* Inside with_write_barrier the host may replace all the references of m.
WithWriteBarrier(m, S) ==
    /\ m \in linked
    /\ S \subseteq Storable(m)
    /\ refs' = [refs EXCEPT ![m] = S]
    /\ IF Home[m] \in marking /\ color[m] = "Black"
       THEN Enlist(Home[m], m)
       ELSE UNCHANGED markVars
    /\ UNCHANGED <<linked, condemned, root, local, marking>>

\* Defect: bind shades the stored node only when it crosses partitions.
BindAcrossOnly(m, s) ==
    /\ m \in linked
    /\ s \in Storable(m)
    /\ refs' = [refs EXCEPT ![m] = @ \union {s}]
    /\ IF Home[m] # Home[s] /\ Home[s] \in marking /\ color[s] # "Black"
       THEN Enlist(Home[s], s)
       ELSE UNCHANGED markVars
    /\ UNCHANGED <<linked, condemned, root, local, marking>>

\* bind(m, s): the host has stored s in m through a raw pointer.
Bind(m, s) ==
    /\ m \in linked
    /\ s \in Storable(m)
    /\ refs' = [refs EXCEPT ![m] = @ \union {s}]
    /\ IF color[s] = "Black" THEN UNCHANGED markVars
       ELSE IF Home[s] \in marking /\ (color[m] = "Black" \/ Home[m] # Home[s])
            THEN Enlist(Home[s], s)
       ELSE IF color[m] = "Black"
            THEN color' = [color EXCEPT ![s] = "Gray"] /\ UNCHANGED <<listed, gray>>
       ELSE UNCHANGED markVars
    /\ UNCHANGED <<linked, condemned, root, local, marking>>

\* References may be dropped without any barrier.
DropRefs(m, S) ==
    /\ m \in linked
    /\ S # {}
    /\ S \subseteq refs[m]
    /\ refs' = [refs EXCEPT ![m] = @ \ S]
    /\ UNCHANGED <<linked, condemned, root, local, color, listed, gray, marking>>

-----------------------------------------------------------------------------
(* Marking.                                                                *)

\* Defect: the colors of the last cycle survive.
StaleColor(n) == IF n \in Protected THEN "Gray" ELSE color[n]

\* Recolored from scratch, or kept in a partition with pending grays.
SeedColor(n) ==
    IF n \in Protected THEN "Gray"
    ELSE IF Home[n] \in GrayPartitions THEN color[n]
    ELSE "White"

\* A new cycle: every partition enters marking mode.  One with an empty list
\* is recolored from scratch; one with pending grays keeps its colors and
\* only has its roots and locals put (back) on the list.
MarkPrepare(p) ==
    /\ p \notin marking
    /\ marking' = Partitions
    /\ color' = [n \in Nodes |->
                    IF n \in linked THEN SeedColor(n) ELSE color[n]]
    /\ gray' = [q \in Partitions |->
                    IF q \in GrayPartitions
                    THEN gray[q] \union ((Chain(q) \intersect Protected) \ listed)
                    ELSE Chain(q) \intersect Protected]
    /\ listed' = listed \union
                    {n \in linked \intersect Protected : Home[n] \in GrayPartitions}
    /\ UNCHANGED heapVars

\* Defect: a child is pushed whatever its color.
AllChildren(n) == refs[n]

\* The children that tracing n pushes.
GrayChildren(n) == {c \in refs[n] : color[c] # "Black"}

\* Defect: the Gray node popped last is not pushed back.
PopAll(list, done, top) == list \ (done \union {top})

\* The step budget is used up: the entries of `done` were popped and ignored,
\* `top` was popped and pushed back.
PushBack(list, done, top) == (list \ done) \union {top}

\* One iteration of mark_grays: pop a Gray node n, push the children that are
\* not Black, blacken n.  Then either nothing Gray is left and the loop drains
\* the list, or the next Gray node `top` is popped (its flag goes) and pushed
\* back, after the Black entries met on the way to it (`done`: a node that
\* refers to itself is pushed once more while it turns Black).
MarkGrays(p, n) ==
    /\ n \in gray[p]
    /\ color[n] = "Gray"
    /\ color' = [c \in Nodes |-> IF c = n THEN "Black"
                               ELSE IF c \in GrayChildren(n) THEN "Gray"
                               ELSE color[c]]
    /\ LET pushed == [q \in Partitions |->
                         (IF q = p THEN gray[p] \ {n} ELSE gray[q])
                             \union {c \in GrayChildren(n) : Home[c] = q}]
           flagged == (listed \ {n}) \union GrayChildren(n)
       IN \/ /\ \A c \in pushed[p] : color'[c] # "Gray"
             /\ gray' = [pushed EXCEPT ![p] = {}]
             /\ listed' = flagged \ pushed[p]
          \/ \E top \in pushed[p], done \in SUBSET pushed[p] :
                /\ color'[top] = "Gray"
                /\ \A c \in done : color'[c] = "Black"
                /\ gray' = [pushed EXCEPT ![p] = PushBack(@, done, top)]
                /\ listed' = flagged \ (done \union {top})
    /\ UNCHANGED <<linked, condemned, root, local, refs, marking>>

\* Defect: the flags of the abandoned entries stay set.
MarkResetKeepsFlags(p) ==
    /\ marking' = marking \ {p}
    /\ gray' = [gray EXCEPT ![p] = {}]
    /\ color' = [n \in Nodes |-> IF n \in Chain(p) THEN "White" ELSE color[n]]
    /\ UNCHANGED <<linked, condemned, root, local, refs, listed>>

\* Abandon p's cycle; the other partitions stay in theirs.
MarkReset(p) ==
    /\ marking' = marking \ {p}
    /\ listed' = listed \ gray[p]
    /\ gray' = [gray EXCEPT ![p] = {}]
    /\ color' = [n \in Nodes |-> IF n \in Chain(p) THEN "White" ELSE color[n]]
    /\ UNCHANGED heapVars

-----------------------------------------------------------------------------
(* Sweeping and teardown.                                                  *)

Doomed(p) == {n \in Chain(p) : color[n] = "White" /\ n \notin Protected}

\* Defect: the sweep does not wait for the gray list to be empty.
SweepEarly(p) ==
    /\ p \in marking
    /\ marking' = marking \ {p}
    /\ linked' = linked \ Doomed(p)
    /\ condemned' = condemned \union Doomed(p)
    /\ UNCHANGED <<root, local, refs, color, listed, gray>>

SweepUnlink(p) ==
    /\ p \in marking
    /\ gray[p] = {}
    /\ marking' = marking \ {p}
    /\ linked' = linked \ Doomed(p)
    /\ condemned' = condemned \union Doomed(p)
    /\ UNCHANGED <<root, local, refs, color, listed, gray>>

\* Defect: the flag of a local node outlives the node.
ForgetButLocal(S) ==
    /\ root' = root \ S
    /\ local' = local
    /\ listed' = listed \ S
    /\ refs' = [n \in Nodes |-> IF n \in S THEN {} ELSE refs[n]]
    /\ color' = [n \in Nodes |-> IF n \in S THEN "White" ELSE color[n]]

\* The identities of S are free again, as if never allocated.
Forget(S) ==
    /\ root' = root \ S
    /\ local' = local \ S
    /\ listed' = listed \ S
    /\ refs' = [n \in Nodes |-> IF n \in S THEN {} ELSE refs[n]]
    /\ color' = [n \in Nodes |-> IF n \in S THEN "White" ELSE color[n]]

\* sweep_drop_payloads, which leaves this state alone, and sweep_dispose.
SweepDispose(p) ==
    LET S == {n \in condemned : Home[n] = p}
    IN /\ S # {}
       /\ condemned' = condemned \ S
       /\ Forget(S)
       /\ UNCHANGED <<linked, gray, marking>>

\* The deprecated one-call sweep, also how garbage_collect ends: unlink, drop and
\* dispose with nothing in between.
Sweep(p) ==
    /\ p \in marking
    /\ gray[p] = {}
    /\ marking' = marking \ {p}
    /\ linked' = linked \ Doomed(p)
    /\ Forget(Doomed(p))
    /\ UNCHANGED <<condemned, gray>>

\* Defect: the gray list outlives its partition's nodes.
RemovePartitionKeepsGrays(p) ==
    /\ \A n \in condemned : Home[n] # p
    /\ linked' = linked \ Chain(p)
    /\ Forget(Chain(p))
    /\ marking' = marking \ {p}
    /\ UNCHANGED <<condemned, gray>>

\* finalize_partition and dealloc_partition.  The host must not hold a list of
\* p that sweep_unlink returned, nor references into p from elsewhere.
RemovePartition(p) ==
    /\ \A n \in condemned : Home[n] # p
    /\ \A n \in linked \ Chain(p) : refs[n] \intersect Chain(p) = {}
    /\ linked' = linked \ Chain(p)
    /\ Forget(Chain(p))
    /\ gray' = [gray EXCEPT ![p] = {}]
    /\ marking' = marking \ {p}
    /\ UNCHANGED condemned

-----------------------------------------------------------------------------

Allocate ==
    \E n \in Nodes, S \in SUBSET Nodes :
        AllocRaw(n, S) \/ AllocRoot(n, S) \/ AllocLocal(n, S)

Host ==
    \/ \E n \in Nodes : SetRoot(n) \/ HostAddGrayNode(n)
    \/ \E p \in Partitions, n \in Nodes : Protect(p, n)
    \/ \E S \in SUBSET Nodes : Unprotect(S)
    \/ \E m \in Nodes, S \in SUBSET Nodes : WithWriteBarrier(m, S) \/ DropRefs(m, S)
    \/ \E m, s \in Nodes : Bind(m, s)

Collect ==
    \E p \in Partitions :
        \/ MarkPrepare(p)
        \/ \E n \in Nodes : MarkGrays(p, n)
        \/ MarkReset(p)
        \/ SweepUnlink(p)
        \/ SweepDispose(p)
        \/ Sweep(p)
        \/ RemovePartition(p)

Next == Allocate \/ Host \/ Collect

Spec == Init /\ [][Next]_vars

\* The collector seen by its host: a node is alive while it is in its chain.
Promise == INSTANCE CollectedHeap WITH
    alive <- linked,
    roots <- Protected,
    refs <- [n \in Nodes |-> IF n \in linked THEN refs[n] ELSE {}]

\* Collection reclaims only what no root or local leads to, whatever the host
\* does between the steps of a cycle.
KeepsPromise == Promise!Spec

-----------------------------------------------------------------------------

TypeOK ==
    /\ linked \in SUBSET Nodes
    /\ condemned \in SUBSET (Nodes \ linked)
    /\ root \in SUBSET linked
    /\ local \in SUBSET linked
    /\ listed \in SUBSET linked
    /\ refs \in [Nodes -> SUBSET Nodes]
    /\ color \in [Nodes -> Colors]
    /\ gray \in [Partitions -> SUBSET linked]
    /\ marking \in SUBSET Partitions

\* No node of a chain refers to memory that was freed or is about to be: the
\* reason the collector exists.
NoDangling == \A n \in linked : refs[n] \subseteq linked

\* What the roots and locals lead to is in its chain.
ReachableAlive == Promise!Sound

\* In a partition that marks, a Black node has no White child: what the two
\* barriers and the re-shading of mark_prepare keep up together.
TriColor ==
    \A n \in linked : Home[n] \in marking /\ color[n] = "Black"
        => \A c \in refs[n] : Home[c] = Home[n] => color[c] # "White"

\* No Gray node is forgotten: it is on the list, so mark_grays cannot report
\* the cycle complete (and sweep_unlink cannot start) before it is traced.
GraysPending ==
    \A n \in linked : Home[n] \in marking /\ color[n] = "Gray" => n \in gray[Home[n]]

\* A protected node of a partition that marks is at least Gray.
ProtectedShaded ==
    \A n \in Protected : Home[n] \in marking => color[n] # "White"

\* The flag never outlives the list entry it stands for: a stale flag would make
\* the next shading skip the push.
ListedSound == \A n \in listed : n \in gray[Home[n]]

\* An entry of a gray list is a node of that partition, and only a partition
\* that marks has entries.
GrayListsOwned ==
    \A p \in Partitions :
        /\ \A n \in gray[p] : Home[n] = p
        /\ gray[p] # {} => p \in marking

\* What makes the above inductive: while the host keeps references inside a
\* partition a node's references stay there, and memory not in a chain is White.
LocalEdges == \A n \in linked : \A c \in refs[n] : c \in linked /\ Home[c] = Home[n]
FreshWhite == \A n \in Nodes \ linked : color[n] = "White"

IInv ==
    /\ TypeOK
    /\ LocalEdges
    /\ FreshWhite
    /\ TriColor
    /\ GraysPending
    /\ ProtectedShaded
    /\ ListedSound
    /\ GrayListsOwned
=============================================================================
