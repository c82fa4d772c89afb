# gc-lite in TLA+

A verification development for gc-lite: an incremental, partitioned tri-color
mark-sweep collector for language runtimes, with scope stacks, weak references
and a small arena allocator. The modules are translated from `src/src/*.rs` and
`src/gc-lite-macros/src/lib.rs`; line numbers are in `PROJECT.json` under `map`.

## The system

`GcHeap` is a single-threaded structure that its host calls. What is hard about
it is not parallelism but protocol: a collection is a sequence of calls, the host
runs between any two of them, and so do the `Drop` implementations of payloads.

| Component | State | Operations | What makes it correct |
|---|---|---|---|
| Collector (`mark_sweep.rs`, `partition.rs`) | per partition the chain of nodes, `gray_list`, `marking`; per node color and `GRAY_LISTED` | `mark_prepare`, `mark_grays`, `mark`, `mark_reset`, `sweep_unlink`, `sweep_drop_payloads`, `sweep_dispose`, `sweep`, `garbage_collect`, `add_gray_node` | only unreachable nodes are freed, whatever the host does meanwhile; a full collection leaves no garbage and ends |
| Barriers and protection (`node.rs`, `heap.rs`) | flags `ROOT`, `LOCAL` | `with_write_barrier`, `bind`, `set_root_node`, `protect_node` | tri-color invariant; what is protected is shaded |
| Partitions (`partition.rs`) | vector of partitions | `create_partition`, `finalize_partition_prepare`, `finalize_partition`, `dealloc_partition`, `remove_partition` | teardown leaves nothing that points to what it freed |
| Scope stacks (`scope.rs`) | stacks, their owner, a cache per open scope | `acquire_scope_stack`, `release_scope_stack`, `new_scope`, `GcScopeState::new`, handle drop, `alloc_local`, `add_non_local`, `protect_nodes`, `remove_node`, `promote_node_to`, `clear`, `clear_local_flag` | a cached node is alive; each `LOCAL` flag has one scope to take it back |
| Weak references (`weak.rs`) | `weak_slots`, `weak_id` per node | `downgrade`, `upgrade` | upgrade gives the node it was made from or nothing, never freed memory |
| Arena (`arena.rs`) | frontier, free list, `live_count` | `alloc`, `collect_hole`, `finish_sweep`, reset | blocks are disjoint; a reset never hits a live block |
| Allocation (`mem.rs`, `heap.rs`) | `memory_used` per partition, total, limit, threshold | `alloc_raw`, `alloc_root_raw`, `dispose*`, `set_memory_limit`, `set_gc_threshold` | accounting equals what is allocated; a full heap asks for a collection |
| Chains (`node_link.rs`, loops of `mark_sweep.rs`, `partition.rs`, `heap.rs`) | linked lists through `GcHead.next`; local variables of the loops | `attach_node`, iteration, `filter_remove_with`, splitting and freeing lists pass by pass, `GcHeap::drop` | no node is lost, listed twice or freed twice; drop passes are respected, but by `sweep_drop_payloads` |
| Tracing (`trace.rs`, derive macros) | `TRAVERSE_VISITED`; the queue of `traverse` | `trace_node`, container impls, derived impls, `traverse_start`, `traverse` | every reference is reported once; every reachable node is visited once |
| Types (`gctype.rs`, `helpers.rs`, macros) | none: computed at compile time | `gc_type_register!`, layouts | drop passes sorted, layouts hold head and payload |

The components share nodes (the header's flags, color, `weak_id`, link) and call each
other directly: allocation and scopes shade through the partition's `add_gray_node`,
`sweep_dispose` empties weak slots and gives blocks back to the arena, teardown
clears scope caches, weak slots, the gray list and the arena.

`PROJECT.json` lists under `hazards` what is hard to test in this code, at its line.

## Modules

| Module | Models |
|---|---|
| `CollectedHeap` | the promise to the host: a graph of live nodes from which a collector may take what no root leads to |
| `MarkSweep` | the collector, barriers, protection and teardown, interleaved with the host; implements `CollectedHeap` |
| `GarbageCollect` | `garbage_collect` on top of `MarkSweep`, with the fairness of its loop |
| `WeakRefs` | weak slots against the steps of a sweep, of a dispose and of a teardown |
| `Scopes` | stacks, caches and `LOCAL` flags |
| `GcTypes` | the registry of types: layouts, drop passes |
| `Arena` | the allocator of one partition |
| `NodeMemory` | where nodes get memory, the accounting, limit and threshold; extends `Arena` and `GcTypes` |
| `NodeLinks` | chains on real links, and every loop that splits, filters or frees them, one round at a time |
| `Payloads` | what tracing a payload reports: container impls and derived impls |
| `Traverse` | `traverse` on the chains of `NodeLinks`, for any payloads: what tracing one reports is a constant |
| `TracedHeap` | `Traverse` with the payloads of `Payloads` |
| `MarkSweepProofs`, `ArenaProofs`, `NodeMemoryProofs`, `ScopesProofs`, `WeakRefsProofs`, `NodeLinksProofs`, `TraverseProofs` | theorems about the modules they are named for, `MarkSweepProofs` also about `GarbageCollect` |
| `FiniteInduction` | induction over natural numbers and finite sets, in the form the proofs use, and that finite sets of integers can be listed in order |

`MC*` modules hold the values of constants TLC needs. Operators whose comment starts
with "Defect" are plausible bugs of the operator that follows them; they are in no
specification and show that each property can fail.

### MarkSweep

One action per method, since a method holds `&mut GcHeap` from start to end.
`mark_grays(p, k)` is k steps `MarkGrays(p, n)`, one per node traced: the state
between two of them is the one a call with a smaller budget leaves, including the
node popped last and pushed back. `mark` is `MarkPrepare` and then `MarkGrays` steps.
`Sweep` is the deprecated one-call sweep, and how `garbage_collect` ends.

Abstractions. A node identity has a fixed partition (`Home`) and may be allocated
again once freed. A chain and a gray list are sets: the collector's result depends on
neither order, and an entry whose node is already Black is ignored when popped; such
entries are kept, with their flag, until the code drops them. `refs[n]` is what
tracing n reports, which is what the host stored. `linked` are the nodes in chains,
`condemned` those in lists returned by `sweep_unlink` and not yet disposed.
`sweep_drop_payloads` changes none of this state and is part of `SweepDispose` here;
`WeakRefs` and `NodeLinks` have it as an action of its own.

What the host may do: allocate with any references, protect and unprotect, replace
references inside `with_write_barrier`, store a reference through a raw pointer and
call `bind`, drop references without a barrier, remove a partition. It keeps to
what the code cannot check: it stores only nodes it can name in their chain, calls
`add_gray_node` for a partition that marks (the code asserts it), and removes a
partition when it holds no unlinked list of it and nothing refers into it.

Two constants widen the host. `CrossRefs` lets references cross partitions and
`ForeignScopes` lets a scope protect a node of another partition; the code accepts
both.  With both FALSE everything below holds; with either the runs
`MarkSweepCross` and `MarkSweepForeign` show a reachable node freed.

`GarbageCollect` adds the running call and its loop.

### WeakRefs

A stage per node in place of colors; a sweep takes any set. The payload drops of a
list or of a teardown are one step each, since each runs host code that may upgrade;
`dying` is the moment when `dispose` runs the Drop of one node, during which the host
does not call the heap. `use` counts how often a slot was given out, which is what
the code's u8 version approximates. `SplitTeardown` lets the host downgrade between
`finalize_partition_prepare` and `dealloc_partition`.

### Scopes

The graph is abstracted to `held`, the nodes something else keeps alive; entries of a
cache remember whether `clear_local_flag` was called for them, so that its contract can
be stated. Caches are sets. The cache at `NoStack` is that of a scope made with
`GcScopeState::new`, which no stack knows of; its partition is not torn down while it is
open. `protect_nodes` is one step for all its nodes. `Rescopes` lets a node that
`clear_local_flag` was called for be protected by a second scope.

### GcTypes, Arena, NodeMemory

Sizes and offsets count units of 8 bytes. A block in the arena is a node in it, with its
layout; the free list is a set ordered by offset, as `finish_sweep` leaves it. A sweep is
`BeginSweep` with the set of nodes that die, one `CollectHole` per node in any order, and
`FinishSweep`. `NodeMemory` adds to each of these the accounting the code does with it:
`AllocNodeMem` is `alloc_node_mem` with its checks of partition and limit, the choice of
arena or system and `update_mem_use` with its cast to i32; `DeallocPartition` subtracts a
partition's sum instead of node by node. Nodes outside the arena are counted per partition
and type, and what the system gave out (`mallocs`) separately, since a teardown decides by a
flag of the node whether to give memory back.

### NodeLinks, Payloads, Traverse

`next`, `chain` and `loop` are the links, the heads in the partitions and the local variables
of the loop that runs: `UnlinkStart`/`UnlinkStep`/`UnlinkEnd` are `sweep_unlink`,
`DisposeStart`/`DisposeStep`/`DisposePassEnd` are `sweep_dispose`, `FilterStep` and
`FilterPassEnd` the loop `filter_remove_with` runs for `sweep` and `GcHeap::drop`,
`Finalize*` and `Dealloc*` the two halves of a teardown. A freed node's link is `Garbage`: a
loop that reads it has gone wrong and a type or list invariant says so. The host holds one
list at a time, and does not use a partition it is tearing down (`HostMayUse`).

`Walk(n)` are the nodes that `NodeLinkIter` yields from n on. `Heads` gives each list that
there is at the moment the node it starts from (chains, chains `GcHeap::drop` has yet to
dispose, the lists in local variables, the list the host holds), `LiveLists` the walk from
there. `LinksSpec` leaves open which nodes a sweep takes; `Traverse` runs the same actions,
for the sets that no stored payload refers to, so that what is proved of `LinksSpec` holds
there (`TraverseKeepsChains`).

A payload is a tree of leaves, references, containers and derived types; tracing is a
recursion over it that ends in `add_node`, which skips a node reported before. The order in
which a hash container yields its elements is part of the value. `Holds` is the reference
definition. The payloads stored in the run are a struct with a map and a skipped field, an
enum with a custom trace, and a vector with duplicates.

`Traverse` has the queue, marks and callbacks of `traverse`, one step per iteration. Its
comment (`trace.rs:100`) calls the walk depth-first; the queue makes it breadth-first, which
`ParentsComeFirst` proves. What must hold in either order, and is checked, is `ParentsLead`:
the parents that callbacks get lead back to the start. The marks in `visited` outlive the call, and only `traverse_start` clears those of one partition. What a payload is
does not matter to it: `GcChildren` gives the nodes that tracing one reports, for the proofs
any sequence of nodes. `TracedHeap` composes it with `Payloads`, and is what the run checks.

`Reach` is what a call can reach, stated without a search: the nodes in every set that is
closed under references, but for what was visited before the call.

## Runs

| Run | Shows | Bounds |
|---|---|---|
| `MarkSweepOne` | seven invariants of the marking cycle | 3 nodes, 1 partition: chains, cycles, self references; 480 thousand states up to symmetry |
| `GarbageCollect` | the inductive invariant of the proofs, that of the running collection included; refinement of `CollectedHeap`; a collection from a fresh cycle leaves exactly the reachable nodes; it returns | 2 + 1 nodes, 2 partitions: cycles that start together and end apart; 670 thousand states |
| `WeakRefs` | five invariants, and that a dead reference stays dead | 3 nodes, 2 partitions, 3 slots, versions 1..2, three uses of a slot: one wrap-around; 910 thousand states |
| `Arena` | six invariants of the arena and five of the accounting, in `NodeMemory` | an arena of 12 units, three types: one without payload, one 16-byte aligned, one too large for it; two partitions, one node outside at a time, three limits, three thresholds; 700 thousand states |
| `Scopes` | caches and flags agree, no dangling cache entry | 2 nodes, 2 partitions, 3 stacks of depth 2 and one scope on none; 200 thousand states |
| `Traverse` | chains, passes, tracing and traversal: six invariants, two action properties, and that every loop ends | 3 nodes of three types and drop passes, 2 partitions; 370 thousand states |

None of these needs a larger instance to show its interesting cases: a violation of
the tri-color argument needs a Black node, a White one and a path between them that
is cut (3 nodes); one across partitions needs two partitions; a stale version needs
one wrap-around; coalescing needs two holes and a neighbour that lives; a list that is
split wrongly needs a first, a middle and a last node; pass order needs two passes and one
node that waits. Addresses, slots, stacks and partition numbers are all used again
within these bounds.

Six runs end in a violation: something the code's docs, comments or tests say
and the code does not do. The counterexamples are in the order the calls happen.

| Run | Violated | What happens |
|---|---|---|
| `MarkSweepCross` | `ReachableAlive` | partition p is swept while a Gray root of q, not yet traced, refers into p |
| `MarkSweepForeign` | `NoDangling` | a node of p protected by a scope of q lands on q's list; p is swept without tracing it |
| `WeakTeardown` | `LiveUpgrade` | a slot emptied in the first step of a teardown is reused and emptied again in the last |
| `WeakSweep` | `NoDroppedUpgrade` | between payload drops and disposal of a sweep, weak references still upgrade |
| `ArenaAligned` | `Aligned` | 32-byte alignment relative to a block aligned to 16 |
| `ScopesThrow` | `CachedAlive` | a node thrown with `clear_local_flag`, then protected by a second scope, loses its flag to the first |

Smaller disagreements, without a run:

- `traverse` says "depth-first order" (`trace.rs:100`). It takes nodes from the front of its
  queue and puts children at the back, so the walk is breadth first, on every graph
  (`ParentsComeFirst`): of a tree in which n1 refers to n2 and n3, and n3 to n4, it calls back
  n1, n3, n2, n4.
- `sweep_dispose` says it processes nodes by `drop_pass` "to respect destruction ordering"
  (`mark_sweep.rs:478`). It frees by pass, but the payloads are dropped before, by
  `sweep_drop_payloads`, in list order; `PassesInOrder` speaks of the other loops only.
- `xref.rs:6-8` speaks of `seed_cross_partition_incoming_refs`, which does not exist.
- `protect_node` returns false for a node that is protected already, against its doc
  (`heap.rs:225`).

Deadlock is checked in `Arena` and `Scopes`. Elsewhere the system may really stop: the host
of `MarkSweep` and `GarbageCollect` may stop calling, a heap that was dropped does nothing
more (`Traverse`), and the slots of `WeakRefs` reach the bound on their uses.

### Fairness

`GarbageCollect` assumes weak fairness of the steps of a running `garbage_collect`, and
`Traverse` that of the rounds of a loop that runs and of the iterations of `traverse`. Both
run on the caller's thread, hold the heap and do nothing but these steps until they
return; payload drops and callbacks are taken to return. The incremental API is driven by
the host, which may stop, so no liveness is claimed for it.

## Proofs

Every theorem is about all values of the constants, under the named assumptions of the
module it is about and the premises it states.

**`MarkSweepProofs`**, with the premises `~CrossRefs` and `~ForeignScopes`. `NoDangling`
alone is not inductive: sweeping frees White nodes, so the proof must know that no node that
stays refers to one. That is `TriColor`, together with `GraysPending` (an empty list means
no node is Gray), `ProtectedShaded` (what is protected is not White) and `LocalEdges`
(references stay in a partition, so this partition's colors decide). `GraysPending` survives
the skip in `add_gray_node` only if a flag tells the truth, which is `ListedSound`; and that
survives the removal of nodes because lists hold nodes of their own partition
(`GrayListsOwned`). `FreshWhite` is for allocation: a node starts White. One lemma per action
proves each conjunct; `Safety` combines them and the theorems named for properties follow.
`Implements` proves refinement: `DoomedUnreachable` shows that what stays after a sweep
is closed under references and contains the protected nodes, so what goes was
unreachable; every other step is an allocation, a change of roots or edges, the
host's abandoning of a partition, or invisible.

**`garbage_collect`** (in `MarkSweepProofs`), with the same premises. Safety and refinement carry over, since
every step of `GcSpec` is one of `MarkSweep` or leaves its variables alone. That a collection
leaves no garbage needs the converse of the tri-color argument: `ShadedReachable` says that
while a collection runs that started its cycle, what is not White is reachable. It holds after
`mark_prepare`, which shades the protected nodes and whitens the rest, and `mark_grays` shades
children of what is shaded; the host does not run. When the loop ends nothing is Gray, so what
is reachable is Black, and what is swept is exactly the rest (`NoFloatingGarbage`).

**`ArenaProofs`**. `Disjoint` is not inductive, since `alloc` also takes from the free list and
`finish_sweep` turns holes into it: `AllApart` says that live blocks, free entries and holes
overlap nowhere, `BelowFrontier` that the bump allocation cannot meet any of them, and
`HolesOfSweep` that holes exist in a sweep only. The hard step is the merging in `finish_sweep`:
`MergedRuns` shows that the runs of adjacent holes are blocks that cover the holes and no
more, so that they keep clear of what lives and of each other. `CountExact` needs the
library's theorems on cardinality, and that `live` is finite.

**`NodeMemoryProofs`**. `ArenaOfNodes` shows that every step of `NodeMemory` is a step of
`Arena` or leaves it alone, so `ArenaProofs` holds of nodes (`NodesDisjoint`); this uses that
the layouts of the arena are those of the registry. `FullHeapAsks` proves
`FullAsksForGc` from `LimitInv`, whose `ThresholdFits` says that the threshold is below the
limit or is the least one. The arithmetic is that of the two setters, and needs a `GcHead` of
at least 3 units (it has three words and more), because the least threshold must not be below
a limit smaller than 4. The theorem speaks of a heap that is full: a node larger than what is
left fails while `should_gc` is false, and nothing is claimed of that, nor of a limit so small
that `set_gc_threshold` caps the threshold to 0, which turns `should_gc` off.

`AccountingExact` proves `UsedExact` by lemmas on the library's sums over finite sets: a sum
does not depend on the order of its terms, and when one term changes it changes by as much.
They are proved by induction over the subsets of a finite set (`FiniteInduction`), since the
library defines a sum by a recursive function that picks its terms with CHOOSE. From it follow
`NoUnderflow` (a counter that is a sum of sizes is not negative), `LimitHolds` and
`NothingLeaks`. Used are the assumptions that layouts fit an i32, that types and partitions
are finitely many, and that the smallest block of the arena is no larger than a head.

**`ScopesProofs`**, with the premise `~Rescopes`. `CachedAlive` needs to know that an entry's
node has its flag or is held (`KeptAlive`), which a clearing of another scope would break were
it in two caches (`Unshared`), and a teardown were it in a scope of another partition
(`AtHome`). `Flagged` is the other half of `OneCache`: a promoted or removed node's flag still
has a scope.

**`WeakRefsProofs`**. `Mutual` says that a slot's node names that slot, use and version
included, and has not been torn down: from it alone follows that upgrade never gives freed
memory (`NothingFreedUpgrades`) nor a node in teardown. `Since` ties an id to its slot's
history: as long as the slot was given out fewer than MaxVersion times since, its version is
the id's advanced by the number of uses (`Later`), which is different unless that number is
zero; hence `UpgradesRight` and `DeadStaysDead`, an action property. `LiveUpgrades` has the
premise `~SplitTeardown` and a second invariant `LInv`: the slot of a node in teardown stays
empty, so that clearing it again harms nobody.

**`NodeLinksProofs`**. None of the list properties is inductive as a statement about walks: a
step changes one link, and a walk may pass it anywhere. The invariant says instead that there
is a *layout*, a function from nodes to lists (`at`) and one to integers (`rank`), such that each
head leads to the node of least rank of its list and each link to the node of next rank
(`Laid`). The code keeps no such thing; it exists, and no step but `attach_node` needs another
rank for any node. On top of `Laid`, `Inv` has what the loops must know of their local variables: the
tail of a list under construction has no link, nodes come to it in their old order, `prev` is
the node before `current` (`LoopShape`); whose a list is (`AtHome`); which payloads are dropped
(`PayloadsDropped`, `PayloadsLive`); and that a node that is still due is so for a later pass
(`PassesKept`). TLC checked this invariant before it was proved, with the layout computed from
the state. A handful of lemmas say what putting a node in front or at the end, taking one out
and renaming a list do to a layout; each action is one or two of these operations. Then

- `ListClimbs`: the walk from a head meets exactly the nodes of its list, by ascending rank,
  by induction on the number of nodes left to walk. Hence `NoNodeLost`, for chains of any length.
- `ChainsKeepOrder`: what `OrderKept` compares are pairs of ascending ranks, before and after.
- `DropsByPass`, for every loop but `sweep_drop_payloads`, which goes by its list:
  `PassesEnumerate` shows that `drop_passes` has every pass of the registry once
  and ascending; a node that dies in this call and is still live is then of this pass or later.
- `PayloadsDropOnce`: `DropsOnce` needs two facts more (`OnceInv`): in the drop of the heap all
  payloads of what is not free are there, since it starts from chains the host may use; and in
  `finalize_partition` a payload of its chain that is gone is of an earlier pass, or of this one
  and behind (`DroppedInTurn`, the converse of `PassesKept`). As passes are all different, what
  is of this pass and at hand is still live; what was passed by would be live when it is freed.
- `LinksTyped`: no link that is read is `Garbage`, for whatever is walked is laid out.

The assumptions are that the registry is one the macro accepts and has an entry, that
there is a partition, and that nodes are finitely many.

**`TraverseProofs`**, for any graph of children, any marks left by earlier traversals and any
filter. `WalkInv` relates the queue to `Met`, the nodes this call has visited. That all is
visited which can be reached (`VisitsWhatItReaches`) needs `ChildrenWait`: a child of a node in
`Met` is visited or is in the queue. When the queue is empty, `Met` is then closed under
references, so it contains `Reach`; `OnlyReachable` is the other half, and `CalledOnce` ties
callbacks to `Met` and filter. `ParentsLeadBack` proves `ParentsLead` from `ParentsMet` and
`FirstParent`, parts of `WalkInv`. The latter says that without a filter a parent is the first
called back that refers to the node, that is, that the walk is breadth first: `ParentsComeFirst`
states it as a fact about the code, against the doc. It needs the order of the queue: `InTurn`
says that the children of what was called back earlier come first. `ChildrenWait` must
therefore speak of every visited parent, also when the child is in the queue already: the code
queues it again, and a stop at a visited node is passed over. With a filter a parent may not
have been called back, and of its place nothing is claimed. `TraverseKeepsChains` shows that every step is one of `NodeLinks` or leaves the chains alone, so
`NodeLinksProofs` holds under traversals (`ChainsUnderTraverse`). Assumed is only that payloads
report nodes and that a new node has none.

Only model-checked. Liveness (`Terminates`, `LoopsEnd`): fairness is out of the prover's
reach. `TraceExact`: payloads are trees, tracing is a recursion over them, and `Payloads`
declares it with RECURSIVE operators; induction over such data is out of reach too.

## Not modelled

- The generated text of the macros (what it does is in `GcTypes` and `Payloads`), and the
  examples, which are users of the library.
- Callbacks on disposal, which observe and change nothing here; a payload's Drop or a
  callback that panics.
- System allocations that fail: the call returns an error and changes nothing.
- Ids that wrap at 65536 partitions, and payloads of 2 GiB: the models assume fewer and
  smaller (listed as hazards).
- What only a debug build does: poisoning, with the leak it causes (the mutant of
  `DeallocPartition` is that build), and assertions. One of them is reachable:
  `sweep_dispose` asserts an empty gray list, which a cycle started after `sweep_unlink`
  breaks (`mark_sweep.rs:564`).
- The panic of `RefCell` when a traced or visited cell is borrowed.
- Scope handles that are moved out of their borrow and dropped out of order.
- Two unlinked lists of one partition, or of several, at once in `NodeLinks`: the lists share
  nothing, and `MarkSweep` has any number.

A known leak is not stated as a property: `finish_sweep` rebuilds the free list from
the holes of one sweep, so holes an earlier sweep left and nothing reused are lost
until the arena is empty (`EmptyIsWhole` shows that then they are back).

## Plan

Done: all modules above; the proofs of `MarkSweep`, `GarbageCollect`, `Arena`, `NodeMemory`,
`Scopes`, `WeakRefs`, `NodeLinks` and `Traverse`. What could be added:

1. `WholeHeap`: the protocol under which references may cross partitions (mark every
   partition to the end, then sweep), as a restriction of `MarkSweep`, including the
   colors `mark_prepare` keeps in a partition with pending grays. Shown to implement
   `CollectedHeap` with `CrossRefs`.
2. `NodeLinks` as a refinement of the sets `linked` and `condemned` of `MarkSweep`, with the
   layout of its invariant as the mapping.
3. Proofs: `Sound` of `CollectedHeap`.
