------------------------------ MODULE NodeLinks ------------------------------
(***************************************************************************)
(* Node chains: every node has a link to the next one (GcHead.next) and a  *)
(* partition has the first (GcNodeLink).  The loops that split and empty   *)
(* chains run one round at a time here:                                    *)
(*   sweep_unlink                     white nodes out of the chain         *)
(*   sweep_dispose                    those freed, one drop pass at a time *)
(*   sweep, GcHeap::drop              nodes taken out of a list and        *)
(*                                    disposed, pass by pass               *)
(*   finalize_partition               payloads dropped, pass by pass       *)
(*   dealloc_partition                the nodes freed                      *)
(* Which nodes a sweep takes is MarkSweep's business: here it is any set   *)
(* that nothing else refers to.                                            *)
(***************************************************************************)
EXTENDS GcTypes

CONSTANTS
    Nodes,          \* addresses: one is given out again after it was freed
    MaxPartitions,  \* bound: partitions created
    Registry,       \* the entries of gc_type_register!
    TypeOf,         \* the type of the node that is put at an address
    None, Garbage   \* no node; what is read from a link in freed memory

ASSUME LinksAssumption ==
    /\ Registers(Registry) /\ Registry # <<>>
    /\ MaxPartitions \in Nat \ {0}
    /\ IsFiniteSet(Nodes)
    /\ TypeOf \in [Nodes -> DOMAIN Registry]
    /\ None \notin Nodes /\ Garbage \notin Nodes /\ None # Garbage

VARIABLES
    status,  \* of each node: "free", "live", or "dropped" (its payload is)
    home,    \* partition_id of each node
    next,    \* GcHead.next
    chain,   \* GcPartition.nodes
    held,    \* the list the host has from sweep_unlink or finalize_partition
    doomed,  \* the White unprotected nodes of the sweep that runs
    loop     \* the loop that runs: what the code has in local variables

linkVars == <<status, home, next, chain, held, doomed, loop>>

PartitionIds == 1..MaxPartitions
Passes == DropPasses(Registry)
DropPass(n) == PassOf(Registry[TypeOf[n]])

\* A list under construction, with its tail.
EmptyList == [head |-> None, tail |-> None]
NoList == [from |-> "none", par |-> 1, head |-> None]

\* `list` is the survivors of sweep_unlink, the kept nodes of sweep_dispose, or
\* the link nodes are taken out of, its tail being the code's `prev`.  `rest` has
\* the chains GcHeap::drop has yet to dispose.
NoRest == [p \in PartitionIds |-> None]
Idle == [op |-> "none", par |-> 1, pass |-> 1, current |-> None,
         list |-> EmptyList, white |-> EmptyList, rest |-> NoRest]

MaybeNode == Nodes \union {None}

\* The nodes met from n on, at most k.
WalkUpTo[k \in Nat] ==
    [n \in MaybeNode \union {Garbage} |->
        IF k = 0 \/ n = None THEN <<>>
        ELSE <<n>> \o (IF n \in Nodes THEN WalkUpTo[k - 1][next[n]] ELSE <<>>)]

\* What NodeLinkIter yields.  One node more than there are shows a cycle.
Walk(n) == WalkUpTo[Cardinality(Nodes) + 1][n]

NodesOf(p) == Range(Walk(chain[p]))
Listed == UNION {NodesOf(p) : p \in PartitionIds}

LinksInit ==
    /\ status = [n \in Nodes |-> "free"]
    /\ home = [n \in Nodes |-> 1]
    /\ next = [n \in Nodes |-> Garbage]
    /\ chain = [p \in PartitionIds |-> None]
    /\ held = NoList /\ doomed = {} /\ loop = Idle

-----------------------------------------------------------------------------

\* The host may call the heap: no loop runs and p is not being torn down.
HostMayUse(p) ==
    /\ loop.op = "none"
    /\ ~(held.from = "teardown" /\ held.par = p)

\* alloc_node_mem and attach_node: the new node is the first of its chain.
Attach(n, p) ==
    /\ HostMayUse(p)
    /\ status[n] = "free"
    /\ status' = [status EXCEPT ![n] = "live"]
    /\ home' = [home EXCEPT ![n] = p]
    /\ next' = [next EXCEPT ![n] = chain[p]]
    /\ chain' = [chain EXCEPT ![p] = n]
    /\ UNCHANGED <<held, doomed, loop>>

\* The memory of S is freed.
Freed(S, links) == [n \in Nodes |-> IF n \in S THEN Garbage ELSE links[n]]
WithStatus(S, st) == [n \in Nodes |-> IF n \in S THEN st ELSE status[n]]

\* Defect: put in front, as prepend does.
AppendFront(links, l, n) ==
    [next |-> [links EXCEPT ![n] = l.head], list |-> [head |-> n, tail |-> n]]

\* n, which has no next, at the end of list l.
Appended(links, l, n) ==
    [next |-> IF l.tail = None THEN links ELSE [links EXCEPT ![l.tail] = n],
     list |-> [head |-> IF l.tail = None THEN n ELSE l.head, tail |-> n]]

\* Defect: the link is read after the node was freed or detached.
AfterTooLate(n) == next'[n]

\* Where a loop goes on: read before the node is freed or put in another list.
After(n) == next[n]

\* Defect: a loop over the passes does not get past the first.
NextPassSame(pass) == pass

NextPass(pass) == pass + 1

\* Defect: the node keeps its link into the old chain.
DetachedNot(n) == next

Detached(n) == [next EXCEPT ![n] = None]

-----------------------------------------------------------------------------
(* The three-step sweep.  D: what is White, neither root nor local.        *)

UnlinkStart(p, D) ==
    /\ HostMayUse(p)
    /\ held = NoList
    /\ chain[p] # None
    /\ D \subseteq NodesOf(p)
    /\ doomed' = D
    /\ chain' = [chain EXCEPT ![p] = None]
    /\ loop' = [Idle EXCEPT !.op = "unlink", !.par = p, !.current = chain[p]]
    /\ UNCHANGED <<status, home, next, held>>

UnlinkStep ==
    /\ loop.op = "unlink" /\ loop.current # None
    /\ LET n == loop.current
           to == IF n \in doomed THEN loop.white ELSE loop.list
           a == Appended(Detached(n), to, n)
       IN /\ next' = a.next
          /\ loop' = IF n \in doomed
                     THEN [loop EXCEPT !.white = a.list, !.current = After(n)]
                     ELSE [loop EXCEPT !.list = a.list, !.current = After(n)]
    /\ UNCHANGED <<status, home, chain, held, doomed>>

\* An empty list of white nodes is nothing to hold.
UnlinkEnd ==
    /\ loop.op = "unlink" /\ loop.current = None
    /\ chain' = [chain EXCEPT ![loop.par] = loop.list.head]
    /\ held' = IF loop.white.head = None THEN NoList
               ELSE [from |-> "sweep", par |-> loop.par, head |-> loop.white.head]
    /\ doomed' = {}
    /\ loop' = Idle
    /\ UNCHANGED <<status, home, next>>

\* sweep_drop_payloads, in the order of the list.
DropPayloads ==
    /\ loop.op = "none" /\ held.from = "sweep"
    /\ status[held.head] = "live"
    /\ status' = WithStatus(Range(Walk(held.head)), "dropped")
    /\ UNCHANGED <<home, next, chain, held, doomed, loop>>

DisposeStart ==
    /\ loop.op = "none" /\ held.from = "sweep"
    /\ status[held.head] = "dropped"
    /\ loop' = [Idle EXCEPT !.op = "dispose", !.par = held.par, !.current = held.head]
    /\ held' = NoList
    /\ UNCHANGED <<status, home, next, chain, doomed>>

\* Nodes of other passes are kept for them.
DisposeStep ==
    /\ loop.op = "dispose" /\ loop.current # None
    /\ LET n == loop.current
           kept == Appended(Detached(n), loop.list, n)
       IN IF DropPass(n) = Passes[loop.pass]
          THEN /\ status' = WithStatus({n}, "free")
               /\ next' = Freed({n}, next)
               /\ loop' = [loop EXCEPT !.current = After(n)]
          ELSE /\ next' = kept.next
               /\ loop' = [loop EXCEPT !.current = After(n), !.list = kept.list]
               /\ UNCHANGED status
    /\ UNCHANGED <<home, chain, held, doomed>>

LastRound == loop.list.head = None \/ loop.pass = Len(Passes)

DisposePassEnd ==
    /\ loop.op = "dispose" /\ loop.current = None
    /\ loop' = IF LastRound THEN Idle
               ELSE [loop EXCEPT !.pass = NextPass(@), !.current = loop.list.head,
                                 !.list = EmptyList]
    /\ UNCHANGED <<status, home, next, chain, held, doomed>>

-----------------------------------------------------------------------------
(* The one-call sweep, and the drop of the heap.                           *)

SweepStart(p, D) ==
    /\ HostMayUse(p)
    /\ chain[p] # None
    /\ D \subseteq NodesOf(p)
    /\ doomed' = D
    /\ chain' = [chain EXCEPT ![p] = None]
    /\ loop' = [Idle EXCEPT !.op = "sweep", !.par = p, !.current = chain[p],
                            !.list.head = chain[p]]
    /\ UNCHANGED <<status, home, next, held>>

\* GcHeap::drop: all chains are taken first, then disposed one after another.
\* The host has given back what it held.
DropHeap ==
    /\ loop.op = "none" /\ held = NoList
    /\ chain' = [p \in PartitionIds |-> None]
    /\ loop' = [Idle EXCEPT !.op = "drop", !.current = chain[1], !.list.head = chain[1],
                            !.rest = [chain EXCEPT ![1] = None]]
    /\ UNCHANGED <<status, home, next, held, doomed>>

Taken(n) ==
    /\ DropPass(n) = Passes[loop.pass]
    /\ loop.op = "sweep" => n \in doomed

\* filter_remove_with, and the same by hand in sweep: a node that is taken out
\* is disposed at once, payload and memory.
FilterStep ==
    /\ loop.op \in {"sweep", "drop"} /\ loop.current # None
    /\ LET n == loop.current
           prev == loop.list.tail
       IN IF Taken(n)
          THEN /\ status' = WithStatus({n}, "free")
               /\ next' = Freed({n}, IF prev = None THEN next
                                     ELSE [next EXCEPT ![prev] = next[n]])
               /\ loop' = [loop EXCEPT !.current = After(n),
                                       !.list.head = IF prev = None THEN next[n] ELSE @]
          ELSE /\ UNCHANGED <<status, next>>
               /\ loop' = [loop EXCEPT !.current = After(n), !.list.tail = n]
    /\ UNCHANGED <<home, chain, held, doomed>>

FilterPassEnd ==
    /\ loop.op \in {"sweep", "drop"} /\ loop.current = None
    /\ ~LastRound
    /\ loop' = [loop EXCEPT !.pass = NextPass(@), !.current = loop.list.head, !.list.tail = None]
    /\ UNCHANGED <<status, home, next, chain, held, doomed>>

\* What is left goes back to the partition.
SweepEnd ==
    /\ loop.op = "sweep" /\ loop.current = None
    /\ LastRound
    /\ chain' = [chain EXCEPT ![loop.par] = loop.list.head]
    /\ doomed' = {}
    /\ loop' = Idle
    /\ UNCHANGED <<status, home, next, held>>

\* The next chain; after the last one the heap is gone.
DropNextChain ==
    /\ loop.op = "drop" /\ loop.current = None
    /\ LastRound
    /\ LET p == loop.par + 1
       IN loop' = IF loop.par = MaxPartitions THEN [Idle EXCEPT !.op = "gone"]
                  ELSE [loop EXCEPT !.par = p, !.pass = 1, !.current = loop.rest[p],
                                    !.list = [head |-> loop.rest[p], tail |-> None],
                                    !.rest[p] = None]
    /\ UNCHANGED <<status, home, next, chain, held, doomed>>

-----------------------------------------------------------------------------
(* Teardown of a partition.  The list is a copy: the chain stays as it is. *)

FinalizeStart(p) ==
    /\ HostMayUse(p)
    /\ held = NoList
    /\ chain[p] # None
    /\ loop' = [Idle EXCEPT !.op = "finalize", !.par = p, !.current = chain[p]]
    /\ UNCHANGED <<status, home, next, chain, held, doomed>>

\* Defect: the pass of the type is not looked at.
FinalizedAlways(n) == TRUE

Finalized(n) == DropPass(n) = Passes[loop.pass]

FinalizeStep ==
    /\ loop.op = "finalize" /\ loop.current # None
    /\ LET n == loop.current
       IN /\ status' = IF Finalized(n) THEN WithStatus({n}, "dropped") ELSE status
          /\ next' = next
          /\ loop' = [loop EXCEPT !.current = After(n)]
    /\ UNCHANGED <<home, chain, held, doomed>>

FinalizePassEnd ==
    /\ loop.op = "finalize" /\ loop.current = None
    /\ IF loop.pass = Len(Passes)
       THEN /\ held' = [from |-> "teardown", par |-> loop.par, head |-> chain[loop.par]]
            /\ loop' = Idle
       ELSE /\ loop' = [loop EXCEPT !.pass = NextPass(@), !.current = chain[loop.par]]
            /\ UNCHANGED held
    /\ UNCHANGED <<status, home, next, chain, doomed>>

DeallocStart ==
    /\ loop.op = "none" /\ held.from = "teardown"
    /\ loop' = [Idle EXCEPT !.op = "dealloc", !.par = held.par, !.current = held.head]
    /\ held' = NoList
    /\ UNCHANGED <<status, home, next, chain, doomed>>

DeallocStep ==
    /\ loop.op = "dealloc" /\ loop.current # None
    /\ status' = WithStatus({loop.current}, "free")
    /\ next' = Freed({loop.current}, next)
    /\ loop' = [loop EXCEPT !.current = After(loop.current)]
    /\ UNCHANGED <<home, chain, held, doomed>>

DeallocEnd ==
    /\ loop.op = "dealloc" /\ loop.current = None
    /\ chain' = [chain EXCEPT ![loop.par] = None]
    /\ loop' = Idle
    /\ UNCHANGED <<status, home, next, held, doomed>>

\* A round of the loop that runs.
Round ==
    \/ UnlinkStep \/ UnlinkEnd
    \/ DisposeStep \/ DisposePassEnd
    \/ FilterStep \/ FilterPassEnd \/ SweepEnd \/ DropNextChain
    \/ FinalizeStep \/ FinalizePassEnd
    \/ DeallocStep \/ DeallocEnd

\* What the heap does to its chains, whatever the payloads and the marks are.
LinksNext ==
    \/ \E n \in Nodes, p \in PartitionIds : Attach(n, p)
    \/ \E p \in PartitionIds :
        \/ \E D \in SUBSET NodesOf(p) : UnlinkStart(p, D) \/ SweepStart(p, D)
        \/ FinalizeStart(p)
    \/ DropPayloads \/ DisposeStart \/ DeallocStart \/ DropHeap
    \/ Round

LinksSpec == LinksInit /\ [][LinksNext]_linkVars

-----------------------------------------------------------------------------

Ops == {"none", "unlink", "dispose", "sweep", "drop", "finalize", "dealloc", "gone"}
Lists == [head : MaybeNode, tail : MaybeNode]
Loops == [op : Ops, par : PartitionIds, pass : 1..Len(Passes), current : MaybeNode,
          list : Lists, white : Lists, rest : [PartitionIds -> MaybeNode]]

\* No variable ever has a link that was read from freed memory.
LinksTypeOK ==
    /\ status \in [Nodes -> {"free", "live", "dropped"}]
    /\ home \in [Nodes -> PartitionIds]
    /\ next \in [Nodes -> MaybeNode \union {Garbage}]
    /\ chain \in [PartitionIds -> MaybeNode]
    /\ held \in [from : {"none", "sweep", "teardown"}, par : PartitionIds, head : MaybeNode]
    /\ doomed \subseteq Nodes
    /\ loop \in Loops

\* The lists there are, between two rounds of a loop too.  In a loop that takes
\* nodes out of its list, what it has yet to see is part of the list.
ListNames ==
    {"chain", "rest"} \X PartitionIds \union {"list", "white", "held", "current"} \X {1}

Heads ==
    [l \in ListNames |->
        CASE l[1] = "chain" -> IF loop.op = "dealloc" /\ l[2] = loop.par THEN None ELSE chain[l[2]]
          [] l[1] = "rest" -> loop.rest[l[2]]
          [] l[1] = "list" -> loop.list.head
          [] l[1] = "white" -> loop.white.head
          [] l[1] = "held" -> IF held.from = "sweep" THEN held.head ELSE None
          [] l[1] = "current" -> IF loop.op \in {"unlink", "dispose", "dealloc"}
                                 THEN loop.current ELSE None]

LiveLists == [l \in ListNames |-> Walk(Heads[l])]

\* No node is lost and none is in two places, in the midst of any loop: what is
\* not free is in one list, once, and no list leads to freed memory.
EachInOneList ==
    /\ \A l \in ListNames : IsInjective(LiveLists[l])
    /\ \A l, m \in ListNames :
        l # m => Range(LiveLists[l]) \intersect Range(LiveLists[m]) = {}
    /\ UNION {Range(LiveLists[l]) : l \in ListNames} = {n \in Nodes : status[n] # "free"}

\* Drop runs for a payload once, and before its memory is freed: no loop comes to a
\* node that another was to drop, and none frees one that was passed by.  In a chain
\* that the host may use all payloads are there, in a list it holds all or none.
DropsOnce ==
    /\ loop.current # None =>
        /\ loop.op = "finalize" /\ Finalized(loop.current) => status[loop.current] = "live"
        /\ loop.op \in {"sweep", "drop"} => status[loop.current] = "live"
        /\ loop.op \in {"dispose", "dealloc"} => status[loop.current] = "dropped"
    /\ held.from = "sweep" => \A n \in Range(Walk(held.head)) : status[n] = status[held.head]
    /\ \A p \in PartitionIds : HostMayUse(p) => \A n \in NodesOf(p) : status[n] = "live"

\* x before y in some list, or already in a list the loop makes of what is left.
Ordered ==
    LET rest == IF loop.op \in {"unlink", "dispose"} THEN Walk(loop.current) ELSE <<>>
        lists == Range(LiveLists) \union {Walk(loop.list.head) \o rest, Walk(loop.white.head) \o rest}
    IN UNION {{<<l[ij[1]], l[ij[2]]>> : ij \in {p \in (DOMAIN l) \X (DOMAIN l) : p[1] < p[2]}}
              : l \in lists}

\* Chains keep their order: what was allocated later comes, and is dropped, first
\* within its pass.  No step turns two nodes of a list round.
OrderKept ==
    [][loop.op # "none" =>
        LET later == Ordered'
        IN \A xy \in Ordered : <<xy[2], xy[1]>> \notin later]_linkVars

Drops(n) == status[n] = "live" /\ status'[n] # "live"

\* Outside sweep_drop_payloads, which goes by the list alone, a payload is dropped
\* only after those of lower passes that die in the same call.
PassesInOrder ==
    [][loop.op # "none" =>
        \A n, m \in Nodes :
            Drops(n) /\ DropPass(m) < DropPass(n) /\ home[m] = home[n]
            /\ (loop.op = "sweep" => m \in doomed)
            => status[m] # "live"]_linkVars
=============================================================================
