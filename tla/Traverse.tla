------------------------------ MODULE Traverse ------------------------------
(***************************************************************************)
(* GcHeap::traverse over the references that payloads hold, on heaps whose *)
(* chains are built, swept and torn down as in NodeLinks.  The marks of    *)
(* visited nodes are in the nodes (GcNodeFlag::TRAVERSE_VISITED) and stay  *)
(* there: only traverse_start, for one partition, takes them away.         *)
(* What a payload is and how it is traced does not matter here: TracedHeap *)
(* has the payloads of Payloads.                                           *)
(***************************************************************************)
EXTENDS NodeLinks

CONSTANTS
    Stored,         \* the payloads the host stores at each node
    NoRefs,         \* the payload of a node that was just allocated
    GcChildren(_)   \* the nodes that a payload reports when it is traced

ASSUME StoredAssumption ==
    /\ \A n \in Nodes : \A v \in Stored[n] : GcChildren(v) \in Seq(Nodes)
    /\ GcChildren(NoRefs) = <<>>

VARIABLES
    payload,  \* of each node
    visited,  \* the nodes with TRAVERSE_VISITED
    queue,    \* of traverse: nodes to visit, each with the node it was found at
    walk      \* the call of traverse: its arguments and its callbacks so far

traverseVars == <<payload, visited, queue, walk>>
vars == <<linkVars, traverseVars>>

AnyPartition == 0
NoWalk == [start |-> None, filter |-> AnyPartition, before |-> {}, calls |-> <<>>]

Init ==
    /\ LinksInit
    /\ payload = [n \in Nodes |-> NoRefs]
    /\ visited = {} /\ queue = <<>> /\ walk = NoWalk

\* trace_node, which finds the payload's impl by the type id of the node.
TraceNode(n) == GcChildren(payload[n])

Refers(m) == Range(TraceNode(m))

\* The host's references lead to nodes in chains: a sweep takes only what no other
\* node refers to, and a partition is torn down when none of the others does.
Unreferenced(D) == \A m \in Listed \ D : Refers(m) \intersect D = {}

\* The host stores references it has.
Store(n, v) ==
    /\ loop.op = "none" /\ walk = NoWalk
    /\ n \in Listed /\ status[n] = "live"
    /\ Range(GcChildren(v)) \subseteq {m \in Listed : status[m] = "live"}
    /\ payload' = [payload EXCEPT ![n] = v]
    /\ UNCHANGED <<linkVars, visited, queue, walk>>

\* A node starts without references and unvisited.
New(n, p) ==
    /\ walk = NoWalk
    /\ Attach(n, p)
    /\ payload' = [payload EXCEPT ![n] = NoRefs]
    /\ visited' = visited \ {n}
    /\ UNCHANGED <<queue, walk>>

LinkStep ==
    /\ walk = NoWalk
    /\ \/ \E p \in PartitionIds :
           /\ HostMayUse(p)
           /\ \/ \E D \in SUBSET NodesOf(p) :
                    Unreferenced(D) /\ (UnlinkStart(p, D) \/ SweepStart(p, D))
              \/ Unreferenced(NodesOf(p)) /\ FinalizeStart(p)
       \/ DropPayloads \/ DisposeStart \/ DeallocStart
       \/ DropHeap
       \/ Round
    /\ UNCHANGED traverseVars

-----------------------------------------------------------------------------

TraverseStart(p) ==
    /\ loop.op = "none" /\ walk = NoWalk
    /\ visited' = visited \ NodesOf(p)
    /\ UNCHANGED <<linkVars, payload, queue, walk>>

BeginTraverse(n, filter) ==
    /\ loop.op = "none" /\ walk = NoWalk
    /\ n \in Listed /\ status[n] = "live"
    /\ queue' = <<[node |-> n, parent |-> None]>>
    /\ walk' = [start |-> n, filter |-> filter, before |-> visited, calls |-> <<>>]
    /\ UNCHANGED <<linkVars, payload, visited>>

\* Children of n that are in S, the last one first.
ChildrenIn(n, S) ==
    LET c == TraceNode(n)
        at == Ascending({i \in DOMAIN c : c[i] \in S})
        k == Len(at)
    IN [i \in 1..k |-> [node |-> c[at[k + 1 - i]], parent |-> n]]

\* Defect: the filter cuts off what is behind other partitions.
FoundWithin(n) ==
    ChildrenIn(n, {c \in Nodes \ visited' : walk.filter \in {AnyPartition, home[c]}})

\* Defect: children wait with the parent that was popped with n instead of n.
FoundOfParent(n) ==
    LET c == ChildrenIn(n, Nodes \ visited')
    IN [i \in DOMAIN c |-> [c[i] EXCEPT !.parent = Head(queue).parent]]

\* What is not visited yet.
Found(n) == ChildrenIn(n, Nodes \ visited')

Enqueue(rest, found) == rest \o found

\* One round of the loop.  A node may be in the queue more than once.
Visit ==
    /\ queue # <<>>
    /\ LET n == Head(queue).node
       IN \/ /\ n \in visited
             /\ queue' = Tail(queue)
             /\ UNCHANGED <<visited, walk>>
          \/ /\ n \notin visited
             /\ visited' = visited \union {n}
             /\ queue' = Enqueue(Tail(queue), Found(n))
             /\ walk' = IF walk.filter \in {AnyPartition, home[n]}
                        THEN [walk EXCEPT !.calls = Append(@, Head(queue))] ELSE walk
    /\ UNCHANGED <<linkVars, payload>>

EndTraverse ==
    /\ walk # NoWalk /\ queue = <<>>
    /\ walk' = NoWalk
    /\ UNCHANGED <<linkVars, payload, visited, queue>>

Next ==
    \/ LinkStep
    \/ Visit
    \/ EndTraverse
    \/ \E n \in Nodes :
        \/ \E p \in PartitionIds : New(n, p)
        \/ \E v \in Stored[n] : Store(n, v)
        \/ \E filter \in PartitionIds \union {AnyPartition} : BeginTraverse(n, filter)
    \/ \E p \in PartitionIds : TraverseStart(p)

\* A call runs to its end; the host may stop calling.
Fairness == WF_vars(walk = NoWalk /\ Round /\ UNCHANGED traverseVars) /\ WF_vars(Visit \/ EndTraverse)

Spec == Init /\ [][Next]_vars /\ Fairness

-----------------------------------------------------------------------------

\* S has the start and what its nodes refer to, but for nodes visited before the call.
ClosedWalk(S) ==
    /\ {walk.start} \ walk.before \subseteq S
    /\ \A m \in S : Refers(m) \ walk.before \subseteq S

\* What can be reached without going through nodes visited before the call.
Reach == {n \in Nodes : \A S \in SUBSET Nodes : ClosedWalk(S) => n \in S}

Callbacks == [i \in DOMAIN walk.calls |-> walk.calls[i].node]

\* A finished traversal has called back once for each node of the filter's partition
\* that can be reached, also through other partitions, and not through marks that
\* an earlier traversal left.
VisitsReachable ==
    walk # NoWalk /\ queue = <<>> =>
        /\ IsInjective(Callbacks)
        /\ Range(Callbacks) =
              {n \in Reach : walk.filter \in {AnyPartition, home[n]}}

\* The parent a callback gets refers to the node and was visited in this call,
\* whichever of the node's stops in the queue came first and whatever marks earlier
\* calls left.  Without a filter it was called back before the node, so parents lead
\* back to the start.
ParentsLead ==
    \A i \in DOMAIN walk.calls :
        LET c == walk.calls[i]
        IN IF c.parent = None THEN c.node = walk.start
           ELSE /\ c.node \in Refers(c.parent)
                /\ c.parent \in visited \ walk.before
                /\ walk.filter = AnyPartition =>
                      \E j \in 1..(i - 1) : walk.calls[j].node = c.parent

\* A call of the host that has not returned.
Busy == loop.op \notin {"none", "gone"} \/ walk # NoWalk

\* Every loop ends: chains have no cycles, each pass goes to the end of its list, and
\* a traversal of cyclic references stops.
LoopsEnd == Busy ~> ~Busy
=============================================================================
