----------------------------- MODULE TracedHeap -----------------------------
(***************************************************************************)
(* Traversal of the payloads of Payloads: containers, derived structs and  *)
(* enums, down to the references in them.                                  *)
(***************************************************************************)
EXTENDS Traverse, Payloads

ASSUME TracedAssumption ==
    /\ NoRefs = Leaf
    /\ \A n \in Nodes : \A v \in Stored[n] : Derives(v) /\ GcChildren(v) = Children(v)

\* Tracing a payload reports each node it holds once, and no node it does not hold,
\* however deep in containers and derived types: what is missing here is collected
\* while it is in use.
TraceExact ==
    \A n \in {m \in Nodes : status[m] = "live"} :
        IsInjective(TraceNode(n)) /\ Range(TraceNode(n)) = Holds(payload[n])
=============================================================================
