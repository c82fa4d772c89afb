---------------------------- MODULE CollectedHeap ----------------------------
(***************************************************************************)
(* What gc-lite promises its host, with no colors, lists or partitions: a  *)
(* graph of live nodes that the host grows and rewires at will, and a      *)
(* collector that may at any time reclaim any nodes no root leads to.      *)
(* Removing a partition is the one way a reachable node goes: the host     *)
(* gives up, as a whole, a set of nodes nothing outside refers to.         *)
(***************************************************************************)

CONSTANT Nodes

VARIABLES
    alive,  \* nodes the host may use
    roots,  \* nodes protected by a root or a scope
    refs    \* the references a node holds, none for a node not alive

vars == <<alive, roots, refs>>

Init ==
    /\ alive = {}
    /\ roots = {}
    /\ refs = [n \in Nodes |-> {}]

\* S holds the roots and all that its members refer to.
Closed(S) == roots \subseteq S /\ \A n \in S : refs[n] \subseteq S

\* What the roots lead to: the least closed set.
Reachable == {n \in Nodes : \A S \in SUBSET Nodes : Closed(S) => n \in S}

Without(S) == [n \in Nodes |-> IF n \in S THEN {} ELSE refs[n]]

Allocate(n, S) ==
    /\ n \notin alive
    /\ S \subseteq alive
    /\ alive' = alive \union {n}
    /\ refs' = [refs EXCEPT ![n] = S]
    /\ roots' \in {roots, roots \union {n}}

Reroot(R) ==
    /\ R \subseteq alive
    /\ roots' = R
    /\ UNCHANGED <<alive, refs>>

Rewire(m, S) ==
    /\ m \in alive
    /\ S \subseteq alive
    /\ refs' = [refs EXCEPT ![m] = S]
    /\ UNCHANGED <<alive, roots>>

Reclaim(S) ==
    /\ S \subseteq alive
    /\ S \intersect Reachable = {}
    /\ alive' = alive \ S
    /\ refs' = Without(S)
    /\ UNCHANGED roots

Abandon(S) ==
    /\ S \subseteq alive
    /\ \A n \in alive \ S : refs[n] \intersect S = {}
    /\ alive' = alive \ S
    /\ refs' = Without(S)
    /\ roots' = roots \ S

Next ==
    \/ \E n \in Nodes, S \in SUBSET Nodes : Allocate(n, S) \/ Rewire(n, S)
    \/ \E S \in SUBSET Nodes : Reroot(S) \/ Reclaim(S) \/ Abandon(S)

Spec == Init /\ [][Next]_vars

\* The promise in a sentence: what the roots lead to is alive.
Sound == Reachable \subseteq alive
=============================================================================
