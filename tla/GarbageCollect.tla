--------------------------- MODULE GarbageCollect ---------------------------
(***************************************************************************)
(* GcHeap::garbage_collect: mark_prepare, mark_grays until the list is     *)
(* empty, then the sweep.  It holds &mut GcHeap throughout, so the host    *)
(* runs only when no collection does; but the host may have left the heap  *)
(* at any point of an incremental cycle when it calls it.                  *)
(***************************************************************************)
EXTENDS MarkSweep

CONSTANT Idle

ASSUME IdleAssumption == Idle \notin Partitions

VARIABLES
    gc,     \* the partition garbage_collect runs on, or Idle
    fresh   \* was that partition outside a cycle when the call began?

gcVars == <<vars, gc, fresh>>

GcInit == Init /\ gc = Idle /\ fresh = FALSE

Call(p) ==
    /\ gc = Idle
    /\ gc' = p
    /\ fresh' = (p \notin marking)
    /\ IF p \in marking THEN UNCHANGED vars ELSE MarkPrepare(p)

Mark(p) ==
    /\ gc = p
    /\ \E n \in Nodes : MarkGrays(p, n)
    /\ UNCHANGED <<gc, fresh>>

Return(p) ==
    /\ gc = p
    /\ Sweep(p)
    /\ gc' = Idle
    /\ fresh' = FALSE

GcStep == \E p \in Partitions : Mark(p) \/ Return(p)

\* What the host does between two calls, the incremental steps included.
Between ==
    /\ gc = Idle
    /\ Next
    /\ UNCHANGED <<gc, fresh>>

GcNext == Between \/ GcStep \/ \E p \in Partitions : Call(p)

\* The loop of garbage_collect runs on the caller's thread: once called, it steps.
GcSpec == GcInit /\ [][GcNext]_gcVars /\ WF_gcVars(GcStep)

-----------------------------------------------------------------------------

\* A collection that starts outside a cycle leaves in the partition exactly the
\* nodes that roots and locals lead to: no garbage floats.
CollectsAllGarbage ==
    [][\A p \in Partitions : gc = p /\ fresh /\ gc' = Idle
         => Chain(p)' = {n \in Promise!Reachable : Home[n] = p}]_gcVars

\* What makes it so: a collection that started outside a cycle has shaded only what
\* is reachable, and the host, which could drop references, does not run.
ShadedReachable ==
    \A p \in Partitions : gc = p /\ fresh =>
        /\ p \in marking
        /\ \A n \in Chain(p) : color[n] # "White" => n \in Promise!Reachable

GcInv == IInv /\ ShadedReachable

\* garbage_collect returns: the marking loop cannot re-gray what it blackened.
Terminates == \A p \in Partitions : gc = p ~> gc = Idle
=============================================================================
