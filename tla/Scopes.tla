-------------------------------- MODULE Scopes --------------------------------
(***************************************************************************)
(* Scope stacks: the LOCAL flags that protect a node from collection, and  *)
(* the caches that remember which scope is to take each flag back.  A      *)
(* stack belongs to a partition from acquire_scope_stack until             *)
(* release_scope_stack; its scopes open and close in LIFO order; every     *)
(* open scope, not just the top one, can be used through its handle.  A    *)
(* scope made with GcScopeState::new is on no stack.                       *)
(*                                                                         *)
(* References and marking are left out: `held` is the set of nodes some    *)
(* protected node refers to, which the host changes as it likes, and a     *)
(* collection may free any node neither protected nor held.                *)
(*                                                                         *)
(* A cache is a set: a node is never pushed twice, since the host does not *)
(* put a node back in a scope that it called clear_local_flag for.         *)
(***************************************************************************)
EXTENDS Naturals, Sequences, FiniteSets

CONSTANTS
    Nodes, Partitions,
    Home,       \* partition_id of a node
    None,       \* partition of an idle stack
    MaxStacks,  \* bound: stacks ever needed at once
    MaxDepth,   \* bound: open scopes of a stack
    Rescopes    \* may a node whose flag was cleared get a second scope?

ASSUME ScopesAssumption ==
    /\ Home \in [Nodes -> Partitions]
    /\ None \notin Partitions
    /\ MaxStacks \in Nat \ {0} /\ MaxDepth \in Nat \ {0}
    /\ Rescopes \in BOOLEAN

VARIABLES
    alive,   \* nodes allocated and not freed
    root,    \* nodes with the ROOT flag
    local,   \* nodes with the LOCAL flag
    held,    \* nodes some other node keeps alive
    owner,   \* ScopeStack.partition
    caches   \* ScopeStack.list: the caches of its open scopes, the oldest first,
             \* and at NoStack that of the scope that is on no stack.
             \* An entry <<n, TRUE>> is one clear_local_flag was called for: the
             \* code does not know, the contract of clear_local_flag speaks of it

vars == <<alive, root, local, held, owner, caches>>

Stacks == 1..MaxStacks
NoStack == 0
AllStacks == Stacks \union {NoStack}
Protected == root \union local
Open == {s \in AllStacks \X (1..MaxDepth) : s[2] <= Len(caches[s[1]])}
Entries(s) == caches[s[1]][s[2]]
NodesOf(E) == {e[1] : e \in E}
Cache(s) == NodesOf(Entries(s))
OwnedBy(p) == {k \in Stacks : owner[k] = p}

\* The caches after those of the scopes in C became f.
WithCaches(C, f(_)) ==
    [k \in AllStacks |-> [i \in 1..Len(caches[k]) |->
        IF <<k, i>> \in C THEN f(<<k, i>>) ELSE caches[k][i]]]

Init ==
    /\ alive = {} /\ root = {} /\ local = {} /\ held = {}
    /\ owner = [k \in AllStacks |-> None]
    /\ caches = [k \in AllStacks |-> <<>>]

-----------------------------------------------------------------------------
(* Stacks and scopes.                                                      *)

\* The idle stack with the least id.
AcquireScopeStack(p) ==
    \E k \in OwnedBy(None) :
        /\ \A j \in OwnedBy(None) : k <= j
        /\ owner' = [owner EXCEPT ![k] = p]
        /\ UNCHANGED <<alive, root, local, held, caches>>

ReleaseScopeStack(k) ==
    /\ owner[k] # None
    /\ caches[k] = <<>>
    /\ owner' = [owner EXCEPT ![k] = None]
    /\ UNCHANGED <<alive, root, local, held, caches>>

NewScope(k) ==
    /\ owner[k] # None
    /\ Len(caches[k]) < MaxDepth
    /\ caches' = [caches EXCEPT ![k] = Append(@, {})]
    /\ UNCHANGED <<alive, root, local, held, owner>>

\* GcScopeState::new.  It borrows the heap, so there is one at a time.
NewDetached(p) ==
    /\ caches[NoStack] = <<>>
    /\ owner' = [owner EXCEPT ![NoStack] = p]
    /\ caches' = [caches EXCEPT ![NoStack] = << {} >>]
    /\ UNCHANGED <<alive, root, local, held>>

\* The handle goes out of scope, also when with_new_scope unwinds: pop, and
\* GcScopeState's Drop clears.
DropScope(k) ==
    /\ caches[k] # <<>>
    /\ local' = local \ NodesOf(caches[k][Len(caches[k])])
    /\ caches' = [caches EXCEPT ![k] = SubSeq(@, 1, Len(@) - 1)]
    /\ owner' = IF k = NoStack THEN [owner EXCEPT ![k] = None] ELSE owner
    /\ UNCHANGED <<alive, root, held>>

Clear(s) ==
    /\ local' = local \ Cache(s)
    /\ caches' = WithCaches({s}, LAMBDA t : {})
    /\ UNCHANGED <<alive, root, held, owner>>

-----------------------------------------------------------------------------
(* Nodes in scopes.                                                        *)

\* add_node: set the flag, remember the node.
AddNode(s, n) ==
    /\ local' = local \union {n}
    /\ caches' = WithCaches({s}, LAMBDA t : Entries(t) \union {<<n, FALSE>>})

AllocLocal(s, n) ==
    /\ n \notin alive
    /\ Home[n] = owner[s[1]]
    /\ alive' = alive \union {n}
    /\ AddNode(s, n)
    /\ UNCHANGED <<root, held, owner>>

\* The scope is one of n's partition.
AddNonLocal(s, n) ==
    /\ n \in alive \ Protected
    /\ \A t \in Open : n \in Cache(t) => Rescopes /\ t # s
    /\ Home[n] = owner[s[1]]
    /\ AddNode(s, n)
    /\ UNCHANGED <<alive, root, held, owner>>

\* protect_node and protect_nodes: those of S that nothing protects yet go to the
\* top scope of the stack; without one none does.
ProtectNodes(k, S) ==
    /\ caches[k] # <<>>
    /\ S \subseteq alive
    /\ \A n \in S : Home[n] = owner[k]
    /\ \A n \in S \ Protected, t \in Open : n \in Cache(t) => Rescopes /\ t # <<k, Len(caches[k])>>
    /\ local' = local \union (S \ Protected)
    /\ caches' = [caches EXCEPT ![k][Len(caches[k])] = @ \union ((S \ Protected) \X {FALSE})]
    /\ UNCHANGED <<alive, root, held, owner>>

RemoveNode(s, n) ==
    /\ n \in Cache(s)
    /\ local' = local \ {n}
    /\ caches' = WithCaches({s}, LAMBDA t : {e \in Entries(t) : e[1] # n})
    /\ UNCHANGED <<alive, root, held, owner>>

\* Defect: the node stays in the cache it is moved from.
PromoteCopies(s, t, n) ==
    /\ n \in Cache(s) \intersect local
    /\ s # t /\ owner[s[1]] = owner[t[1]]
    /\ caches' = WithCaches({t}, LAMBDA u : Entries(u) \union {<<n, FALSE>>})
    /\ UNCHANGED <<alive, root, local, held, owner>>

\* promote_node_to: between scopes of one partition.
PromoteNodeTo(s, t, n) ==
    /\ n \in Cache(s) \intersect local
    /\ s # t /\ owner[s[1]] = owner[t[1]]
    /\ caches' = WithCaches({s, t}, LAMBDA u :
                    IF u = t THEN Entries(u) \union {<<n, FALSE>>}
                    ELSE {e \in Entries(u) : e[1] # n})
    /\ UNCHANGED <<alive, root, local, held, owner>>

\* clear_local_flag leaves the cache alone.  Its contract: something else keeps
\* the node alive until the scope is gone.
ClearLocalFlag(n) ==
    /\ n \in local \intersect held
    /\ local' = local \ {n}
    /\ caches' = WithCaches(Open, LAMBDA t : {<<e[1], e[2] \/ e[1] = n>> : e \in Entries(t)})
    /\ UNCHANGED <<alive, root, held, owner>>

-----------------------------------------------------------------------------
(* The rest of the heap.                                                   *)

\* alloc_raw and alloc_root_raw.
AllocNode(n, isRoot) ==
    /\ n \notin alive
    /\ alive' = alive \union {n}
    /\ root' = IF isRoot THEN root \union {n} ELSE root
    /\ UNCHANGED <<local, held, owner, caches>>

SetRootNode(n) ==
    /\ n \in alive \ root
    /\ root' = root \union {n}
    /\ UNCHANGED <<alive, local, held, owner, caches>>

\* A reference to n is stored, or the last one dropped, which the contract of
\* clear_local_flag forbids as long as the scope is there.
Hold(n) ==
    /\ n \in alive \ held
    /\ held' = held \union {n}
    /\ UNCHANGED <<alive, root, local, owner, caches>>

LetGo(n) ==
    /\ n \in held
    /\ \A s \in Open : <<n, TRUE>> \notin Entries(s)
    /\ held' = held \ {n}
    /\ UNCHANGED <<alive, root, local, owner, caches>>

\* Defect: LOCAL flags of freed nodes are kept.
FreeButLocal(S) ==
    /\ alive' = alive \ S
    /\ root' = root \ S
    /\ held' = held \ S
    /\ local' = local

\* What is common to all ways a node is freed.
Free(S) ==
    /\ alive' = alive \ S
    /\ root' = root \ S
    /\ held' = held \ S
    /\ local' = local \ S

\* The sweep of p frees white nodes, which have no flag and no referrer.
Collect(p, S) ==
    /\ S # {}
    /\ S \subseteq {n \in alive \ (Protected \union held) : Home[n] = p}
    /\ Free(S)
    /\ UNCHANGED <<owner, caches>>

\* Defect: a removed partition's caches are not cleared.
RemovePartitionOnly(p) ==
    /\ owner[NoStack] # p
    /\ Free({n \in alive : Home[n] = p})
    /\ UNCHANGED <<owner, caches>>

\* finalize_partition_prepare clears the caches of p's stacks, which stay
\* acquired and open; dealloc_partition frees the nodes.  A scope that is on no
\* stack is not found, and the host has dropped it.
RemovePartition(p) ==
    /\ owner[NoStack] # p
    /\ Free({n \in alive : Home[n] = p})
    /\ caches' = WithCaches({s \in Open : s[1] \in OwnedBy(p)}, LAMBDA t : {})
    /\ UNCHANGED owner

-----------------------------------------------------------------------------

UseStacks ==
    \/ \E p \in Partitions : AcquireScopeStack(p) \/ NewDetached(p)
    \/ \E k \in Stacks : ReleaseScopeStack(k) \/ NewScope(k)
    \/ \E k \in AllStacks : DropScope(k)

UseScopes ==
    \/ \E s \in Open : Clear(s)
    \/ \E s \in Open, n \in Nodes : AllocLocal(s, n) \/ AddNonLocal(s, n) \/ RemoveNode(s, n)
    \/ \E k \in Stacks, S \in SUBSET Nodes : ProtectNodes(k, S)
    \/ \E s, t \in Open, n \in Nodes : PromoteNodeTo(s, t, n)
    \/ \E n \in Nodes : ClearLocalFlag(n)

UseHeap ==
    \/ \E n \in Nodes, isRoot \in BOOLEAN : AllocNode(n, isRoot)
    \/ \E n \in Nodes : SetRootNode(n) \/ Hold(n) \/ LetGo(n)
    \/ \E p \in Partitions, S \in SUBSET Nodes : Collect(p, S)
    \/ \E p \in Partitions : RemovePartition(p)

Next == UseStacks \/ UseScopes \/ UseHeap

Spec == Init /\ [][Next]_vars

-----------------------------------------------------------------------------

TypeOK ==
    /\ alive \in SUBSET Nodes
    /\ root \in SUBSET alive /\ local \in SUBSET alive /\ held \in SUBSET alive
    /\ owner \in [AllStacks -> Partitions \union {None}]
    /\ DOMAIN caches = AllStacks
    /\ \A k \in AllStacks : Len(caches[k]) <= MaxDepth
    /\ \A s \in Open : Entries(s) \subseteq Nodes \X BOOLEAN

\* A scope is cleared through the pointers in its cache: they must not outlive
\* their nodes, whatever was removed, promoted or torn down before.
CachedAlive == \A s \in Open : Cache(s) \subseteq alive

\* A LOCAL flag has exactly one scope that will take it back.  With none the
\* node is never collected, with two it loses its protection too early.
OneCache ==
    \A n \in alive :
        /\ Cardinality({s \in Open : n \in Cache(s)}) <= 1
        /\ n \in local => \E s \in Open : n \in Cache(s)
=============================================================================
