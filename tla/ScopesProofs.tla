----------------------------- MODULE ScopesProofs -----------------------------
(***************************************************************************)
(* Theorems about scope stacks, for any nodes, partitions, stacks and      *)
(* depth, when no node whose flag clear_local_flag took gets a second      *)
(* scope (~Rescopes; ScopesThrow shows what happens when one does): no     *)
(* scope has a freed node in its cache, and each LOCAL flag has exactly    *)
(* one scope that takes it back.                                           *)
(***************************************************************************)
EXTENDS Scopes, FiniteSetTheorems, TLAPS

CacheEntries == SUBSET (Nodes \X BOOLEAN)

\* An idle stack has no open scope, and there is one scope on no stack at most.
Shape ==
    /\ alive \in SUBSET Nodes
    /\ root \in SUBSET alive /\ local \in SUBSET alive /\ held \in SUBSET alive
    /\ owner \in [AllStacks -> Partitions \union {None}]
    /\ caches \in [AllStacks -> Seq(CacheEntries)]
    /\ \A k \in AllStacks : Len(caches[k]) <= MaxDepth
    /\ \A k \in AllStacks : owner[k] = None => Len(caches[k]) = 0
    /\ Len(caches[NoStack]) <= 1

\* A scope protects nodes of its own partition: when that one goes, so do the
\* entries.
AtHome == \A s \in Open : \A e \in Entries(s) : Home[e[1]] = owner[s[1]]

\* An entry's node has its flag, or clear_local_flag took it and something holds it.
KeptAlive ==
    \A s \in Open : \A e \in Entries(s) : e[1] \in (IF e[2] THEN held ELSE local)

\* Two scopes never cache the same node: one of them would take the other's flag.
Unshared ==
    \A s, t \in Open : \A d \in Entries(s), e \in Entries(t) : d[1] = e[1] => s = t

\* Some scope takes each flag back.
Flagged == \A n \in local : \E s \in Open : \E e \in Entries(s) : e[1] = n

IInv ==
    /\ Shape
    /\ AtHome
    /\ KeptAlive
    /\ Unshared
    /\ Flagged

-----------------------------------------------------------------------------
(* The sequences of caches, and the scopes that are open.                  *)

\* A function from 1..n is a sequence of length n.
LEMMA SequenceOf ==
  ASSUME NEW T, NEW n \in Nat, NEW f \in [1..n -> T]
  PROVE  f \in Seq(T) /\ Len(f) = n
OBVIOUS

\* NoStack is a stack number that no stack has.
LEMMA StackNumbers == NoStack \in AllStacks /\ Stacks \subseteq AllStacks /\ NoStack \notin Stacks
BY ScopesAssumption DEF NoStack, AllStacks, Stacks

\* An open scope is a place in a stack.
LEMMA OpenScopes ==
  ASSUME Shape
  PROVE  /\ \A s \in Open : /\ s[1] \in AllStacks /\ s[2] \in 1..Len(caches[s[1]])
                            /\ s = <<s[1], s[2]>>
                            /\ Entries(s) \in CacheEntries
                            /\ owner[s[1]] \in Partitions
         /\ \A k \in AllStacks : /\ Len(caches[k]) \in Nat
                                 /\ DOMAIN caches[k] = 1..Len(caches[k])
                                 /\ \A i \in 1..Len(caches[k]) : <<k, i>> \in Open
<1>1. ASSUME NEW k \in AllStacks
      PROVE  /\ Len(caches[k]) \in Nat /\ DOMAIN caches[k] = 1..Len(caches[k])
             /\ caches[k] \in Seq(CacheEntries)
  BY DEF Shape
<1>2. ASSUME NEW k \in AllStacks, NEW i \in 1..Len(caches[k])
      PROVE  <<k, i>> \in Open
  BY <1>1, ScopesAssumption DEF Open, Shape
<1>3. ASSUME NEW s \in Open
      PROVE  /\ s[1] \in AllStacks /\ s[2] \in 1..Len(caches[s[1]])
             /\ s = <<s[1], s[2]>>
  BY <1>1, ScopesAssumption DEF Open
<1>4. ASSUME NEW s \in Open
      PROVE  Entries(s) \in CacheEntries /\ owner[s[1]] \in Partitions
  <2>1. caches[s[1]][s[2]] \in CacheEntries
    BY <1>1, <1>3
  <2>2. owner[s[1]] # None
    BY <1>1, <1>3 DEF Shape
  <2> QED
    BY <1>3, <2>1, <2>2 DEF Entries, Shape
<1> QED
  BY <1>1, <1>2, <1>3, <1>4

\* What an operation on caches leaves: the same scopes, with entries g.
LEMMA Rewritten ==
  ASSUME Shape, NEW g, \A s \in Open : g[s] \in CacheEntries,
         caches' = [k \in AllStacks |-> [i \in 1..Len(caches[k]) |-> g[<<k, i>>]]]
  PROVE  /\ Open' = Open
         /\ \A s \in Open : Entries(s)' = g[s]
         /\ caches' \in [AllStacks -> Seq(CacheEntries)]
         /\ \A k \in AllStacks : Len(caches'[k]) = Len(caches[k])
<1>1. ASSUME NEW k \in AllStacks
      PROVE  /\ caches'[k] \in Seq(CacheEntries)
             /\ Len(caches'[k]) = Len(caches[k])
  <2>1. caches'[k] \in [1..Len(caches[k]) -> CacheEntries] /\ Len(caches[k]) \in Nat
    BY OpenScopes
  <2> QED
    BY <2>1, SequenceOf
<1>2. Open' = Open
  BY <1>1 DEF Open
<1>3. ASSUME NEW s \in Open PROVE Entries(s)' = g[s]
  <2>1. caches'[s[1]][s[2]] = g[<<s[1], s[2]>>]
    BY OpenScopes
  <2> QED
    BY <2>1, OpenScopes DEF Entries
<1> QED
  BY <1>1, <1>2, <1>3

-----------------------------------------------------------------------------
(* Operations on the entries of open scopes.                               *)

\* What such an operation has to keep when it gives the open scopes the entries g.
Keeps(g) ==
    /\ owner' = owner /\ alive' \in SUBSET Nodes
    /\ root' \in SUBSET alive' /\ local' \in SUBSET alive' /\ held' \in SUBSET alive'
    /\ \A s \in Open : g[s] \in CacheEntries
    /\ \A s \in Open : \A e \in g[s] :
           Home[e[1]] = owner[s[1]] /\ e[1] \in (IF e[2] THEN held' ELSE local')
    /\ \A s, t \in Open : \A d \in g[s], e \in g[t] : d[1] = e[1] => s = t
    /\ \A n \in local' : \E s \in Open : \E e \in g[s] : e[1] = n

\* Entries change in place: no scope is opened or closed.
LEMMA RewriteIInv ==
  ASSUME Shape, NEW g, Keeps(g),
         caches' = [k \in AllStacks |-> [i \in 1..Len(caches[k]) |-> g[<<k, i>>]]]
  PROVE  IInv'
<1>1. /\ Open' = Open
      /\ \A s \in Open : Entries(s)' = g[s]
      /\ caches' \in [AllStacks -> Seq(CacheEntries)]
      /\ \A k \in AllStacks : Len(caches'[k]) = Len(caches[k])
  BY Rewritten DEF Keeps
<1>2. Shape'
  BY <1>1, StackNumbers DEF Shape, Keeps
<1>3. AtHome' /\ KeptAlive' /\ Unshared' /\ Flagged'
  BY <1>1 DEF AtHome, KeptAlive, Unshared, Flagged, Keeps
<1> QED
  BY <1>2, <1>3 DEF IInv

\* WithCaches rewrites the entries of the scopes in a set.
LEMMA CachedNodes ==
  ASSUME IInv, NEW s \in Open
  PROVE  /\ \A n : n \in Cache(s) <=> \E e \in Entries(s) : e[1] = n
         /\ \A e \in Entries(s) : /\ e[1] \in Nodes /\ e[2] \in BOOLEAN
                                  /\ e = <<e[1], e[2]>> /\ e[1] \in alive
         /\ Cache(s) \subseteq alive
<1>1. Entries(s) \in SUBSET (Nodes \X BOOLEAN)
  BY OpenScopes DEF CacheEntries, IInv
<1>2. \A n : n \in Cache(s) <=> \E e \in Entries(s) : e[1] = n
  BY DEF Cache, NodesOf
<1>3. \A e \in Entries(s) : e[1] \in alive
  BY <1>1 DEF IInv, KeptAlive, Shape
<1> QED
  BY <1>1, <1>2, <1>3

\* GcScopeState::clear takes the flags its own cache has, no other scope's.
LEMMA ClearIInv ==
  ASSUME IInv, NEW s \in Open, Clear(s)
  PROVE  IInv'
<1> DEFINE g == [t \in Open |-> IF t = s THEN {} ELSE Entries(t)]
<1>1. caches' = [k \in AllStacks |-> [i \in 1..Len(caches[k]) |-> g[<<k, i>>]]]
  BY OpenScopes DEF Clear, WithCaches, Entries, IInv
<1>2. local' = local \ Cache(s) /\ UNCHANGED <<alive, root, held, owner>>
  BY DEF Clear
<1>3. /\ \A t \in Open : g[t] = IF t = s THEN {} ELSE Entries(t)
      /\ \A t \in Open : Entries(t) \in CacheEntries
  BY OpenScopes DEF IInv
<1> HIDE DEF g
<1>4. \A t \in Open : g[t] \in CacheEntries
  BY <1>3 DEF CacheEntries
<1>5. \A t \in Open : \A e \in g[t] :
          Home[e[1]] = owner[t[1]] /\ e[1] \in (IF e[2] THEN held' ELSE local')
  BY <1>2, <1>3, CachedNodes DEF IInv, AtHome, KeptAlive, Unshared
<1>6. \A t, u \in Open : \A d \in g[t], e \in g[u] : d[1] = e[1] => t = u
  BY <1>3 DEF IInv, Unshared
<1>7. \A n \in local' : \E t \in Open : \E e \in g[t] : e[1] = n
  <2> TAKE n \in local'
  <2>1. PICK t \in Open : \E e \in Entries(t) : e[1] = n
    BY <1>2 DEF IInv, Flagged
  <2>2. t # s
    BY <1>2, <2>1, CachedNodes
  <2> QED
    BY <1>3, <2>1, <2>2
<1>8. /\ alive' \in SUBSET Nodes /\ root' \in SUBSET alive'
      /\ local' \in SUBSET alive' /\ held' \in SUBSET alive'
  BY <1>2 DEF IInv, Shape
<1>20. Keeps(g)
  BY <1>2, <1>4, <1>5, <1>6, <1>7, <1>8 DEF Keeps
<1> QED
  BY <1>1, <1>20, RewriteIInv DEF IInv

\* The entries of nodes that are put in a cache.
LEMMA PairsWith ==
  ASSUME NEW S, NEW b
  PROVE  /\ \A e \in S \X {b} : e[1] \in S /\ e[2] = b
         /\ \A n \in S : \E e \in S \X {b} : e[1] = n
<1>1. ASSUME NEW n \in S PROVE \E e \in S \X {b} : e[1] = n
  <2>1. <<n, b>> \in S \X {b} /\ <<n, b>>[1] = n
    OBVIOUS
  <2> QED
    BY <2>1
<1> QED
  BY <1>1

\* The entries that are put in are of nodes, and not promoted.
LEMMA NewEntries ==
  ASSUME NEW S \in SUBSET Nodes
  PROVE  /\ S \X {FALSE} \in CacheEntries
         /\ \A e \in S \X {FALSE} : e[1] \in S /\ ~e[2]
         /\ \A n \in S : \E e \in S \X {FALSE} : e[1] = n
<1>1. \A e \in S \X {FALSE} : e[1] \in S /\ e[2] = FALSE
  BY PairsWith, Zenon
<1>2. \A e \in S \X {FALSE} : ~e[2]
  BY <1>1, Zenon
<1>3. S \X {FALSE} \in CacheEntries
  BY DEF CacheEntries
<1>4. ASSUME NEW n \in S PROVE \E e \in S \X {FALSE} : e[1] = n
  <2>1. <<n, FALSE>> \in S \X {FALSE} /\ <<n, FALSE>>[1] = n
    OBVIOUS
  <2> QED
    BY <2>1
<1> QED
  BY <1>1, <1>2, <1>3, <1>4, Zenon

\* A node in no cache is put in one, by whatever operation.
LEMMA AddIInv ==
  ASSUME IInv, NEW s \in Open, NEW S \in SUBSET Nodes,
         \A n \in S : Home[n] = owner[s[1]] /\ \A t \in Open : n \notin Cache(t),
         caches' = [k \in AllStacks |-> [i \in 1..Len(caches[k]) |->
                        IF <<k, i>> = s THEN Entries(s) \union (S \X {FALSE}) ELSE caches[k][i]]],
         local' = local \union S, S \subseteq alive', alive \subseteq alive',
         alive' \in SUBSET Nodes, UNCHANGED <<root, held, owner>>
  PROVE  IInv'
<1> DEFINE F == S \X {FALSE}
           g == [t \in Open |-> IF t = s THEN Entries(s) \union F ELSE Entries(t)]
<1>1. caches' = [k \in AllStacks |-> [i \in 1..Len(caches[k]) |-> g[<<k, i>>]]]
  BY OpenScopes DEF Entries, IInv
<1>2. /\ \A t \in Open : g[t] = IF t = s THEN Entries(s) \union F ELSE Entries(t)
      /\ \A t \in Open : Entries(t) \in CacheEntries
  BY OpenScopes DEF IInv
<1>3. /\ F \in CacheEntries
      /\ \A e \in F : e[1] \in S /\ ~e[2]
      /\ \A n \in S : \E e \in F : e[1] = n
  BY NewEntries
<1> HIDE DEF F, g
<1>4. \A t \in Open : g[t] \in CacheEntries
  BY <1>2, <1>3 DEF CacheEntries
<1>5. \A t \in Open : \A e \in g[t] :
          Home[e[1]] = owner[t[1]] /\ e[1] \in (IF e[2] THEN held' ELSE local')
  BY <1>2, <1>3 DEF IInv, AtHome, KeptAlive
<1>6. \A t \in Open : \A e \in Entries(t) : e[1] \notin S
  BY CachedNodes
<1>7. \A t, u \in Open : \A d \in g[t], e \in g[u] : d[1] = e[1] => t = u
  BY <1>2, <1>3, <1>6 DEF IInv, Unshared
<1>8. ASSUME NEW n \in local' PROVE \E t \in Open : \E e \in g[t] : e[1] = n
  <2>1. CASE n \in S
    <3>1. PICK e \in F : e[1] = n
      BY <1>3, <2>1
    <3> QED
      BY <1>2, <3>1
  <2>2. CASE n \notin S
    <3>1. PICK t \in Open : \E e \in Entries(t) : e[1] = n
      BY <1>8, <2>2 DEF IInv, Flagged
    <3> QED
      BY <1>2, <3>1
  <2> QED
    BY <2>1, <2>2
<1>9. /\ root' \in SUBSET alive' /\ local' \in SUBSET alive' /\ held' \in SUBSET alive'
      /\ owner' = owner /\ Shape /\ alive' \in SUBSET Nodes
  BY DEF IInv, Shape
<1>20. Keeps(g)
  BY <1>4, <1>5, <1>7, <1>8, <1>9 DEF Keeps
<1> QED
  BY <1>1, <1>20, RewriteIInv DEF IInv

\* alloc_local and add_non_local.
LEMMA AddOneIInv ==
  ASSUME ~Rescopes, IInv, NEW s \in Open, NEW n \in Nodes,
         AllocLocal(s, n) \/ AddNonLocal(s, n)
  PROVE  IInv'
<1>1. /\ Home[n] = owner[s[1]] /\ \A t \in Open : n \notin Cache(t)
      /\ n \in alive' /\ alive \subseteq alive' /\ alive' \in SUBSET Nodes
      /\ AddNode(s, n) /\ UNCHANGED <<root, held, owner>>
  BY CachedNodes DEF AllocLocal, AddNonLocal, IInv, Shape
<1>2. local' = local \union {n}
  BY <1>1 DEF AddNode
<1>3. caches' = [k \in AllStacks |-> [i \in 1..Len(caches[k]) |->
                    IF <<k, i>> = s THEN Entries(s) \union ({n} \X {FALSE}) ELSE caches[k][i]]]
  <2>1. {n} \X {FALSE} = {<<n, FALSE>>}
    OBVIOUS
  <2> QED
    BY <1>1, <2>1 DEF AddNode, WithCaches
<1> DEFINE S == {n}
<1>4. /\ S \in SUBSET Nodes /\ S \subseteq alive'
      /\ \A m \in S : Home[m] = owner[s[1]] /\ \A t \in Open : m \notin Cache(t)
  BY <1>1
<1>5. /\ local' = local \union S
      /\ caches' = [k \in AllStacks |-> [i \in 1..Len(caches[k]) |->
                     IF <<k, i>> = s THEN Entries(s) \union (S \X {FALSE}) ELSE caches[k][i]]]
  BY <1>2, <1>3
<1> HIDE DEF S
<1> QED
  BY <1>1, <1>4, <1>5, AddIInv

\* protect_node and protect_nodes.
LEMMA ProtectIInv ==
  ASSUME ~Rescopes, IInv, NEW k \in Stacks, NEW S \in SUBSET Nodes, ProtectNodes(k, S)
  PROVE  IInv'
<1> DEFINE s == <<k, Len(caches[k])>>
           new == S \ Protected
<1>1. k \in AllStacks /\ caches[k] \in Seq(CacheEntries) /\ caches[k] # <<>>
  BY StackNumbers DEF ProtectNodes, IInv, Shape
<1>2. Len(caches[k]) \in 1..Len(caches[k]) /\ s \in Open /\ s[1] = k
      /\ Entries(s) = caches[k][Len(caches[k])]
  BY <1>1, OpenScopes DEF IInv, Entries
<1>3. /\ \A n \in new : Home[n] = owner[s[1]] /\ \A t \in Open : n \notin Cache(t)
      /\ local' = local \union new /\ UNCHANGED <<alive, root, held, owner>>
      /\ new \in SUBSET Nodes /\ new \subseteq alive
      /\ caches' = [caches EXCEPT ![k][Len(caches[k])] = @ \union (new \X {FALSE})]
  BY <1>2 DEF ProtectNodes
<1> HIDE DEF new
<1>4. caches' = [j \in AllStacks |-> [i \in 1..Len(caches[j]) |->
                    IF <<j, i>> = s THEN Entries(s) \union (new \X {FALSE}) ELSE caches[j][i]]]
  <2>1. caches \in [AllStacks -> Seq(CacheEntries)]
    BY DEF IInv, Shape
  <2>2. \A j \in AllStacks : caches'[j] = [i \in 1..Len(caches[j]) |->
            IF <<j, i>> = s THEN Entries(s) \union (new \X {FALSE}) ELSE caches[j][i]]
    <3> TAKE j \in AllStacks
    <3>1. caches[j] = [i \in 1..Len(caches[j]) |-> caches[j][i]]
      BY <2>1
    <3>2. CASE j # k
      BY <1>3, <2>1, <3>1, <3>2
    <3>3. CASE j = k
      <4>1. caches'[k] = [caches[k] EXCEPT ![Len(caches[k])] = @ \union (new \X {FALSE})]
        BY <1>1, <1>3, <2>1
      <4> QED
        BY <1>2, <3>1, <3>3, <4>1
    <3> QED
      BY <3>2, <3>3
  <2> QED
    BY <1>3, <2>1, <2>2
<1>5. alive \in SUBSET Nodes /\ alive' = alive
  BY <1>3 DEF IInv, Shape
<1> QED
  BY <1>2, <1>3, <1>4, <1>5, AddIInv

\* remove_node.
LEMMA RemoveIInv ==
  ASSUME IInv, NEW s \in Open, NEW n \in Nodes, RemoveNode(s, n)
  PROVE  IInv'
<1> DEFINE g == [t \in Open |-> IF t = s THEN {e \in Entries(s) : e[1] # n} ELSE Entries(t)]
<1>1. caches' = [k \in AllStacks |-> [i \in 1..Len(caches[k]) |-> g[<<k, i>>]]]
  BY OpenScopes DEF RemoveNode, WithCaches, Entries, IInv
<1>2. n \in Cache(s) /\ local' = local \ {n} /\ UNCHANGED <<alive, root, held, owner>>
  BY DEF RemoveNode
<1>3. /\ \A t \in Open : g[t] = IF t = s THEN {e \in Entries(s) : e[1] # n} ELSE Entries(t)
      /\ \A t \in Open : Entries(t) \in CacheEntries
  BY OpenScopes DEF IInv
<1> HIDE DEF g
<1>4. \A t \in Open : g[t] \in CacheEntries
  BY <1>3 DEF CacheEntries
<1>10. \A t \in Open : t # s => \A e \in Entries(t) : e[1] # n
  BY <1>2, CachedNodes DEF IInv, Unshared
<1>5. \A t \in Open : \A e \in g[t] : e[1] # n /\ e \in Entries(t)
  BY <1>3, <1>10
<1>6. \A t \in Open : \A e \in g[t] :
          Home[e[1]] = owner[t[1]] /\ e[1] \in (IF e[2] THEN held' ELSE local')
  BY <1>2, <1>5 DEF IInv, AtHome, KeptAlive
<1>7. \A t, u \in Open : \A d \in g[t], e \in g[u] : d[1] = e[1] => t = u
  BY <1>5 DEF IInv, Unshared
<1>8. \A m \in local' : \E t \in Open : \E e \in g[t] : e[1] = m
  <2> TAKE m \in local'
  <2>1. PICK t \in Open : \E e \in Entries(t) : e[1] = m
    BY <1>2 DEF IInv, Flagged
  <2> QED
    BY <1>2, <1>3, <2>1
<1>9. /\ alive' \in SUBSET Nodes /\ root' \in SUBSET alive'
      /\ local' \in SUBSET alive' /\ held' \in SUBSET alive'
  BY <1>2 DEF IInv, Shape
<1>20. Keeps(g)
  BY <1>2, <1>4, <1>6, <1>7, <1>8, <1>9 DEF Keeps
<1> QED
  BY <1>1, <1>20, RewriteIInv DEF IInv

\* promote_node_to moves entry and responsibility.
LEMMA PromoteIInv ==
  ASSUME IInv, NEW s \in Open, NEW t \in Open, NEW n \in Nodes, PromoteNodeTo(s, t, n)
  PROVE  IInv'
<1> DEFINE F == {n} \X {FALSE}
           g == [u \in Open |-> IF u = t THEN Entries(t) \union F
                                ELSE IF u = s THEN {e \in Entries(s) : e[1] # n}
                                ELSE Entries(u)]
<1>1. caches' = [k \in AllStacks |-> [i \in 1..Len(caches[k]) |-> g[<<k, i>>]]]
  <2>1. F = {<<n, FALSE>>}
    OBVIOUS
  <2> HIDE DEF F
  <2> QED
    BY <2>1, OpenScopes DEF PromoteNodeTo, WithCaches, Entries, IInv
<1>2. /\ n \in Cache(s) /\ n \in local /\ s # t /\ owner[s[1]] = owner[t[1]]
      /\ UNCHANGED <<alive, root, local, held, owner>>
  BY DEF PromoteNodeTo
<1>3. /\ g[t] = Entries(t) \union F /\ g[s] = {e \in Entries(s) : e[1] # n}
      /\ \A u \in Open : u # s /\ u # t => g[u] = Entries(u)
      /\ \A u \in Open : Entries(u) \in CacheEntries
  BY <1>2, OpenScopes DEF IInv
<1>11. /\ F \in CacheEntries
       /\ \A e \in F : e[1] = n /\ ~e[2]
       /\ \E e \in F : e[1] = n
  BY NewEntries
<1> HIDE DEF F, g
<1>4. \A u \in Open : g[u] \in CacheEntries
  BY <1>3, <1>11 DEF CacheEntries
<1>5. \A u \in Open : u # s => \A e \in Entries(u) : e[1] # n
  BY <1>2, CachedNodes DEF IInv, Unshared
<1>6. \A u \in Open : \A e \in g[u] :
          \/ e[1] # n /\ e \in Entries(u)
          \/ e \in F /\ u = t
  <2> TAKE u \in Open
  <2> TAKE e \in g[u]
  <2>1. CASE u = t
    BY <1>2, <1>3, <1>5, <2>1
  <2>2. CASE u = s
    BY <1>2, <1>3, <2>2
  <2>3. CASE u # s /\ u # t
    BY <1>3, <1>5, <2>3
  <2> QED
    BY <2>1, <2>2, <2>3
<1>7. \A u \in Open : \A e \in g[u] :
          Home[e[1]] = owner[u[1]] /\ e[1] \in (IF e[2] THEN held' ELSE local')
  <2>1. Home[n] = owner[t[1]]
    BY <1>2, CachedNodes DEF IInv, AtHome
  <2> QED
    BY <1>2, <1>6, <1>11, <2>1 DEF IInv, AtHome, KeptAlive
<1>8. \A u, v \in Open : \A d \in g[u], e \in g[v] : d[1] = e[1] => u = v
  BY <1>6, <1>11 DEF IInv, Unshared
<1>9. ASSUME NEW m \in local' PROVE \E u \in Open : \E e \in g[u] : e[1] = m
  <2>1. CASE m = n
    BY <1>3, <1>11, <2>1
  <2>2. CASE m # n
    <3>1. PICK u \in Open : \E e \in Entries(u) : e[1] = m
      BY <1>2, <1>9 DEF IInv, Flagged
    <3> QED
      BY <1>3, <2>2, <3>1
  <2> QED
    BY <2>1, <2>2
<1>10. /\ alive' \in SUBSET Nodes /\ root' \in SUBSET alive'
       /\ local' \in SUBSET alive' /\ held' \in SUBSET alive'
  BY <1>2 DEF IInv, Shape
<1>20. Keeps(g)
  BY <1>2, <1>4, <1>7, <1>8, <1>9, <1>10 DEF Keeps
<1> QED
  BY <1>1, <1>20, RewriteIInv DEF IInv

\* clear_local_flag strips a flag and leaves the entries; the entries of the node now
\* rest on what holds it.
LEMMA ClearFlagIInv ==
  ASSUME IInv, NEW n \in Nodes, ClearLocalFlag(n)
  PROVE  IInv'
<1> DEFINE g == [t \in Open |-> {<<e[1], e[2] \/ e[1] = n>> : e \in Entries(t)}]
<1>1. caches' = [k \in AllStacks |-> [i \in 1..Len(caches[k]) |-> g[<<k, i>>]]]
  BY OpenScopes DEF ClearLocalFlag, WithCaches, Entries, IInv
<1>2. n \in held /\ local' = local \ {n} /\ UNCHANGED <<alive, root, held, owner>>
  BY DEF ClearLocalFlag
<1>3. ASSUME NEW t \in Open
      PROVE  /\ \A e \in g[t] : \E d \in Entries(t) :
                    e[1] = d[1] /\ (e[2] <=> d[2] \/ d[1] = n) /\ e = <<e[1], e[2]>>
                    /\ e[2] \in BOOLEAN /\ e[1] \in Nodes
             /\ \A d \in Entries(t) : \E e \in g[t] : e[1] = d[1]
  <2>1. \A e \in g[t] : \E d \in Entries(t) : e = <<d[1], d[2] \/ d[1] = n>>
    BY Zenon
  <2>2. \A d \in Entries(t) : <<d[1], d[2] \/ d[1] = n>> \in g[t]
    BY Zenon
  <2>3. \A d \in Entries(t) : LET e == <<d[1], d[2] \/ d[1] = n>> IN
            e[1] = d[1] /\ (e[2] <=> d[2] \/ d[1] = n) /\ e = <<e[1], e[2]>>
            /\ e[2] \in BOOLEAN /\ e[1] \in Nodes
    BY CachedNodes, Zenon
  <2> HIDE DEF g
  <2>4. ASSUME NEW e \in g[t]
        PROVE  \E d \in Entries(t) :
                    e[1] = d[1] /\ (e[2] <=> d[2] \/ d[1] = n) /\ e = <<e[1], e[2]>>
                    /\ e[2] \in BOOLEAN /\ e[1] \in Nodes
    <3>1. PICK d \in Entries(t) : e = <<d[1], d[2] \/ d[1] = n>>
      BY <2>1, Zenon
    <3>2. /\ e[1] = d[1] /\ (e[2] <=> d[2] \/ d[1] = n) /\ e = <<e[1], e[2]>>
          /\ e[2] \in BOOLEAN /\ e[1] \in Nodes
      BY <2>3, <3>1, Zenon
    <3> QED
      BY <3>2, Zenon
  <2>5. \A d \in Entries(t) : \E e \in g[t] : e[1] = d[1]
    BY <2>2, <2>3, Zenon
  <2> QED
    BY <2>4, <2>5
<1> HIDE DEF g
<1>4. \A t \in Open : g[t] \in CacheEntries
  BY <1>3 DEF CacheEntries
<1>5. \A t \in Open : \A e \in g[t] :
          Home[e[1]] = owner[t[1]] /\ e[1] \in (IF e[2] THEN held' ELSE local')
  BY <1>2, <1>3 DEF IInv, AtHome, KeptAlive
<1>6. \A t, u \in Open : \A d \in g[t], e \in g[u] : d[1] = e[1] => t = u
  BY <1>3 DEF IInv, Unshared
<1>7. \A m \in local' : \E t \in Open : \E e \in g[t] : e[1] = m
  BY <1>2, <1>3 DEF IInv, Flagged
<1>8. /\ alive' \in SUBSET Nodes /\ root' \in SUBSET alive'
      /\ local' \in SUBSET alive' /\ held' \in SUBSET alive'
  BY <1>2 DEF IInv, Shape
<1>20. Keeps(g)
  BY <1>2, <1>4, <1>5, <1>6, <1>7, <1>8 DEF Keeps
<1> QED
  BY <1>1, <1>20, RewriteIInv DEF IInv

\* finalize_partition_prepare clears the caches of the stacks of p, and by AtHome no
\* other open scope has a node of p.
LEMMA RemovePartitionIInv ==
  ASSUME IInv, NEW p \in Partitions, RemovePartition(p)
  PROVE  IInv'
<1> DEFINE S == {n \in alive : Home[n] = p}
           C == {s \in Open : s[1] \in OwnedBy(p)}
           g == [t \in Open |-> IF t \in C THEN {} ELSE Entries(t)]
<1>1. caches' = [k \in AllStacks |-> [i \in 1..Len(caches[k]) |-> g[<<k, i>>]]]
  BY OpenScopes DEF RemovePartition, WithCaches, Entries, IInv
<1>2. /\ alive' = alive \ S /\ root' = root \ S /\ held' = held \ S /\ local' = local \ S
      /\ owner' = owner /\ owner[NoStack] # p
  BY DEF RemovePartition, Free
<1>3. /\ \A t \in Open : g[t] = IF t \in C THEN {} ELSE Entries(t)
      /\ \A t \in Open : Entries(t) \in CacheEntries
  BY OpenScopes DEF IInv
<1>4. \A t \in Open : t \in C <=> owner[t[1]] = p
  BY <1>2, OpenScopes DEF IInv, OwnedBy, AllStacks
<1> HIDE DEF g, C
<1>5. \A t \in Open : g[t] \in CacheEntries
  BY <1>3 DEF CacheEntries
<1>6. \A t \in Open : \A e \in g[t] : e \in Entries(t) /\ e[1] \notin S
  BY <1>3, <1>4 DEF IInv, AtHome
<1>7. \A t \in Open : \A e \in g[t] :
          Home[e[1]] = owner[t[1]] /\ e[1] \in (IF e[2] THEN held' ELSE local')
  BY <1>2, <1>6 DEF IInv, AtHome, KeptAlive
<1>8. \A t, u \in Open : \A d \in g[t], e \in g[u] : d[1] = e[1] => t = u
  BY <1>6 DEF IInv, Unshared
<1>9. ASSUME NEW n \in local' PROVE \E t \in Open : \E e \in g[t] : e[1] = n
  <2>1. PICK t \in Open : \E e \in Entries(t) : e[1] = n
    BY <1>2, <1>9 DEF IInv, Flagged
  <2>2. n \in alive /\ Home[n] # p /\ Home[n] = owner[t[1]]
    BY <1>2, <1>9, <2>1 DEF IInv, AtHome, Shape
  <2> QED
    BY <1>3, <1>4, <2>1, <2>2
<1>10. /\ alive' \in SUBSET Nodes /\ root' \in SUBSET alive'
       /\ local' \in SUBSET alive' /\ held' \in SUBSET alive'
  BY <1>2 DEF IInv, Shape
<1>20. Keeps(g)
  BY <1>2, <1>5, <1>7, <1>8, <1>9, <1>10 DEF Keeps
<1> QED
  BY <1>1, <1>20, RewriteIInv DEF IInv

-----------------------------------------------------------------------------
(* Operations that leave caches alone.                                     *)

\* What is not cached may come and go.
LEMMA UncachedIInv ==
  ASSUME IInv, UNCHANGED <<owner, caches, local>>,
         alive' \in SUBSET Nodes, root' \in SUBSET alive',
         local \in SUBSET alive', held' \in SUBSET alive',
         \A s \in Open : \A e \in Entries(s) : e[2] => e[1] \in held'
  PROVE  IInv'
<1>1. Open' = Open /\ \A s \in Open : Entries(s)' = Entries(s)
  BY DEF Open, Entries
<1>2. Shape'
  BY DEF IInv, Shape
<1>3. AtHome' /\ KeptAlive' /\ Unshared' /\ Flagged'
  BY <1>1 DEF IInv, AtHome, KeptAlive, Unshared, Flagged
<1> QED
  BY <1>2, <1>3 DEF IInv

\* Allocation, roots and references.
LEMMA HeapIInv ==
  ASSUME IInv, NEW n \in Nodes,
         \/ \E isRoot \in BOOLEAN : AllocNode(n, isRoot)
         \/ SetRootNode(n) \/ Hold(n)
  PROVE  IInv'
<1>1. /\ UNCHANGED <<owner, caches, local>> /\ alive \subseteq alive' /\ held \subseteq held'
      /\ alive' \in SUBSET Nodes /\ root' \in SUBSET alive' /\ held' \in SUBSET alive'
  BY DEF AllocNode, SetRootNode, Hold, IInv, Shape
<1>2. local \in SUBSET alive'
  BY <1>1 DEF IInv, Shape
<1>3. \A s \in Open : \A e \in Entries(s) : e[2] => e[1] \in held'
  BY <1>1 DEF IInv, KeptAlive
<1> QED
  BY <1>1, <1>2, <1>3, UncachedIInv

\* The contract of clear_local_flag.
LEMMA LetGoIInv ==
  ASSUME IInv, NEW n \in Nodes, LetGo(n)
  PROVE  IInv'
<1>1. /\ UNCHANGED <<owner, caches, local, alive, root>> /\ held' = held \ {n}
      /\ \A s \in Open : <<n, TRUE>> \notin Entries(s)
  BY DEF LetGo
<1>2. ASSUME NEW s \in Open, NEW e \in Entries(s), e[2] PROVE e[1] \in held'
  <2>1. e = <<e[1], TRUE>>
    BY <1>2, CachedNodes, Zenon
  <2>2. e[1] # n
    BY <1>1, <2>1, Zenon
  <2>3. e[1] \in held
    BY <1>2 DEF IInv, KeptAlive
  <2> QED
    BY <1>1, <2>2, <2>3
<1>3. alive' \in SUBSET Nodes /\ root' \in SUBSET alive' /\ local \in SUBSET alive'
      /\ held' \in SUBSET alive'
  BY <1>1 DEF IInv, Shape
<1> QED
  BY <1>1, <1>2, <1>3, UncachedIInv

\* A sweep frees what has no flag and no referrer, so nothing that is cached.
LEMMA CollectIInv ==
  ASSUME IInv, NEW p \in Partitions, NEW S \in SUBSET Nodes, Collect(p, S)
  PROVE  IInv'
<1>1. /\ S \intersect (root \union local \union held) = {}
      /\ alive' = alive \ S /\ root' = root \ S /\ held' = held \ S /\ local' = local \ S
      /\ UNCHANGED <<owner, caches>>
  BY DEF Collect, Free, Protected
<1>2. local' = local /\ held' = held /\ root' = root
  BY <1>1
<1>3. alive' \in SUBSET Nodes /\ root' \in SUBSET alive' /\ local \in SUBSET alive'
      /\ held' \in SUBSET alive'
  BY <1>1, <1>2 DEF IInv, Shape
<1>4. \A s \in Open : \A e \in Entries(s) : e[2] => e[1] \in held'
  BY <1>2 DEF IInv, KeptAlive
<1> QED
  BY <1>1, <1>2, <1>3, <1>4, UncachedIInv

-----------------------------------------------------------------------------
(* Stacks and scopes come and go.                                          *)

\* Scopes open and close at the end of a stack; the others keep their entries.
LEMMA StackIInv ==
  ASSUME IInv, Shape', UNCHANGED <<alive, root, held>>,
         \A s \in Open' : \/ s \in Open /\ Entries(s)' = Entries(s)
                                        /\ owner'[s[1]] = owner[s[1]]
                          \/ s \notin Open /\ Entries(s)' = {},
         \A n : n \in local' <=>
             n \in local /\ \A s \in Open \ Open' : \A e \in Entries(s) : e[1] # n
  PROVE  IInv'
<1>1. ASSUME NEW s \in Open', NEW e \in Entries(s)'
      PROVE  /\ s \in Open /\ e \in Entries(s) /\ owner'[s[1]] = owner[s[1]]
             /\ Entries(s)' = Entries(s)
  OBVIOUS
<1>2. AtHome'
  BY <1>1 DEF IInv, AtHome
<1>3. KeptAlive'
  <2>1. ASSUME NEW s \in Open', NEW e \in Entries(s)', ~e[2] PROVE e[1] \in local'
    <3>1. e[1] \in local
      BY <1>1, <2>1 DEF IInv, KeptAlive
    <3>2. \A t \in Open \ Open' : \A d \in Entries(t) : d[1] # e[1]
      BY <1>1 DEF IInv, Unshared
    <3> QED
      BY <3>1, <3>2
  <2>2. ASSUME NEW s \in Open', NEW e \in Entries(s)', e[2] PROVE e[1] \in held'
    BY <1>1, <2>2 DEF IInv, KeptAlive
  <2> QED
    BY <2>1, <2>2 DEF KeptAlive
<1>4. Unshared'
  BY <1>1 DEF IInv, Unshared
<1>5. Flagged'
  <2>1. ASSUME NEW n \in local' PROVE \E s \in Open' : \E e \in Entries(s)' : e[1] = n
    <3>1. PICK s \in Open : \E e \in Entries(s) : e[1] = n
      BY <2>1 DEF IInv, Flagged
    <3>2. s \in Open'
      BY <2>1, <3>1
    <3> QED
      BY <3>1, <3>2
  <2> QED
    BY <2>1 DEF Flagged
<1> QED
  BY <1>2, <1>3, <1>4, <1>5 DEF IInv

\* acquire_scope_stack and release_scope_stack: idle stacks have no scope.
LEMMA OwnerIInv ==
  ASSUME IInv,
         \/ \E p \in Partitions : AcquireScopeStack(p)
         \/ \E k \in Stacks : ReleaseScopeStack(k)
  PROVE  IInv'
<1>1. PICK j \in Stacks : /\ Len(caches[j]) = 0
                          /\ \E q \in Partitions \union {None} : owner' = [owner EXCEPT ![j] = q]
                          /\ UNCHANGED <<alive, root, local, held, caches>>
  <2>1. ASSUME NEW p \in Partitions, AcquireScopeStack(p)
        PROVE  \E j \in Stacks : /\ owner[j] = None /\ owner' = [owner EXCEPT ![j] = p]
                                 /\ UNCHANGED <<alive, root, local, held, caches>>
    BY <2>1 DEF AcquireScopeStack, OwnedBy
  <2>2. ASSUME NEW k \in Stacks, ReleaseScopeStack(k)
        PROVE  /\ Len(caches[k]) = 0 /\ owner' = [owner EXCEPT ![k] = None]
               /\ UNCHANGED <<alive, root, local, held, caches>>
    BY <2>2 DEF ReleaseScopeStack
  <2> QED
    BY <2>1, <2>2, StackNumbers DEF IInv, Shape
<1>2. Open' = Open /\ \A s \in Open : Entries(s)' = Entries(s)
  BY <1>1 DEF Open, Entries
<1>3. \A s \in Open : s[1] # j /\ owner'[s[1]] = owner[s[1]]
  BY <1>1, OpenScopes DEF IInv, Shape
<1>4. Shape'
  BY <1>1, StackNumbers DEF IInv, Shape
<1> QED
  BY <1>1, <1>2, <1>3, <1>4, StackIInv

\* A scope opens with an empty cache.
LEMMA NewScopeIInv ==
  ASSUME IInv, NEW k \in AllStacks, UNCHANGED <<alive, root, local, held>>,
         owner' \in [AllStacks -> Partitions \union {None}], owner'[k] # None,
         \A j \in AllStacks \ {k} : owner'[j] = owner[j],
         owner'[k] = owner[k] \/ Len(caches[k]) = 0,
         k = NoStack => Len(caches[k]) = 0, Len(caches[k]) < MaxDepth,
         caches' = [caches EXCEPT ![k] = Append(caches[k], {})]
  PROVE  IInv'
<1>1. /\ caches \in [AllStacks -> Seq(CacheEntries)] /\ caches[k] \in Seq(CacheEntries)
      /\ {} \in CacheEntries /\ Len(caches[k]) \in Nat
  BY DEF IInv, Shape, CacheEntries
<1>2. /\ Append(caches[k], {}) \in Seq(CacheEntries)
      /\ Len(Append(caches[k], {})) = Len(caches[k]) + 1
      /\ \A i \in 1..Len(caches[k]) : Append(caches[k], {})[i] = caches[k][i]
      /\ Append(caches[k], {})[Len(caches[k]) + 1] = {}
  BY <1>1
<1>3. /\ \A j \in AllStacks \ {k} : caches'[j] = caches[j]
      /\ caches'[k] = Append(caches[k], {})
      /\ caches' \in [AllStacks -> Seq(CacheEntries)]
  BY <1>1, <1>2
<1>4. Shape'
  BY <1>2, <1>3, ScopesAssumption DEF IInv, Shape
<1>5. ASSUME NEW s \in Open'
      PROVE  \/ s \in Open /\ Entries(s)' = Entries(s) /\ owner'[s[1]] = owner[s[1]]
             \/ s \notin Open /\ Entries(s)' = {}
  <2>1. s \in AllStacks \X (1..MaxDepth) /\ s[1] \in AllStacks /\ s[2] \in 1..MaxDepth
        /\ s[2] <= Len(caches'[s[1]])
    BY DEF Open
  <2>2. CASE s[1] # k
    BY <1>3, <2>1, <2>2 DEF Open, Entries
  <2>3. CASE s[1] = k /\ s[2] <= Len(caches[k])
    BY <1>1, <1>2, <1>3, <2>1, <2>3, ScopesAssumption DEF Open, Entries
  <2>4. CASE s[1] = k /\ s[2] > Len(caches[k])
    <3>1. s[2] = Len(caches[k]) + 1
      BY <1>1, <1>2, <1>3, <2>1, <2>4, ScopesAssumption
    <3> QED
      BY <1>1, <1>2, <1>3, <2>4, <3>1 DEF Open, Entries
  <2> QED
    BY <1>1, <2>1, <2>2, <2>3, <2>4, ScopesAssumption
<1>6. Open \ Open' = {}
  <2>1. ASSUME NEW s \in Open PROVE s \in Open'
    <3>1. s[1] \in AllStacks /\ Len(caches[s[1]]) <= Len(caches'[s[1]])
          /\ Len(caches[s[1]]) \in Nat /\ Len(caches'[s[1]]) \in Nat
      BY <1>1, <1>2, <1>3, OpenScopes DEF IInv
    <3> QED
      BY <3>1, ScopesAssumption DEF Open
  <2> QED
    BY <2>1
<1> QED
  BY <1>4, <1>5, <1>6, StackIInv

\* new_scope and a detached scope put an empty cache on top.
LEMMA OpenIInv ==
  ASSUME IInv,
         \/ \E k \in Stacks : NewScope(k)
         \/ \E p \in Partitions : NewDetached(p)
  PROVE  IInv'
<1>1. ASSUME NEW k \in Stacks, NewScope(k) PROVE IInv'
  BY <1>1, StackNumbers, NewScopeIInv DEF NewScope, IInv, Shape
<1>2. ASSUME NEW p \in Partitions, NewDetached(p) PROVE IInv'
  <2>1. /\ Len(caches[NoStack]) = 0 /\ caches[NoStack] = <<>>
        /\ Append(caches[NoStack], {}) = << {} >>
    BY <1>2 DEF NewDetached
  <2>2. caches' = [caches EXCEPT ![NoStack] = Append(caches[NoStack], {})]
    BY <1>2, <2>1 DEF NewDetached
  <2>3. owner' = [owner EXCEPT ![NoStack] = p] /\ UNCHANGED <<alive, root, local, held>>
    BY <1>2 DEF NewDetached
  <2>4. /\ owner' \in [AllStacks -> Partitions \union {None}] /\ owner'[NoStack] # None
        /\ \A j \in AllStacks \ {NoStack} : owner'[j] = owner[j]
    BY <2>3, StackNumbers, ScopesAssumption DEF IInv, Shape
  <2>5. Len(caches[NoStack]) < MaxDepth
    BY <2>1, ScopesAssumption
  <2> QED
    BY <2>1, <2>2, <2>3, <2>4, <2>5, StackNumbers, NewScopeIInv
<1> QED
  BY <1>1, <1>2

\* A sequence without its last element.
LEMMA ShorterSequence ==
  ASSUME NEW T, NEW seq \in Seq(T), Len(seq) > 0
  PROVE  /\ SubSeq(seq, 1, Len(seq) - 1) \in Seq(T)
         /\ Len(SubSeq(seq, 1, Len(seq) - 1)) = Len(seq) - 1
         /\ \A i \in 1..(Len(seq) - 1) : SubSeq(seq, 1, Len(seq) - 1)[i] = seq[i]
<1> DEFINE n == Len(seq) - 1
<1>1. n \in Nat /\ seq \in [1..Len(seq) -> T] /\ 1..n \subseteq 1..Len(seq)
  OBVIOUS
<1>2. SubSeq(seq, 1, n) = [i \in 1..n |-> seq[i]]
  BY <1>1
<1> HIDE DEF n
<1>3. [i \in 1..n |-> seq[i]] \in [1..n -> T]
  BY <1>1
<1> QED
  BY <1>1, <1>2, <1>3, SequenceOf DEF n

\* The top scope goes, and takes the flags of its cache with it.
LEMMA DropScopeIInv ==
  ASSUME IInv, NEW k \in AllStacks, DropScope(k)
  PROVE  IInv'
<1> DEFINE l == Len(caches[k])
<1>1. /\ caches \in [AllStacks -> Seq(CacheEntries)] /\ caches[k] \in Seq(CacheEntries)
      /\ caches[k] # <<>> /\ l \in Nat \ {0}
  BY DEF IInv, Shape, DropScope
<1>2. /\ SubSeq(caches[k], 1, l - 1) \in Seq(CacheEntries)
      /\ Len(SubSeq(caches[k], 1, l - 1)) = l - 1
      /\ \A i \in 1..(l - 1) : SubSeq(caches[k], 1, l - 1)[i] = caches[k][i]
  BY <1>1, ShorterSequence
<1>3. /\ \A j \in AllStacks \ {k} : caches'[j] = caches[j]
      /\ caches'[k] = SubSeq(caches[k], 1, l - 1)
      /\ caches' \in [AllStacks -> Seq(CacheEntries)]
      /\ local' = local \ NodesOf(caches[k][l])
      /\ UNCHANGED <<alive, root, held>>
      /\ owner' = IF k = NoStack THEN [owner EXCEPT ![k] = None] ELSE owner
  BY <1>1, <1>2 DEF DropScope
<1>4. <<k, l>> \in Open /\ Entries(<<k, l>>) = caches[k][l]
  BY <1>1, OpenScopes DEF IInv, Entries
<1>5. \A n : n \in local' <=> n \in local /\ \A e \in Entries(<<k, l>>) : e[1] # n
  BY <1>3, <1>4 DEF NodesOf
<1>6. \A j \in AllStacks : Len(caches[j]) \in Nat /\ Len(caches[j]) <= MaxDepth
  BY <1>1 DEF IInv, Shape
<1>7. ASSUME k = NoStack PROVE l = 1
  <2>1. Len(caches[NoStack]) <= 1
    BY DEF IInv, Shape
  <2>2. l <= 1
    BY <1>7, <2>1
  <2>3. l \in Nat /\ l # 0
    BY <1>1
  <2> HIDE DEF l
  <2> QED
    BY <2>2, <2>3
<1>12. l <= MaxDepth
  BY <1>6
<1> HIDE DEF l
<1>8. Shape'
  <2>1. \A j \in AllStacks : Len(caches'[j]) <= MaxDepth
    BY <1>1, <1>2, <1>3, <1>6, <1>12, ScopesAssumption
  <2>2. owner' \in [AllStacks -> Partitions \union {None}]
    BY <1>3 DEF IInv, Shape
  <2>3. \A j \in AllStacks : owner'[j] = None => Len(caches'[j]) = 0
    <3> TAKE j \in AllStacks
    <3>1. CASE j # k
      BY <1>3, <3>1 DEF IInv, Shape
    <3>2. CASE j = k /\ k = NoStack
      BY <1>2, <1>3, <1>7, <3>2
    <3>3. CASE j = k /\ k # NoStack
      BY <1>1, <1>3, <3>3 DEF IInv, Shape, l
    <3> QED
      BY <3>1, <3>2, <3>3
  <2>4. Len(caches'[NoStack]) <= 1
    BY <1>1, <1>2, <1>3, <1>7, StackNumbers DEF IInv, Shape
  <2>5. local' \in SUBSET alive'
    BY <1>3 DEF IInv, Shape
  <2> QED
    BY <1>3, <2>1, <2>2, <2>3, <2>4, <2>5 DEF IInv, Shape
<1>9. ASSUME NEW s \in Open'
      PROVE  s \in Open /\ s # <<k, l>> /\ Entries(s)' = Entries(s) /\ owner'[s[1]] = owner[s[1]]
  <2>1. s \in AllStacks \X (1..MaxDepth) /\ s[1] \in AllStacks /\ s[2] \in 1..MaxDepth
        /\ s[2] <= Len(caches'[s[1]])
    BY DEF Open
  <2>2. CASE s[1] # k
    BY <1>3, <2>1, <2>2 DEF Open, Entries, IInv, Shape
  <2>3. CASE s[1] = k
    <3>1. s[2] <= l - 1 /\ s[2] \in Nat \ {0} /\ s[2] \in 1..(l - 1)
      BY <1>1, <1>2, <1>3, <2>1, <2>3, ScopesAssumption
    <3>2. s[2] <= Len(caches[s[1]])
      BY <1>1, <2>3, <3>1 DEF l
    <3>3. k # NoStack
      BY <1>7, <3>1
    <3> QED
      BY <1>1, <1>2, <1>3, <2>1, <2>3, <3>1, <3>2, <3>3 DEF Open, Entries
  <2> QED
    BY <2>2, <2>3
<1>10. \A s \in Open : s # <<k, l>> => s \in Open'
  <2> TAKE s \in Open
  <2> HAVE s # <<k, l>>
  <2>1. s \in AllStacks \X (1..MaxDepth) /\ s[1] \in AllStacks /\ s[2] \in 1..Len(caches[s[1]])
        /\ s = <<s[1], s[2]>>
    BY OpenScopes DEF IInv, Open
  <2>2. CASE s[1] # k
    BY <1>3, <2>1, <2>2 DEF Open
  <2>3. CASE s[1] = k
    <3>1. s[2] # l
      BY <2>1, <2>3
    <3>2. s[2] <= l - 1
      BY <1>1, <2>1, <2>3, <3>1 DEF l
    <3> QED
      BY <1>2, <1>3, <2>1, <2>3, <3>2 DEF Open
  <2> QED
    BY <2>2, <2>3
<1>11. Open \ Open' = {<<k, l>>}
  BY <1>4, <1>9, <1>10
<1> QED
  BY <1>3, <1>5, <1>8, <1>9, <1>11, StackIInv

-----------------------------------------------------------------------------

\* Before the first call no scope is open.
LEMMA InitIInv == Init => IInv
<1> SUFFICES ASSUME Init PROVE IInv
  OBVIOUS
<1>1. \A k \in AllStacks : caches[k] = <<>> /\ owner[k] = None
  BY DEF Init
<1>2. Open = {}
  BY <1>1, ScopesAssumption DEF Open
<1>3. Shape
  BY <1>1, StackNumbers, ScopesAssumption DEF Init, Shape
<1> QED
  BY <1>2, <1>3 DEF Init, IInv, AtHome, KeptAlive, Unshared, Flagged

\* Every step keeps the invariant, as long as no node gets a second scope.
LEMMA NextIInv ==
  ASSUME ~Rescopes, IInv, [Next]_vars
  PROVE  IInv'
<1>1. CASE UseStacks
  BY <1>1, OwnerIInv, OpenIInv, DropScopeIInv DEF UseStacks
<1>2. CASE UseScopes
  BY <1>2, ClearIInv, AddOneIInv, RemoveIInv, ProtectIInv, PromoteIInv, ClearFlagIInv
     DEF UseScopes
<1>3. CASE UseHeap
  BY <1>3, HeapIInv, LetGoIInv, CollectIInv, RemovePartitionIInv DEF UseHeap
<1>4. CASE UNCHANGED vars
  BY <1>4 DEF vars, IInv, Shape, AtHome, KeptAlive, Unshared, Flagged, Open, Entries
<1> QED
  BY <1>1, <1>2, <1>3, <1>4 DEF Next

\* The inductive invariant, for hosts that give no thrown node a second scope.
THEOREM ScopesSafety == ASSUME ~Rescopes PROVE Spec => []IInv
<1>1. Init => IInv
  BY InitIInv
<1>2. IInv /\ [Next]_vars => IInv'
  BY NextIInv
<1> QED
  BY <1>1, <1>2, PTL DEF Spec

\* The state of stacks keeps its shape.
THEOREM ScopesTypes == ASSUME ~Rescopes PROVE Spec => []TypeOK
<1>1. IInv => TypeOK
  <2> SUFFICES ASSUME IInv PROVE TypeOK
    OBVIOUS
  <2>1. \A s \in Open : Entries(s) \subseteq Nodes \X BOOLEAN
    BY OpenScopes DEF IInv, CacheEntries
  <2> QED
    BY <2>1 DEF IInv, Shape, TypeOK
<1> QED
  BY <1>1, ScopesSafety, PTL

\* Every node a scope would clear through its cache is alive, whatever was promoted,
\* thrown, removed, collected or torn down before.
THEOREM NothingDangles == ASSUME ~Rescopes PROVE Spec => []CachedAlive
<1>1. IInv => CachedAlive
  BY CachedNodes DEF CachedAlive
<1> QED
  BY <1>1, ScopesSafety, PTL

\* Each LOCAL flag has exactly one scope that takes it back.
THEOREM OneScopePerFlag == ASSUME ~Rescopes PROVE Spec => []OneCache
<1>1. IInv => OneCache
  <2> SUFFICES ASSUME IInv, NEW n \in alive
               PROVE  /\ Cardinality({s \in Open : n \in Cache(s)}) <= 1
                      /\ n \in local => \E s \in Open : n \in Cache(s)
    BY DEF OneCache
  <2> DEFINE S == {s \in Open : n \in Cache(s)}
  <2>1. \A s, t \in S : s = t
    BY CachedNodes DEF IInv, Unshared
  <2> HIDE DEF S
  <2>2. Cardinality(S) <= 1
    <3>1. CASE S = {}
      BY <3>1, FS_EmptySet
    <3>2. CASE S # {}
      <4>1. PICK s : S = {s}
        BY <2>1, <3>2
      <4> QED
        BY <4>1, FS_Singleton
    <3> QED
      BY <3>1, <3>2
  <2>3. n \in local => \E s \in Open : n \in Cache(s)
    BY CachedNodes DEF IInv, Flagged
  <2> QED
    BY <2>2, <2>3 DEF S
<1> QED
  BY <1>1, ScopesSafety, PTL
=============================================================================
