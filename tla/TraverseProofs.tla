--------------------------- MODULE TraverseProofs ---------------------------
(***************************************************************************)
(* Theorems about traverse, for any graph of children, any marks that      *)
(* earlier traversals left and any filter: a call that has finished has    *)
(* called back once for each node it can reach, and the parents it gave    *)
(* lead back to the start, on a shortest path if there is no filter: the   *)
(* search is breadth first, where the comment of traverse has depth first. *)
(*                                                                         *)
(* The invariant relates the queue to what was visited: a child of a       *)
(* visited node is visited or waits, with that node as its parent, and     *)
(* what waits does so in the order in which the parents were called back.  *)
(* Nothing here depends on the chains; the last theorems say that the      *)
(* chains, in turn, do not depend on payloads and marks.                   *)
(***************************************************************************)
EXTENDS Traverse, NodeLinksProofs

-----------------------------------------------------------------------------
(* The invariant.                                                          *)

Payload == {NoRefs} \union UNION {Stored[n] : n \in Nodes}

\* What is in the queue, and what a callback gets.
Stops == [node : Nodes, parent : MaybeNode]
StopAt(n, parent) == [node |-> n, parent |-> parent]

WalkTypeOK ==
    /\ payload \in [Nodes -> Payload]
    /\ visited \in SUBSET Nodes
    /\ queue \in Seq(Stops)
    /\ walk \in [start : MaybeNode, filter : PartitionIds \union {AnyPartition},
                 before : SUBSET Nodes, calls : Seq(Stops)]

\* What this call has visited.
Met == visited \ walk.before

Within(n) == walk.filter \in {AnyPartition, home[n]}

\* No mark is taken away, and the start is visited first.
StartFirst ==
    /\ walk.start \in Nodes
    /\ walk.before \subseteq visited
    /\ \/ Met = {} /\ walk.start \in walk.before /\ queue = <<>>
       \/ Met = {} /\ queue = <<StopAt(walk.start, None)>>
       \/ walk.start \in Met /\ \A i \in DOMAIN queue : queue[i].parent \in Met

\* Nothing is visited and nothing waits that the call cannot reach.
OnlyReachable ==
    /\ Met \subseteq Reach
    /\ \A i \in DOMAIN queue : queue[i].node \in Reach \union walk.before

\* What waits is a child of its parent, and each child of what was visited waits
\* until it is visited too.
ChildrenWait ==
    /\ \A i \in DOMAIN queue :
        queue[i].parent # None => queue[i].node \in Refers(queue[i].parent)
    /\ \A m \in Met : \A c \in Refers(m) \ visited :
        \E i \in DOMAIN queue : queue[i] = StopAt(c, m)

\* One callback for each node visited that passes the filter.
CalledOnce ==
    /\ \A i, j \in DOMAIN walk.calls : walk.calls[i].node = walk.calls[j].node => i = j
    /\ \A n : (n \in Met /\ Within(n)) <=> \E i \in DOMAIN walk.calls : walk.calls[i].node = n

\* The children of what was called back earlier come first.
InTurn ==
    walk.filter = AnyPartition =>
        \A i, k \in DOMAIN queue : \A a, b \in DOMAIN walk.calls :
            i < k /\ queue[i].parent = walk.calls[a].node
                  /\ queue[k].parent = walk.calls[b].node => a <= b

\* Without a filter the parent of a callback is the first node called back that refers
\* to the node.
FirstParent ==
    \A i \in DOMAIN walk.calls :
        LET c == walk.calls[i]
            found == {j \in DOMAIN walk.calls : c.node \in Refers(walk.calls[j].node)}
        IN IF c.parent = None THEN c.node = walk.start
           ELSE /\ c.node \in Refers(c.parent)
                /\ walk.filter = AnyPartition =>
                      \E j \in found : j < i /\ c.parent = walk.calls[j].node
                                           /\ \A k \in found : j <= k

\* This call has visited the parents it gave.
ParentsMet ==
    \A i \in DOMAIN walk.calls : walk.calls[i].parent # None => walk.calls[i].parent \in Met

WalkInv ==
    /\ WalkTypeOK
    /\ IF walk = NoWalk THEN queue = <<>>
       ELSE /\ StartFirst /\ OnlyReachable /\ ChildrenWait /\ CalledOnce /\ InTurn
            /\ FirstParent /\ ParentsMet

-----------------------------------------------------------------------------
(* The operators of traverse.                                              *)

\* What a payload reports are nodes.
LEMMA ChildrenType ==
  ASSUME WalkTypeOK, NEW n \in Nodes
  PROVE  TraceNode(n) \in Seq(Nodes) /\ Refers(n) \subseteq Nodes
<1>1. payload[n] \in Payload
  BY DEF WalkTypeOK
<1>2. GcChildren(payload[n]) \in Seq(Nodes)
  <2>1. CASE payload[n] = NoRefs
    <3>1. GcChildren(payload[n]) = <<>>
      BY <2>1, StoredAssumption
    <3> QED
      BY <3>1
  <2>2. CASE payload[n] # NoRefs
    BY <1>1, <2>2, StoredAssumption DEF Payload
  <2> QED
    BY <2>1, <2>2
<1> QED
  BY <1>2 DEF TraceNode, Refers, Range

\* The stops that are made of the children in S: all of them, and nothing else.
LEMMA ChildrenInAre ==
  ASSUME WalkTypeOK, NEW n \in Nodes, NEW S
  PROVE  /\ ChildrenIn(n, S) \in Seq(Stops)
         /\ \A i \in DOMAIN ChildrenIn(n, S) :
                /\ ChildrenIn(n, S)[i].parent = n
                /\ ChildrenIn(n, S)[i].node \in Refers(n) \intersect S
         /\ \A c \in Refers(n) \intersect S :
                \E i \in DOMAIN ChildrenIn(n, S) : ChildrenIn(n, S)[i] = StopAt(c, n)
<1> DEFINE c == TraceNode(n)
           places == {i \in DOMAIN c : c[i] \in S}
           at == Ascending(places)
           k == Len(at)
<1>1. c \in Seq(Nodes) /\ DOMAIN c = 1..Len(c) /\ Len(c) \in Nat
  BY ChildrenType
<1>2. places \in SUBSET Nat /\ IsFiniteSet(places)
  <2>1. places \subseteq 1..Len(c) /\ 1 \in Int /\ Len(c) \in Int
    BY <1>1
  <2>2. IsFiniteSet(1..Len(c))
    BY <2>1, FS_Interval
  <2>3. places \in SUBSET (1..Len(c))
    BY <2>1
  <2>4. places \in SUBSET Nat
    BY <1>1, <2>1
  <2>5. IsFiniteSet(places)
    <3> HIDE DEF places, c
    <3> QED
      BY <2>2, <2>3, FS_Subset
  <2> QED
    BY <2>4, <2>5
<1>3. at \in Enumerations(places)
  <2> HIDE DEF places
  <2>1. \E s \in [1..Cardinality(places) -> places] : Increasing(s)
    BY <1>2, Enumerable DEF Enumerations
  <2>2. Ascending(places) = CHOOSE s \in [1..Cardinality(places) -> places] : Increasing(s)
    BY DEF Ascending, Increasing
  <2> QED
    BY <2>1, <2>2 DEF Enumerations
<1>4. Cardinality(places) \in Nat /\ at \in [1..Cardinality(places) -> places]
  BY <1>2, <1>3, FS_CardinalityType DEF Enumerations
<1>5. k = Cardinality(places) /\ k \in Nat
  <2> HIDE DEF places, at
  <2>1. at \in Seq(places)
    BY <1>4
  <2> QED
    BY <1>4, <2>1
<1>6. ChildrenIn(n, S) = [i \in 1..k |-> StopAt(c[at[k + 1 - i]], n)]
  BY DEF ChildrenIn, StopAt
<1>7. ASSUME NEW i \in 1..k
      PROVE  /\ c[at[k + 1 - i]] \in Refers(n) \intersect S
             /\ StopAt(c[at[k + 1 - i]], n) \in Stops
  <2>1. k + 1 - i \in 1..k
    BY <1>5
  <2>2. at[k + 1 - i] \in places
    <3> HIDE DEF places, at, k
    <3> QED
      BY <1>4, <1>5, <2>1
  <2>3. c[at[k + 1 - i]] \in Refers(n) \intersect S /\ c[at[k + 1 - i]] \in Nodes
    <3> HIDE DEF at, k
    <3> QED
      BY <1>1, <2>2 DEF Refers, Range
  <2> HIDE DEF c, places, at, k
  <2> QED
    BY <2>3 DEF StopAt, Stops, MaybeNode
<1>8. ASSUME NEW x \in Refers(n) \intersect S
      PROVE  \E i \in 1..k : c[at[k + 1 - i]] = x
  <2>1. PICK j \in places : c[j] = x
    BY <1>1 DEF Refers, Range
  <2>2. PICK i \in 1..k : at[i] = j
    <3> HIDE DEF places, at, k
    <3> QED
      BY <1>2, <1>3, <1>5, EnumeratesAll
  <2>3. k + 1 - i \in 1..k /\ k + 1 - (k + 1 - i) = i
    BY <1>5
  <2> HIDE DEF c, places, at, k
  <2> QED
    BY <2>1, <2>2, <2>3
<1> HIDE DEF c, places, at, k
<1>9. DOMAIN ChildrenIn(n, S) = 1..k
      /\ \A i \in 1..k : ChildrenIn(n, S)[i] = StopAt(c[at[k + 1 - i]], n)
  BY <1>6
<1>10. ChildrenIn(n, S) \in Seq(Stops)
  <2>1. ChildrenIn(n, S) \in [1..k -> Stops]
    BY <1>6, <1>7
  <2> QED
    BY <1>5, <2>1
<1>11. \A i \in 1..k : /\ ChildrenIn(n, S)[i].parent = n
                       /\ ChildrenIn(n, S)[i].node \in Refers(n) \intersect S
  BY <1>7, <1>9 DEF StopAt
<1> QED
  BY <1>8, <1>9, <1>10, <1>11

\* What becomes of a queue when its first stop is taken off and others are put behind it.
Advanced(q, f, r) ==
    /\ r \in Seq(Stops)
    /\ Head(q) = q[1] /\ 1 \in DOMAIN q /\ q[1] \in Stops
    /\ \A i \in DOMAIN r :
          \/ i + 1 \in DOMAIN q /\ r[i] = q[i + 1]
          \/ /\ i - (Len(q) - 1) \in DOMAIN f /\ r[i] = f[i - (Len(q) - 1)]
             /\ \A k \in DOMAIN q : k - 1 < i
    /\ \A i \in DOMAIN q : i # 1 => i - 1 \in DOMAIN r /\ r[i - 1] = q[i]
    /\ \A i \in DOMAIN f : \E k \in DOMAIN r : r[k] = f[i]

\* It moves up by one.
LEMMA QueueMoves ==
  ASSUME NEW q \in Seq(Stops), q # <<>>, NEW f \in Seq(Stops)
  PROVE  Advanced(q, f, Tail(q) \o f)
<1> DEFINE r == Tail(q) \o f
<1>1. /\ Tail(q) \in Seq(Stops) /\ Len(Tail(q)) = Len(q) - 1 /\ Len(q) \in Nat \ {0}
      /\ \A i \in 1..(Len(q) - 1) : Tail(q)[i] = q[i + 1]
      /\ Head(q) = q[1] /\ DOMAIN q = 1..Len(q) /\ DOMAIN f = 1..Len(f) /\ Len(f) \in Nat
  OBVIOUS
<1>2. /\ r \in Seq(Stops) /\ Len(r) = Len(q) - 1 + Len(f) /\ DOMAIN r = 1..Len(r)
      /\ \A i \in 1..Len(r) : r[i] = IF i <= Len(q) - 1 THEN Tail(q)[i] ELSE f[i - (Len(q) - 1)]
  BY <1>1
<1> HIDE DEF r
<1>3. q[1] \in Stops /\ 1 \in DOMAIN q
  BY <1>1
<1>4. ASSUME NEW i \in DOMAIN r
      PROVE  \/ i + 1 \in DOMAIN q /\ r[i] = q[i + 1]
             \/ /\ i - (Len(q) - 1) \in DOMAIN f /\ r[i] = f[i - (Len(q) - 1)]
                /\ \A k \in DOMAIN q : k - 1 < i
  <2>1. CASE i <= Len(q) - 1
    BY <1>1, <1>2, <2>1
  <2>2. CASE ~(i <= Len(q) - 1)
    <3>1. i \in Nat /\ i <= Len(q) - 1 + Len(f) /\ i > Len(q) - 1
      BY <1>1, <1>2, <2>2
    <3>2. i - (Len(q) - 1) \in DOMAIN f /\ r[i] = f[i - (Len(q) - 1)]
      <4>1. i - (Len(q) - 1) \in 1..Len(f)
        BY <1>1, <3>1
      <4>2. ~(i <= Len(q) - 1) /\ i \in 1..Len(r)
        BY <1>1, <1>2, <3>1
      <4> QED
        BY <1>1, <1>2, <4>1, <4>2
    <3>3. \A k \in DOMAIN q : k - 1 < i
      BY <1>1, <3>1
    <3> QED
      BY <3>2, <3>3
  <2> QED
    BY <2>1, <2>2
<1>5. ASSUME NEW i \in DOMAIN q, i # 1
      PROVE  i - 1 \in DOMAIN r /\ r[i - 1] = q[i]
  <2>1. i - 1 \in 1..(Len(q) - 1) /\ (i - 1) + 1 = i /\ i - 1 \in 1..Len(r)
    BY <1>1, <1>2, <1>5
  <2> QED
    BY <1>1, <1>2, <2>1
<1>6. ASSUME NEW i \in DOMAIN f
      PROVE  \E k \in DOMAIN r : r[k] = f[i]
  <2>1. LET k == Len(q) - 1 + i
        IN k \in 1..Len(r) /\ ~(k <= Len(q) - 1) /\ k - (Len(q) - 1) = i
    BY <1>1, <1>2
  <2> QED
    BY <1>2, <2>1
<1> QED
  <2>1. Advanced(q, f, r)
    BY <1>1, <1>2, <1>3, <1>4, <1>5, <1>6 DEF Advanced
  <2> QED
    BY <2>1 DEF r

-----------------------------------------------------------------------------
(* What can be reached.                                                    *)

\* The start can be reached, and with a node its children, but for what was visited
\* before the call.
LEMMA ReachClosed ==
  ASSUME WalkTypeOK
  PROVE  /\ walk.start \in Nodes \ walk.before => walk.start \in Reach
         /\ \A m \in Reach : \A c \in Refers(m) \ walk.before : c \in Reach
<1>1. walk.start \in Nodes \ walk.before => walk.start \in Reach
  BY DEF Reach, ClosedWalk
<1>2. ASSUME NEW m \in Reach, NEW c \in Refers(m) \ walk.before
      PROVE  c \in Reach
  <2>1. m \in Nodes
    BY DEF Reach
  <2>2. c \in Nodes
    BY <2>1, ChildrenType
  <2>3. ASSUME NEW S \in SUBSET Nodes, ClosedWalk(S)
        PROVE  c \in S
    <3>1. m \in S
      BY <2>3 DEF Reach
    <3> QED
      BY <2>3, <3>1 DEF ClosedWalk
  <2> QED
    BY <2>2, <2>3 DEF Reach
<1> QED
  BY <1>1, <1>2

\* It is the same throughout a call.
LEMMA ReachSame ==
  ASSUME payload' = payload, walk'.start = walk.start, walk'.before = walk.before
  PROVE  Reach' = Reach /\ \A m : Refers(m)' = Refers(m)
<1>1. \A m : Refers(m)' = Refers(m)
  BY DEF Refers, TraceNode
<1>2. ASSUME NEW S
      PROVE  ClosedWalk(S)' <=> ClosedWalk(S)
  BY <1>1 DEF ClosedWalk
<1> QED
  BY <1>1, <1>2 DEF Reach

-----------------------------------------------------------------------------
(* Every step keeps the invariant.                                         *)

\* A call begins: nothing is met yet.
LEMMA BeginKeeps ==
  ASSUME WalkInv, NEW n \in Nodes, NEW filter \in PartitionIds \union {AnyPartition},
         BeginTraverse(n, filter)
  PROVE  WalkInv'
<1>0. /\ queue' = <<StopAt(n, None)>> /\ visited' = visited /\ payload' = payload
      /\ walk' = [start |-> n, filter |-> filter, before |-> visited, calls |-> <<>>]
  BY DEF BeginTraverse, StopAt
<1>1. /\ walk'.start = n /\ walk'.before = visited /\ walk'.calls = <<>> /\ n # None
      /\ DOMAIN queue' = {1} /\ queue'[1] = StopAt(n, None) /\ StopAt(n, None) \in Stops
      /\ StopAt(n, None).node = n /\ StopAt(n, None).parent = None
  BY <1>0, LinksAssumption DEF StopAt, Stops, MaybeNode
<1>2. walk' # NoWalk
  BY <1>1 DEF NoWalk
<1>3. WalkTypeOK'
  <2>1. queue' \in Seq(Stops)
    BY <1>0, <1>1
  <2> QED
    BY <1>0, <2>1 DEF WalkInv, WalkTypeOK, MaybeNode
<1>4. Met' = {}
  BY <1>0, <1>1 DEF Met
<1>5. StartFirst'
  BY <1>0, <1>1, <1>4 DEF StartFirst
<1>6. OnlyReachable'
  <2>1. n \in Reach' \union visited
    BY <1>1 DEF Reach, ClosedWalk
  <2> QED
    BY <1>1, <1>4, <2>1 DEF OnlyReachable
<1>7. ChildrenWait' /\ InTurn'
  BY <1>1, <1>4 DEF ChildrenWait, InTurn
<1>8. CalledOnce' /\ FirstParent' /\ ParentsMet'
  BY <1>1, <1>4 DEF CalledOnce, FirstParent, ParentsMet
<1> QED
  BY <1>2, <1>3, <1>5, <1>6, <1>7, <1>8 DEF WalkInv

\* A stop at a node that was visited meanwhile is passed over.
LEMMA SkipKeeps ==
  ASSUME WalkInv, walk # NoWalk, queue # <<>>, Head(queue).node \in visited,
         queue' = Tail(queue), visited' = visited, walk' = walk, payload' = payload, home' = home
  PROVE  WalkInv'
<1>0. /\ WalkTypeOK /\ StartFirst /\ OnlyReachable /\ ChildrenWait /\ CalledOnce /\ InTurn
      /\ FirstParent /\ ParentsMet
  BY DEF WalkInv
<1>1. queue \in Seq(Stops)
  BY <1>0 DEF WalkTypeOK
<1>2. /\ queue' \in Seq(Stops) /\ queue[1].node \in visited /\ 1 \in DOMAIN queue
      /\ \A i \in DOMAIN queue' : i + 1 \in DOMAIN queue /\ queue'[i] = queue[i + 1]
      /\ \A i \in DOMAIN queue : i # 1 => i - 1 \in DOMAIN queue' /\ queue'[i - 1] = queue[i]
  <2>1. queue' = Tail(queue) \o <<>> /\ <<>> \in Seq(Stops) /\ DOMAIN <<>> = {}
    BY <1>1
  <2> QED
    BY <1>1, <2>1, QueueMoves DEF Advanced
<1>3. WalkTypeOK'
  BY <1>0, <1>2 DEF WalkTypeOK
<1>4. Met' = Met /\ Reach' = Reach /\ \A m : Refers(m)' = Refers(m)
  BY ReachSame DEF Met
<1>5. StartFirst'
  <2>1. CASE Met = {}
    <3>1. queue = <<StopAt(walk.start, None)>>
      BY <1>0, <2>1 DEF StartFirst
    <3>2. queue' = <<>> /\ walk.start \in visited
      BY <1>2, <3>1 DEF StopAt
    <3> QED
      BY <1>0, <1>4, <2>1, <3>2 DEF StartFirst, Met
  <2>2. CASE Met # {}
    BY <1>0, <1>2, <1>4, <2>2 DEF StartFirst
  <2> QED
    BY <2>1, <2>2
<1>6. OnlyReachable'
  BY <1>0, <1>2, <1>4 DEF OnlyReachable
<1>7. ChildrenWait'
  <2>1. ASSUME NEW m \in Met, NEW c \in Refers(m) \ visited
        PROVE  \E i \in DOMAIN queue' : queue'[i] = StopAt(c, m)
    <3>1. PICK i \in DOMAIN queue : queue[i] = StopAt(c, m)
      BY <1>0, <2>1 DEF ChildrenWait
    <3>2. i # 1
      BY <1>2, <3>1 DEF StopAt
    <3> QED
      BY <1>2, <3>1, <3>2
  <2>2. \A i \in DOMAIN queue' :
          queue'[i].parent # None => queue'[i].node \in Refers(queue'[i].parent)
    BY <1>0, <1>2 DEF ChildrenWait
  <2> QED
    BY <1>4, <2>1, <2>2 DEF ChildrenWait
<1>8. CalledOnce'
  BY <1>0, <1>4 DEF CalledOnce, Within
<1>9. InTurn'
  <2> SUFFICES ASSUME walk.filter = AnyPartition,
                      NEW i \in DOMAIN queue', NEW k \in DOMAIN queue', i < k,
                      NEW a \in DOMAIN walk.calls, NEW b \in DOMAIN walk.calls,
                      queue'[i].parent = walk.calls[a].node, queue'[k].parent = walk.calls[b].node
               PROVE  a <= b
    BY DEF InTurn
  <2>1. i \in Nat /\ k \in Nat /\ i + 1 < k + 1
    BY <1>2
  <2> QED
    BY <1>0, <1>2, <2>1 DEF InTurn
<1>10. FirstParent' /\ ParentsMet'
  BY <1>0, <1>4 DEF FirstParent, ParentsMet
<1> QED
  BY <1>3, <1>5, <1>6, <1>7, <1>8, <1>9, <1>10 DEF WalkInv

\* A node is visited: its stop leaves the queue, what it refers to and was not visited
\* goes behind what waits, and it is called back if it passes the filter.
Visiting(n) ==
    /\ walk # NoWalk /\ queue # <<>> /\ n = Head(queue).node /\ n \notin visited
    /\ visited' = visited \union {n}
    /\ queue' = Tail(queue) \o Found(n)
    /\ walk' = IF Within(n) THEN [walk EXCEPT !.calls = Append(@, Head(queue))] ELSE walk
    /\ payload' = payload /\ home' = home

\* What waits after a visit: the rest, then the children not visited yet.
LEMMA VisitQueues ==
  ASSUME WalkTypeOK, NEW n \in Nodes, Visiting(n)
  PROVE  /\ queue' \in Seq(Stops)
         /\ Head(queue) = queue[1] /\ 1 \in DOMAIN queue /\ queue[1] \in Stops
         /\ \A i \in DOMAIN queue' :
               \/ i + 1 \in DOMAIN queue /\ queue'[i] = queue[i + 1]
               \/ /\ queue'[i].parent = n /\ queue'[i].node \in Refers(n) \ visited'
                  /\ \A k \in DOMAIN queue : k - 1 < i
         /\ \A i \in DOMAIN queue : i # 1 => i - 1 \in DOMAIN queue' /\ queue'[i - 1] = queue[i]
         /\ \A c \in Refers(n) \ visited' : \E k \in DOMAIN queue' : queue'[k] = StopAt(c, n)
<1> DEFINE S == Nodes \ visited'
           found == ChildrenIn(n, S)
           r == queue'
<1>1. Refers(n) \intersect S = Refers(n) \ visited'
  BY ChildrenType
<1>2. queue \in Seq(Stops) /\ queue # <<>> /\ r = Tail(queue) \o found
  BY DEF WalkTypeOK, Visiting, Found
<1> HIDE DEF S
<1>3. /\ found \in Seq(Stops)
      /\ \A i \in DOMAIN found :
            found[i].parent = n /\ found[i].node \in Refers(n) \intersect S
      /\ \A c \in Refers(n) \intersect S : \E i \in DOMAIN found : found[i] = StopAt(c, n)
  BY ChildrenInAre
<1> HIDE DEF found, r
<1>4. Advanced(queue, found, r)
  BY <1>2, <1>3, QueueMoves
<1>5. \A i \in DOMAIN r :
         \/ i + 1 \in DOMAIN queue /\ r[i] = queue[i + 1]
         \/ /\ r[i].parent = n /\ r[i].node \in Refers(n) \ visited'
            /\ \A k \in DOMAIN queue : k - 1 < i
  BY <1>1, <1>3, <1>4 DEF Advanced
<1>6. ASSUME NEW c \in Refers(n) \ visited'
      PROVE  \E k \in DOMAIN r : r[k] = StopAt(c, n)
  <2>1. PICK i \in DOMAIN found : found[i] = StopAt(c, n)
    BY <1>1, <1>3
  <2> QED
    BY <1>4, <2>1 DEF Advanced
<1>7. r = queue'
  BY DEF r
<1> QED
  BY <1>4, <1>5, <1>6, <1>7 DEF Advanced

\* The callbacks after a visit.
LEMMA VisitCalls ==
  ASSUME WalkTypeOK, NEW n \in Nodes, Visiting(n), NEW last, last = Len(walk.calls) + 1
  PROVE  /\ walk' \in [start : MaybeNode, filter : PartitionIds \union {AnyPartition},
                       before : SUBSET Nodes, calls : Seq(Stops)]
         /\ walk'.start = walk.start /\ walk'.filter = walk.filter
         /\ walk'.before = walk.before
         /\ \A i \in DOMAIN walk.calls :
               /\ i \in 1..(last - 1) /\ i \in DOMAIN walk'.calls
               /\ walk'.calls[i] = walk.calls[i]
         /\ \A i \in DOMAIN walk'.calls :
               \/ i \in DOMAIN walk.calls /\ walk'.calls[i] = walk.calls[i]
               \/ Within(n) /\ i = last /\ walk'.calls[i] = queue[1]
         /\ Within(n) => last \in DOMAIN walk'.calls /\ walk'.calls[last] = queue[1]
         /\ last \in Nat /\ last \notin DOMAIN walk.calls
<1>1. queue[1] \in Stops /\ Head(queue) = queue[1]
  BY VisitQueues
<1>2. walk.calls \in Seq(Stops)
  BY DEF WalkTypeOK
<1>3. CASE Within(n)
  <2>1. walk' = [walk EXCEPT !.calls = Append(walk.calls, queue[1])]
    BY <1>1, <1>3 DEF Visiting
  <2>2. Append(walk.calls, queue[1]) \in Seq(Stops)
    BY <1>1, <1>2
  <2> DEFINE calls == Append(walk.calls, queue[1])
  <2> HIDE DEF calls
  <2>3. walk' = [walk EXCEPT !.calls = calls] /\ calls \in Seq(Stops)
    BY <2>1, <2>2 DEF calls
  <2>4. /\ walk' \in [start : MaybeNode, filter : PartitionIds \union {AnyPartition},
                      before : SUBSET Nodes, calls : Seq(Stops)]
        /\ walk'.start = walk.start /\ walk'.filter = walk.filter
        /\ walk'.before = walk.before /\ walk'.calls = calls
    BY <2>3 DEF WalkTypeOK
  <2>5. /\ \A i \in DOMAIN walk.calls :
              i \in 1..(last - 1) /\ i \in DOMAIN calls /\ calls[i] = walk.calls[i]
        /\ \A i \in DOMAIN calls :
              \/ i \in DOMAIN walk.calls /\ calls[i] = walk.calls[i]
              \/ i = last /\ calls[i] = queue[1]
        /\ last \in DOMAIN calls /\ calls[last] = queue[1]
        /\ last \in Nat /\ last \notin DOMAIN walk.calls
    <3>1. /\ calls \in Seq(Stops) /\ Len(calls) = last /\ DOMAIN walk.calls = 1..(last - 1)
          /\ last \in Nat \ {0} /\ calls[last] = queue[1] /\ DOMAIN calls = 1..last
          /\ \A i \in 1..(last - 1) : calls[i] = walk.calls[i]
      BY <1>1, <1>2 DEF calls
    <3> HIDE DEF calls
    <3> QED
      BY <3>1
  <2> QED
    BY <1>3, <2>4, <2>5
<1>4. CASE ~Within(n)
  <2>1. walk' = walk
    BY <1>4 DEF Visiting
  <2>2. /\ \A i \in DOMAIN walk.calls : i \in 1..(last - 1)
        /\ last \in Nat /\ last \notin DOMAIN walk.calls
    BY <1>2
  <2> QED
    BY <1>4, <2>1, <2>2 DEF WalkTypeOK
<1> QED
  BY <1>3, <1>4

\* The visit keeps the invariant.
LEMMA VisitKeeps ==
  ASSUME WalkInv, NEW n, Visiting(n)
  PROVE  WalkInv'
<1> DEFINE last == Len(walk.calls) + 1
<1>0. /\ WalkTypeOK /\ StartFirst /\ OnlyReachable /\ ChildrenWait /\ CalledOnce /\ InTurn
      /\ FirstParent /\ ParentsMet
  BY DEF WalkInv, Visiting
<1>1. /\ queue \in Seq(Stops) /\ n \in Nodes
      /\ n \notin visited /\ visited' = visited \union {n} /\ n = Head(queue).node
      /\ payload' = payload /\ home' = home
  <2>1. queue \in Seq(Stops)
    BY <1>0 DEF WalkTypeOK
  <2>2. Head(queue) \in Stops
    BY <2>1 DEF Visiting
  <2>3. Head(queue).node \in Nodes
    BY <2>2 DEF Stops
  <2> QED
    BY <2>1, <2>3 DEF Visiting
<1>3. /\ queue' \in Seq(Stops) /\ n = queue[1].node
      /\ Head(queue) = queue[1] /\ 1 \in DOMAIN queue /\ queue[1] \in Stops
      /\ \A i \in DOMAIN queue' :
            \/ i + 1 \in DOMAIN queue /\ queue'[i] = queue[i + 1]
            \/ /\ queue'[i].parent = n /\ queue'[i].node \in Refers(n) \ visited'
               /\ \A k \in DOMAIN queue : k - 1 < i
      /\ \A i \in DOMAIN queue : i # 1 => i - 1 \in DOMAIN queue' /\ queue'[i - 1] = queue[i]
      /\ \A c \in Refers(n) \ visited' : \E k \in DOMAIN queue' : queue'[k] = StopAt(c, n)
  BY <1>0, <1>1, VisitQueues
<1> HIDE DEF last
<1>4. /\ walk' \in [start : MaybeNode, filter : PartitionIds \union {AnyPartition},
                    before : SUBSET Nodes, calls : Seq(Stops)]
      /\ walk'.start = walk.start /\ walk'.filter = walk.filter /\ walk'.before = walk.before
  BY <1>0, <1>1, VisitCalls
<1>5. /\ \A i \in DOMAIN walk.calls :
            i \in 1..(last - 1) /\ i \in DOMAIN walk'.calls /\ walk'.calls[i] = walk.calls[i]
      /\ \A i \in DOMAIN walk'.calls :
            \/ i \in DOMAIN walk.calls /\ walk'.calls[i] = walk.calls[i]
            \/ Within(n) /\ i = last /\ walk'.calls[i] = queue[1]
      /\ Within(n) => last \in DOMAIN walk'.calls /\ walk'.calls[last] = queue[1]
      /\ last \in Nat /\ last \notin DOMAIN walk.calls
  BY <1>0, <1>1, VisitCalls DEF last
<1>6. WalkTypeOK'
  <2>1. queue' \in Seq(Stops)
    BY <1>3
  <2>2. payload' \in [Nodes -> Payload] /\ visited' \in SUBSET Nodes
    BY <1>0, <1>1 DEF WalkTypeOK
  <2> QED
    BY <1>4, <2>1, <2>2 DEF WalkTypeOK
<1>7. n \notin walk.before /\ n \notin Met /\ Met' = Met \union {n} /\ n \in Reach
  <2>1. n \notin walk.before
    BY <1>0, <1>1 DEF StartFirst
  <2>2. n \in Reach
    BY <1>0, <1>3, <2>1 DEF OnlyReachable
  <2> QED
    BY <1>1, <1>4, <2>1, <2>2 DEF Met
<1>8. Reach' = Reach /\ (\A m : Refers(m)' = Refers(m)) /\ \A m : Within(m)' = Within(m)
  BY <1>1, <1>4, ReachSame DEF Within
<1>9. \/ Met = {} /\ queue = <<StopAt(walk.start, None)>> /\ n = walk.start
         /\ queue[1] = StopAt(walk.start, None) /\ DOMAIN queue = {1}
      \/ walk.start \in Met /\ \A i \in DOMAIN queue : queue[i].parent \in Met
  BY <1>0, <1>3 DEF StartFirst, StopAt, Visiting
<1>10. StartFirst'
  <2>1. walk.start \in Met'
    BY <1>7, <1>9
  <2>2. ASSUME NEW i \in DOMAIN queue'
        PROVE  queue'[i].parent \in Met'
    <3>1. i \in Nat \ {0}
      BY <1>3
    <3> QED
      BY <1>3, <1>7, <1>9, <3>1
  <2> QED
    BY <1>0, <1>1, <1>4, <2>1, <2>2 DEF StartFirst
<1>11. OnlyReachable'
  <2>1. ASSUME NEW i \in DOMAIN queue'
        PROVE  queue'[i].node \in Reach \union walk.before
    <3>1. \A c \in Refers(n) : c \in Reach \union walk.before
      BY <1>0, <1>7, ReachClosed
    <3> QED
      BY <1>0, <1>3, <3>1 DEF OnlyReachable
  <2> QED
    BY <1>0, <1>4, <1>7, <1>8, <2>1 DEF OnlyReachable
<1>12. ChildrenWait'
  <2>1. ASSUME NEW i \in DOMAIN queue', queue'[i].parent # None
        PROVE  queue'[i].node \in Refers(queue'[i].parent)
    BY <1>0, <1>3, <2>1 DEF ChildrenWait
  <2>2. ASSUME NEW m \in Met', NEW c \in Refers(m) \ visited'
        PROVE  \E i \in DOMAIN queue' : queue'[i] = StopAt(c, m)
    <3>1. CASE m = n
      <4>1. c \in Refers(n) \ visited'
        BY <2>2, <3>1
      <4> QED
        BY <1>3, <3>1, <4>1
    <3>2. CASE m # n
      <4>1. m \in Met /\ c \in Refers(m) \ visited /\ c # n
        BY <1>1, <1>7, <2>2, <3>2
      <4>2. PICK i \in DOMAIN queue : queue[i] = StopAt(c, m)
        BY <1>0, <4>1 DEF ChildrenWait
      <4>3. i # 1
        BY <1>3, <4>1, <4>2 DEF StopAt
      <4>4. i - 1 \in DOMAIN queue' /\ queue'[i - 1] = queue[i]
        BY <1>3, <4>3
      <4> QED
        BY <4>2, <4>4
    <3> QED
      BY <3>1, <3>2
  <2> QED
    BY <1>8, <2>1, <2>2 DEF ChildrenWait
<1>13. \A i \in DOMAIN walk.calls : walk.calls[i].node \in Met /\ walk.calls[i].node # n
  BY <1>0, <1>7 DEF CalledOnce
<1>14. CalledOnce'
  <2>1. ASSUME NEW i \in DOMAIN walk'.calls, NEW j \in DOMAIN walk'.calls,
               walk'.calls[i].node = walk'.calls[j].node
        PROVE  i = j
    BY <1>0, <1>3, <1>5, <1>13, <2>1 DEF CalledOnce
  <2>2. ASSUME NEW m, m \in Met', Within(m)
        PROVE  \E i \in DOMAIN walk'.calls : walk'.calls[i].node = m
    <3>1. CASE m = n
      BY <1>3, <1>5, <2>2, <3>1
    <3>2. CASE m # n
      BY <1>0, <1>5, <1>7, <2>2, <3>2 DEF CalledOnce
    <3> QED
      BY <3>1, <3>2
  <2>3. ASSUME NEW i \in DOMAIN walk'.calls
        PROVE  walk'.calls[i].node \in Met' /\ Within(walk'.calls[i].node)
    BY <1>0, <1>3, <1>5, <1>7 DEF CalledOnce
  <2> QED
    BY <1>8, <2>1, <2>2, <2>3 DEF CalledOnce
<1>15. InTurn'
  <2> SUFFICES ASSUME walk'.filter = AnyPartition,
                      NEW i \in DOMAIN queue', NEW k \in DOMAIN queue', i < k,
                      NEW a \in DOMAIN walk'.calls, NEW b \in DOMAIN walk'.calls,
                      queue'[i].parent = walk'.calls[a].node,
                      queue'[k].parent = walk'.calls[b].node
               PROVE  a <= b
    BY DEF InTurn
  <2>1. Within(n) /\ walk.filter = AnyPartition /\ i \in Nat \ {0} /\ k \in Nat \ {0}
    BY <1>3, <1>4 DEF Within
  <2>2. a \in Nat /\ a <= last
    BY <1>5
  <2>3. CASE queue'[k].parent = n
    <3>1. b = last
      BY <1>5, <1>13, <2>3
    <3> QED
      BY <2>2, <3>1
  <2>4. CASE queue'[k].parent # n
    <3>1. k + 1 \in DOMAIN queue /\ queue'[k] = queue[k + 1]
      BY <1>3, <2>4
    <3>2. i + 1 \in DOMAIN queue /\ queue'[i] = queue[i + 1]
      <4>1. (k + 1) - 1 = k /\ ~(k < i)
        BY <2>1
      <4> QED
        BY <1>3, <3>1, <4>1
    <3>3. queue[i + 1].parent \in Met /\ queue[k + 1].parent \in Met
      BY <1>9, <2>1, <3>1, <3>2
    <3>4. a \in DOMAIN walk.calls /\ walk'.calls[a] = walk.calls[a]
      <4>1. walk'.calls[a].node # n
        BY <1>7, <3>2, <3>3
      <4> QED
        BY <1>3, <1>5, <4>1
    <3>5. b \in DOMAIN walk.calls /\ walk'.calls[b] = walk.calls[b]
      <4>1. walk'.calls[b].node # n
        BY <1>7, <3>1, <3>3
      <4> QED
        BY <1>3, <1>5, <4>1
    <3>6. i + 1 < k + 1
      BY <2>1
    <3> QED
      BY <1>0, <2>1, <3>1, <3>2, <3>4, <3>5, <3>6 DEF InTurn
  <2> QED
    BY <2>3, <2>4
<1>16. FirstParent'
  <2> DEFINE From(c, i, calls) ==
               \E j \in {h \in DOMAIN calls : c.node \in Refers(calls[h].node)} :
                  /\ j < i /\ c.parent = calls[j].node
                  /\ \A k \in {h \in DOMAIN calls : c.node \in Refers(calls[h].node)} : j <= k
  <2>1. ASSUME NEW i \in DOMAIN walk.calls
        PROVE  LET c == walk.calls[i]
               IN IF c.parent = None THEN c.node = walk.start
                  ELSE /\ c.node \in Refers(c.parent)
                       /\ walk.filter = AnyPartition => From(c, i, walk'.calls)
    <3>1. LET c == walk.calls[i]
          IN IF c.parent = None THEN c.node = walk.start
             ELSE /\ c.node \in Refers(c.parent)
                  /\ walk.filter = AnyPartition => From(c, i, walk.calls)
      BY <1>0 DEF FirstParent
    <3>2. ASSUME From(walk.calls[i], i, walk.calls)
          PROVE  From(walk.calls[i], i, walk'.calls)
      <4> DEFINE c == walk.calls[i]
      <4>1. PICK j \in DOMAIN walk.calls :
              /\ c.node \in Refers(walk.calls[j].node) /\ j < i /\ c.parent = walk.calls[j].node
              /\ \A k \in DOMAIN walk.calls : c.node \in Refers(walk.calls[k].node) => j <= k
        BY <3>2
      <4> HIDE DEF c
      <4>2. j \in DOMAIN walk'.calls /\ walk'.calls[j] = walk.calls[j]
        BY <1>5
      <4>3. j <= last
        BY <1>5
      <4>4. ASSUME NEW k \in DOMAIN walk'.calls, c.node \in Refers(walk'.calls[k].node)
            PROVE  j <= k
        BY <1>5, <4>1, <4>3, <4>4
      <4> QED
        BY <4>1, <4>2, <4>4 DEF c
    <3> HIDE DEF From
    <3> QED
      BY <3>1, <3>2
  <2>2. ASSUME Within(n)
        PROVE  LET c == queue[1]
               IN IF c.parent = None THEN c.node = walk.start
                  ELSE /\ c.node \in Refers(c.parent)
                       /\ walk.filter = AnyPartition => From(c, last, walk'.calls)
    <3>1. CASE queue[1].parent = None
      <4>1. None \notin Met
        BY <1>0, LinksAssumption DEF Met, WalkTypeOK
      <4> QED
        BY <1>3, <1>9, <3>1, <4>1
    <3>2. ASSUME queue[1].parent # None
          PROVE  queue[1].parent \in Met /\ n \in Refers(queue[1].parent)
      <4>1. queue[1].parent \in Met
        BY <1>3, <1>9, <3>2 DEF StopAt
      <4> QED
        BY <1>0, <1>3, <3>2, <4>1 DEF ChildrenWait
    <3>3. ASSUME queue[1].parent # None, walk.filter = AnyPartition
          PROVE  From(queue[1], last, walk'.calls)
      <4>1. PICK j \in DOMAIN walk.calls : walk.calls[j].node = queue[1].parent
        <5>1. Within(queue[1].parent)
          BY <3>3 DEF Within
        <5> QED
          BY <1>0, <3>2, <3>3, <5>1 DEF CalledOnce
      <4>2. j \in DOMAIN walk'.calls /\ walk'.calls[j] = walk.calls[j] /\ j < last /\ j \in Nat
        BY <1>5
      <4>3. ASSUME NEW k \in DOMAIN walk.calls, n \in Refers(walk.calls[k].node)
            PROVE  j <= k
        <5>1. PICK e \in DOMAIN queue : queue[e] = StopAt(n, walk.calls[k].node)
          BY <1>0, <1>1, <1>13, <4>3 DEF ChildrenWait
        <5>2. queue[e].parent = walk.calls[k].node /\ e \in Nat \ {0} /\ k \in Nat
          BY <1>1, <1>5, <5>1 DEF StopAt
        <5>3. CASE e = 1
          <6>1. j = k
            BY <1>0, <4>1, <5>2, <5>3 DEF CalledOnce
          <6> QED
            BY <5>2, <6>1
        <5>4. CASE e # 1
          <6>1. 1 < e
            BY <5>2, <5>4
          <6> QED
            BY <1>0, <1>3, <3>3, <4>1, <5>2, <6>1 DEF InTurn
        <5> QED
          BY <5>3, <5>4
      <4>4. ASSUME NEW k \in DOMAIN walk'.calls, n \in Refers(walk'.calls[k].node)
            PROVE  j <= k
        BY <1>5, <4>2, <4>3, <4>4
      <4>5. n = queue[1].node
        BY <1>3
      <4> QED
        BY <3>2, <3>3, <4>1, <4>2, <4>4, <4>5
    <3> HIDE DEF From
    <3> QED
      BY <1>3, <3>1, <3>2, <3>3
  <2>3. ASSUME NEW i \in DOMAIN walk'.calls
        PROVE  LET c == walk'.calls[i]
               IN IF c.parent = None THEN c.node = walk.start
                  ELSE /\ c.node \in Refers(c.parent)
                       /\ walk.filter = AnyPartition => From(c, i, walk'.calls)
    <3> HIDE DEF From
    <3>1. CASE i \in DOMAIN walk.calls /\ walk'.calls[i] = walk.calls[i]
      BY <2>1, <3>1
    <3>2. CASE Within(n) /\ i = last /\ walk'.calls[i] = queue[1]
      BY <2>2, <3>2
    <3> QED
      BY <1>5, <3>1, <3>2
  <2> QED
    BY <1>4, <1>8, <2>3 DEF FirstParent
<1>17. ParentsMet'
  <2>1. ASSUME queue[1].parent # None
        PROVE  queue[1].parent \in Met
    BY <1>3, <1>9, <2>1 DEF StopAt
  <2>2. ASSUME NEW i \in DOMAIN walk'.calls, walk'.calls[i].parent # None
        PROVE  walk'.calls[i].parent \in Met
    BY <1>0, <1>5, <2>1, <2>2 DEF ParentsMet
  <2> QED
    BY <1>7, <2>2 DEF ParentsMet
<1>18. walk' # NoWalk
  BY <1>0, <1>4, LinksAssumption DEF StartFirst, NoWalk
<1> QED
  BY <1>6, <1>10, <1>11, <1>12, <1>14, <1>15, <1>16, <1>17, <1>18 DEF WalkInv

\* Between calls only types matter: the host stores what is stored at the node, a new
\* node refers to nothing, and marks are taken away.
LEMMA HostKeeps ==
  ASSUME WalkInv, walk = NoWalk,
         \/ LinkStep
         \/ \E n \in Nodes, p \in PartitionIds : New(n, p)
         \/ \E n \in Nodes : \E v \in Stored[n] : Store(n, v)
         \/ \E p \in PartitionIds : TraverseStart(p)
  PROVE  WalkInv'
<1>1. WalkTypeOK /\ queue = <<>>
  BY DEF WalkInv
<1>2. queue' = queue /\ walk' = walk
  BY DEF LinkStep, New, Store, TraverseStart, traverseVars
<1>3. payload' \in [Nodes -> Payload]
  <2>1. CASE LinkStep \/ \E p \in PartitionIds : TraverseStart(p)
    BY <1>1, <2>1 DEF LinkStep, TraverseStart, traverseVars, WalkTypeOK
  <2>2. ASSUME NEW n \in Nodes, NEW p \in PartitionIds, New(n, p)
        PROVE  payload' \in [Nodes -> Payload]
    BY <1>1, <2>2 DEF New, WalkTypeOK, Payload
  <2>3. ASSUME NEW n \in Nodes, NEW v \in Stored[n], Store(n, v)
        PROVE  payload' \in [Nodes -> Payload]
    <3>1. v \in Payload
      BY DEF Payload
    <3> QED
      BY <1>1, <2>3, <3>1 DEF Store, WalkTypeOK
  <2> QED
    BY <2>1, <2>2, <2>3
<1>4. visited' \in SUBSET Nodes
  BY <1>1 DEF LinkStep, New, Store, TraverseStart, traverseVars, WalkTypeOK
<1>5. WalkTypeOK'
  BY <1>1, <1>2, <1>3, <1>4 DEF WalkTypeOK, MaybeNode
<1> QED
  BY <1>1, <1>2, <1>5 DEF WalkInv

\* The loop ends.
LEMMA EndKeeps ==
  ASSUME WalkInv, EndTraverse
  PROVE  WalkInv'
<1>1. WalkTypeOK /\ queue' = <<>> /\ walk' = NoWalk /\ payload' = payload /\ visited' = visited
  BY DEF WalkInv, EndTraverse
<1>2. NoWalk \in [start : MaybeNode, filter : PartitionIds \union {AnyPartition},
                  before : SUBSET Nodes, calls : Seq(Stops)]
  <2>1. None \in MaybeNode /\ <<>> \in Seq(Stops) /\ {} \in SUBSET Nodes
    BY DEF MaybeNode
  <2> QED
    BY <2>1 DEF NoWalk
<1>3. queue' \in Seq(Stops)
  BY <1>1
<1>4. WalkTypeOK'
  BY <1>1, <1>2, <1>3 DEF WalkTypeOK, MaybeNode
<1> QED
  BY <1>1, <1>4 DEF WalkInv

\* Every step keeps the invariant.
LEMMA WalkStep ==
  ASSUME WalkInv, [Next]_vars
  PROVE  WalkInv'
<1>1. CASE LinkStep
  BY <1>1, HostKeeps DEF LinkStep
<1>2. CASE Visit
  <2> DEFINE n == Head(queue).node
  <2>1. walk # NoWalk /\ queue # <<>> /\ payload' = payload /\ home' = home
    BY <1>2 DEF Visit, WalkInv, linkVars
  <2>2. CASE n \in visited /\ queue' = Tail(queue) /\ UNCHANGED <<visited, walk>>
    BY <2>1, <2>2, SkipKeeps
  <2>3. CASE Visiting(n)
    BY <2>3, VisitKeeps
  <2>4. \/ n \in visited /\ queue' = Tail(queue) /\ UNCHANGED <<visited, walk>>
        \/ Visiting(n)
    BY <1>2, <2>1 DEF Visit, Visiting, Enqueue, Within
  <2> HIDE DEF n
  <2> QED
    BY <2>2, <2>3, <2>4
<1>3. CASE EndTraverse
  BY <1>3, EndKeeps
<1>4. ASSUME NEW n \in Nodes, NEW p \in PartitionIds, New(n, p)
      PROVE  WalkInv'
  BY <1>4, HostKeeps DEF New
<1>5. ASSUME NEW n \in Nodes, NEW v \in Stored[n], Store(n, v)
      PROVE  WalkInv'
  BY <1>5, HostKeeps DEF Store
<1>6. ASSUME NEW n \in Nodes, NEW filter \in PartitionIds \union {AnyPartition},
             BeginTraverse(n, filter)
      PROVE  WalkInv'
  BY <1>6, BeginKeeps
<1>7. ASSUME NEW p \in PartitionIds, TraverseStart(p)
      PROVE  WalkInv'
  BY <1>7, HostKeeps DEF TraverseStart
<1>8. CASE UNCHANGED vars
  <2>1. /\ payload' = payload /\ visited' = visited /\ queue' = queue /\ walk' = walk
        /\ home' = home
    BY <1>8 DEF vars, traverseVars, linkVars
  <2>2. Reach' = Reach /\ Met' = Met /\ \A m : Refers(m)' = Refers(m)
    BY <2>1, ReachSame DEF Met
  <2>3. \A m : Within(m)' = Within(m)
    BY <2>1 DEF Within
  <2>4. WalkTypeOK' = WalkTypeOK /\ StartFirst' = StartFirst /\ OnlyReachable' = OnlyReachable
    BY <2>1, <2>2 DEF WalkTypeOK, MaybeNode, StartFirst, OnlyReachable
  <2>5. ChildrenWait' = ChildrenWait /\ CalledOnce' = CalledOnce
    BY <2>1, <2>2, <2>3 DEF ChildrenWait, CalledOnce
  <2>6. InTurn' = InTurn /\ FirstParent' = FirstParent /\ ParentsMet' = ParentsMet
    BY <2>1, <2>2 DEF InTurn, FirstParent, ParentsMet
  <2> QED
    BY <2>1, <2>4, <2>5, <2>6 DEF WalkInv
<1> QED
  BY <1>1, <1>2, <1>3, <1>4, <1>5, <1>6, <1>7, <1>8 DEF Next

\* The invariant holds of traverse.
THEOREM WalkInvariant == Spec => []WalkInv
<1>1. Init => WalkInv
  <2> SUFFICES ASSUME Init PROVE WalkInv
    OBVIOUS
  <2>1. payload = [n \in Nodes |-> NoRefs] /\ visited = {} /\ queue = <<>> /\ walk = NoWalk
    BY DEF Init
  <2>2. payload \in [Nodes -> Payload] /\ queue \in Seq(Stops)
    BY <2>1 DEF Payload
  <2>3. NoWalk \in [start : MaybeNode, filter : PartitionIds \union {AnyPartition},
                    before : SUBSET Nodes, calls : Seq(Stops)]
    <3>1. None \in MaybeNode /\ <<>> \in Seq(Stops) /\ {} \in SUBSET Nodes
      BY DEF MaybeNode
    <3> QED
      BY <3>1 DEF NoWalk
  <2>4. WalkTypeOK
    BY <2>1, <2>2, <2>3 DEF WalkTypeOK
  <2> QED
    BY <2>1, <2>4 DEF WalkInv
<1>2. WalkInv /\ [Next]_vars => WalkInv'
  BY WalkStep
<1> QED
  BY <1>1, <1>2, PTL DEF Spec

-----------------------------------------------------------------------------
(* What the traversal promises.                                            *)

\* When the queue is empty, what was visited is closed under references, so it has
\* everything that can be reached.
LEMMA AllMet ==
  ASSUME WalkInv, walk # NoWalk, queue = <<>>
  PROVE  Met = Reach
<1>1. WalkTypeOK /\ StartFirst /\ OnlyReachable /\ ChildrenWait /\ DOMAIN queue = {}
  BY DEF WalkInv
<1>2. Met \in SUBSET Nodes
  BY <1>1 DEF WalkTypeOK, Met
<1>3. {walk.start} \ walk.before \subseteq Met
  <2>1. queue # <<StopAt(walk.start, None)>>
    OBVIOUS
  <2> QED
    BY <1>1, <2>1 DEF StartFirst
<1>4. ASSUME NEW m \in Met, NEW c \in Refers(m) \ walk.before
      PROVE  c \in Met
  <2>1. c \in visited
    BY <1>1 DEF ChildrenWait
  <2> QED
    BY <2>1 DEF Met
<1>5. ClosedWalk(Met)
  BY <1>3, <1>4 DEF ClosedWalk
<1>6. Reach \subseteq Met
  BY <1>2, <1>5 DEF Reach
<1> QED
  BY <1>1, <1>6 DEF OnlyReachable

\* A finished traversal has called back exactly once for each node of the filter's
\* partition that can be reached, also through other partitions, whatever the
\* references are and whatever marks earlier traversals left.
THEOREM VisitsWhatItReaches == Spec => []VisitsReachable
<1>1. ASSUME WalkInv
      PROVE  VisitsReachable
  <2> SUFFICES ASSUME walk # NoWalk, queue = <<>>
               PROVE  /\ IsInjective(Callbacks)
                      /\ Range(Callbacks) =
                            {n \in Reach : walk.filter \in {AnyPartition, home[n]}}
    BY DEF VisitsReachable
  <2>1. Met = Reach
    BY <1>1, AllMet
  <2>2. CalledOnce
    BY <1>1 DEF WalkInv
  <2>3. Callbacks = [i \in DOMAIN walk.calls |-> walk.calls[i].node]
    BY DEF Callbacks
  <2>4. IsInjective(Callbacks)
    BY <2>2, <2>3 DEF CalledOnce, IsInjective
  <2>5. Range(Callbacks) = {n \in Reach : Within(n)}
    BY <2>1, <2>2, <2>3 DEF CalledOnce, Range
  <2> QED
    BY <2>4, <2>5 DEF Within
<1> QED
  BY <1>1, WalkInvariant, PTL

\* The parent of a callback refers to the node and was visited in this call, and without
\* a filter it was called back earlier: for any references, marks and filter.
THEOREM ParentsLeadBack == Spec => []ParentsLead
<1>1. ASSUME WalkInv
      PROVE  ParentsLead
  <2>1. CASE walk = NoWalk
    <3>1. DOMAIN walk.calls = {}
      BY <2>1 DEF NoWalk
    <3> QED
      BY <3>1 DEF ParentsLead
  <2>2. CASE walk # NoWalk
    <3>0. /\ FirstParent /\ ParentsMet /\ DOMAIN walk.calls = 1..Len(walk.calls)
          /\ Len(walk.calls) \in Nat
      <4>1. walk.calls \in Seq(Stops)
        BY <1>1 DEF WalkInv, WalkTypeOK
      <4> QED
        BY <1>1, <2>2, <4>1 DEF WalkInv
    <3>1. ASSUME NEW i \in DOMAIN walk.calls, walk.filter = AnyPartition,
                 walk.calls[i].parent # None
          PROVE  \E j \in 1..(i - 1) : walk.calls[j].node = walk.calls[i].parent
      <4>1. PICK j \in DOMAIN walk.calls : j < i /\ walk.calls[i].parent = walk.calls[j].node
        BY <3>0, <3>1 DEF FirstParent
      <4>2. j \in 1..(i - 1)
        BY <3>0, <4>1
      <4> QED
        BY <4>1, <4>2
    <3>2. ASSUME NEW i \in DOMAIN walk.calls
          PROVE  LET c == walk.calls[i]
                 IN IF c.parent = None THEN c.node = walk.start ELSE c.node \in Refers(c.parent)
      BY <3>0 DEF FirstParent
    <3> QED
      BY <3>0, <3>1, <3>2 DEF ParentsLead, ParentsMet, Met
  <2> QED
    BY <2>1, <2>2
<1> QED
  BY <1>1, WalkInvariant, PTL

\* The parent of a callback is, without a filter, the first node called back that refers
\* to the node, so parents lead back on a shortest path.  That is breadth first, where
\* the comment of traverse promises depth first.
THEOREM ParentsComeFirst == Spec => []FirstParent
<1>1. ASSUME WalkInv
      PROVE  FirstParent
  <2>1. CASE walk = NoWalk
    <3>1. DOMAIN walk.calls = {}
      BY <2>1 DEF NoWalk
    <3> QED
      BY <3>1 DEF FirstParent
  <2>2. CASE walk # NoWalk
    BY <1>1, <2>2 DEF WalkInv
  <2> QED
    BY <2>1, <2>2
<1> QED
  BY <1>1, WalkInvariant, PTL

-----------------------------------------------------------------------------
(* The chains under a traversal.                                           *)

\* Payloads, marks and calls of traverse only hold chain operations back: each step
\* is one of the chains or leaves them as they are.
THEOREM TraverseKeepsChains == Spec => LinksSpec
<1>1. Init => LinksInit
  BY DEF Init
<1>2. [Next]_vars => [LinksNext]_linkVars
  <2> SUFFICES ASSUME [Next]_vars PROVE [LinksNext]_linkVars
    OBVIOUS
  <2>1. CASE LinkStep
    <3>1. CASE \E p \in PartitionIds :
                 /\ HostMayUse(p)
                 /\ \/ \E D \in SUBSET NodesOf(p) :
                          Unreferenced(D) /\ (UnlinkStart(p, D) \/ SweepStart(p, D))
                    \/ Unreferenced(NodesOf(p)) /\ FinalizeStart(p)
      BY <3>1 DEF LinksNext
    <3>2. CASE DropPayloads \/ DisposeStart \/ DeallocStart \/ DropHeap \/ Round
      BY <3>2 DEF LinksNext
    <3> QED
      BY <2>1, <3>1, <3>2 DEF LinkStep
  <2>2. ASSUME NEW n \in Nodes, NEW p \in PartitionIds, New(n, p)
        PROVE  LinksNext
    BY <2>2 DEF New, LinksNext
  <2>3. ASSUME NEW n \in Nodes, NEW v \in Stored[n], Store(n, v)
        PROVE  UNCHANGED linkVars
    BY <2>3 DEF Store
  <2>4. ASSUME NEW n \in Nodes, NEW filter \in PartitionIds \union {AnyPartition},
               BeginTraverse(n, filter)
        PROVE  UNCHANGED linkVars
    BY <2>4 DEF BeginTraverse
  <2>5. ASSUME NEW p \in PartitionIds, TraverseStart(p)
        PROVE  UNCHANGED linkVars
    BY <2>5 DEF TraverseStart
  <2>6. CASE Visit \/ EndTraverse \/ UNCHANGED vars
    BY <2>6 DEF Visit, EndTraverse, vars
  <2> QED
    BY <2>1, <2>2, <2>3, <2>4, <2>5, <2>6 DEF Next
<1> QED
  BY <1>1, <1>2, PTL DEF Spec, LinksSpec

\* So what holds of the chains holds under traversals: their walks find every node
\* once, keep their order and drop each payload once, in the order of the passes but in
\* sweep_drop_payloads.
THEOREM ChainsUnderTraverse ==
  Spec => []LinksTypeOK /\ []EachInOneList /\ []DropsOnce /\ OrderKept /\ PassesInOrder
<1> QED
  BY TraverseKeepsChains, LinksTyped, NoNodeLost, PayloadsDropOnce, ChainsKeepOrder, DropsByPass,
     PTL
=============================================================================
