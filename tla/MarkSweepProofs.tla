--------------------------- MODULE MarkSweepProofs ---------------------------
(***************************************************************************)
(* Theorems about the collector, for every set of nodes and partitions.    *)
(*                                                                         *)
(* The host keeps references inside a partition (~CrossRefs) and protects  *)
(* a node through scopes of its own partition (~ForeignScopes): with       *)
(* either of the two the code does not keep the invariant, as the runs     *)
(* MarkSweepCross and MarkSweepForeign show.                               *)
(*                                                                         *)
(* IInv is inductive: one lemma per action, one step per conjunct.  Safety *)
(* follows, and from it that the collector implements CollectedHeap.  The  *)
(* last part is about garbage_collect: GcSpec keeps all this, and leaves   *)
(* no garbage in a partition.                                              *)
(***************************************************************************)
EXTENDS GarbageCollect, TLAPS

-----------------------------------------------------------------------------
(* IInv holds initially and every action preserves it.                     *)

\* Pushing a node on the list of its own partition keeps the GRAY_LISTED flags
\* truthful: the node was on that list already, or it is now.
LEMMA EnlistPushes ==
  ASSUME TypeOK, ListedSound, NEW n \in Nodes, Enlist(Home[n], n)
  PROVE  ListedSound'
<1>1. n \in gray'[Home[n]]
  BY HomeAssumption DEF TypeOK, ListedSound, Enlist
<1>2. \A q \in Partitions : gray[q] \subseteq gray'[q]
  BY HomeAssumption DEF TypeOK, Enlist
<1> QED
  BY <1>1, <1>2, HomeAssumption DEF TypeOK, ListedSound, Enlist

\* alloc_raw (alloc_node_mem): the new node is White and on no list, whatever
\* its partition is doing; nothing refers to it yet.
LEMMA AllocRawStep ==
  ASSUME ~CrossRefs, IInv, NEW n \in Nodes, NEW S \in SUBSET Nodes, AllocRaw(n, S)
  PROVE  IInv'
<1>1. TypeOK'
  BY DEF IInv, TypeOK, AllocRaw, NewNode, Unused
<1>2. LocalEdges'
  BY DEF IInv, TypeOK, AllocRaw, NewNode, Storable, LocalEdges
<1>3. FreshWhite'
  BY DEF IInv, TypeOK, AllocRaw, NewNode, FreshWhite
<1>4. TriColor'
  BY DEF IInv, TypeOK, AllocRaw, NewNode, Unused, FreshWhite, TriColor
<1>5. GraysPending'
  BY DEF IInv, TypeOK, AllocRaw, NewNode, FreshWhite, GraysPending
<1>6. ProtectedShaded'
  BY DEF IInv, TypeOK, AllocRaw, NewNode, ProtectedShaded, Protected
<1>7. ListedSound'
  BY DEF IInv, TypeOK, AllocRaw, ListedSound
<1>8. GrayListsOwned'
  BY DEF IInv, TypeOK, AllocRaw, NewNode, GrayListsOwned
<1> QED
  BY <1>1, <1>2, <1>3, <1>4, <1>5, <1>6, <1>7, <1>8 DEF IInv

\* alloc_root_raw: the new root is shaded when its partition marks.
LEMMA AllocRootStep ==
  ASSUME ~CrossRefs, IInv, NEW n \in Nodes, NEW S \in SUBSET Nodes, AllocRoot(n, S)
  PROVE  IInv'
<1>1. TypeOK'
  BY DEF IInv, TypeOK, AllocRoot, NewNode, Unused, ShadeIfMarking,
     AddGrayNode, Enlist, markVars, Colors
<1>2. LocalEdges'
  BY DEF IInv, TypeOK, AllocRoot, NewNode, Storable, markVars, LocalEdges
<1>3. FreshWhite'
  BY DEF IInv, TypeOK, AllocRoot, NewNode, ShadeIfMarking, AddGrayNode,
     Enlist, markVars, FreshWhite
<1>4. TriColor'
  BY DEF IInv, TypeOK, AllocRoot, NewNode, Unused, ShadeIfMarking,
     AddGrayNode, Enlist, markVars, FreshWhite, TriColor
<1>5. GraysPending'
  BY DEF IInv, TypeOK, AllocRoot, NewNode, Unused, ShadeIfMarking,
     AddGrayNode, Enlist, markVars, GraysPending
<1>6. ProtectedShaded'
  BY DEF IInv, TypeOK, AllocRoot, NewNode, ShadeIfMarking, AddGrayNode,
     Enlist, markVars, ProtectedShaded, Protected
<1>7. ListedSound'
  BY EnlistPushes DEF IInv, TypeOK, AllocRoot, ShadeIfMarking, AddGrayNode,
     markVars, ListedSound
<1>8. GrayListsOwned'
  BY DEF IInv, TypeOK, AllocRoot, NewNode, ShadeIfMarking, AddGrayNode,
     Enlist, markVars, GrayListsOwned
<1> QED
  BY <1>1, <1>2, <1>3, <1>4, <1>5, <1>6, <1>7, <1>8 DEF IInv

\* GcScopeState::alloc_local: the new local is shaded when its partition marks.
LEMMA AllocLocalStep ==
  ASSUME ~CrossRefs, IInv, NEW n \in Nodes, NEW S \in SUBSET Nodes, AllocLocal(n, S)
  PROVE  IInv'
<1>1. TypeOK'
  BY DEF IInv, TypeOK, AllocLocal, NewNode, Unused, ShadeIfMarking,
     AddGrayNode, Enlist, markVars, Colors
<1>2. LocalEdges'
  BY DEF IInv, TypeOK, AllocLocal, NewNode, Storable, markVars, LocalEdges
<1>3. FreshWhite'
  BY DEF IInv, TypeOK, AllocLocal, NewNode, ShadeIfMarking, AddGrayNode,
     Enlist, markVars, FreshWhite
<1>4. TriColor'
  BY DEF IInv, TypeOK, AllocLocal, NewNode, Unused, ShadeIfMarking,
     AddGrayNode, Enlist, markVars, FreshWhite, TriColor
<1>5. GraysPending'
  BY DEF IInv, TypeOK, AllocLocal, NewNode, Unused, ShadeIfMarking,
     AddGrayNode, Enlist, markVars, GraysPending
<1>6. ProtectedShaded'
  BY DEF IInv, TypeOK, AllocLocal, NewNode, ShadeIfMarking, AddGrayNode,
     Enlist, markVars, ProtectedShaded, Protected
<1>7. ListedSound'
  BY EnlistPushes DEF IInv, TypeOK, AllocLocal, ShadeIfMarking, AddGrayNode,
     markVars, ListedSound
<1>8. GrayListsOwned'
  BY DEF IInv, TypeOK, AllocLocal, NewNode, ShadeIfMarking, AddGrayNode,
     Enlist, markVars, GrayListsOwned
<1> QED
  BY <1>1, <1>2, <1>3, <1>4, <1>5, <1>6, <1>7, <1>8 DEF IInv

\* set_root_node shades the new root when its partition marks.
LEMMA SetRootStep ==
  ASSUME ~CrossRefs, IInv, NEW n \in Nodes, SetRoot(n)
  PROVE  IInv'
<1>1. TypeOK'
  BY DEF IInv, TypeOK, SetRoot, ShadeIfMarking, AddGrayNode, Enlist,
     markVars, Colors
<1>2. LocalEdges'
  BY DEF IInv, TypeOK, SetRoot, markVars, LocalEdges
<1>3. FreshWhite'
  BY DEF IInv, TypeOK, SetRoot, ShadeIfMarking, AddGrayNode, Enlist,
     markVars, FreshWhite
<1>4. TriColor'
  BY DEF IInv, TypeOK, SetRoot, ShadeIfMarking, AddGrayNode, Enlist,
     markVars, TriColor
<1>5. GraysPending'
  BY DEF IInv, TypeOK, SetRoot, ShadeIfMarking, AddGrayNode, Enlist,
     markVars, GraysPending, ListedSound
<1>6. ProtectedShaded'
  BY DEF IInv, TypeOK, SetRoot, ShadeIfMarking, AddGrayNode, Enlist,
     markVars, ProtectedShaded, Protected
<1>7. ListedSound'
  BY EnlistPushes DEF IInv, TypeOK, SetRoot, ShadeIfMarking, AddGrayNode,
     markVars, ListedSound
<1>8. GrayListsOwned'
  BY DEF IInv, TypeOK, SetRoot, ShadeIfMarking, AddGrayNode, Enlist,
     markVars, GrayListsOwned
<1> QED
  BY <1>1, <1>2, <1>3, <1>4, <1>5, <1>6, <1>7, <1>8 DEF IInv

\* GcScopeState::add_node, called through a scope of the node's own partition,
\* shades the new local when the partition marks.
LEMMA ProtectStep ==
  ASSUME ~CrossRefs, ~ForeignScopes, IInv, NEW p \in Partitions, NEW n \in Nodes, Protect(p, n)
  PROVE  IInv'
<1>1. TypeOK'
  BY DEF IInv, TypeOK, Protect, ShadeIfMarking, AddGrayNode, Enlist,
     markVars, Colors
<1>2. LocalEdges'
  BY DEF IInv, TypeOK, Protect, markVars, LocalEdges
<1>3. FreshWhite'
  BY DEF IInv, TypeOK, Protect, ShadeIfMarking, AddGrayNode, Enlist,
     markVars, FreshWhite
<1>4. TriColor'
  BY DEF IInv, TypeOK, Protect, ShadeIfMarking, AddGrayNode, Enlist,
     markVars, TriColor
<1>5. GraysPending'
  BY DEF IInv, TypeOK, Protect, ShadeIfMarking, AddGrayNode, Enlist,
     markVars, GraysPending, ListedSound
<1>6. ProtectedShaded'
  BY DEF IInv, TypeOK, Protect, ShadeIfMarking, AddGrayNode, Enlist,
     markVars, ProtectedShaded, Protected
<1>7. ListedSound'
  BY EnlistPushes DEF IInv, TypeOK, Protect, ShadeIfMarking, AddGrayNode,
     markVars, ListedSound
<1>8. GrayListsOwned'
  BY DEF IInv, TypeOK, Protect, ShadeIfMarking, AddGrayNode, Enlist,
     markVars, GrayListsOwned
<1> QED
  BY <1>1, <1>2, <1>3, <1>4, <1>5, <1>6, <1>7, <1>8 DEF IInv

\* GcHeap::add_gray_node called by the host.
LEMMA HostAddGrayNodeStep ==
  ASSUME ~CrossRefs, IInv, NEW n \in Nodes, HostAddGrayNode(n)
  PROVE  IInv'
<1>1. TypeOK'
  BY DEF IInv, TypeOK, HostAddGrayNode, AddGrayNode, Enlist, markVars,
     Colors
<1>2. LocalEdges'
  BY DEF IInv, TypeOK, HostAddGrayNode, markVars, LocalEdges
<1>3. FreshWhite'
  BY DEF IInv, TypeOK, HostAddGrayNode, AddGrayNode, Enlist, markVars,
     FreshWhite
<1>4. TriColor'
  BY DEF IInv, TypeOK, HostAddGrayNode, AddGrayNode, Enlist, markVars,
     TriColor
<1>5. GraysPending'
  BY DEF IInv, TypeOK, HostAddGrayNode, AddGrayNode, Enlist, markVars,
     GraysPending, ListedSound
<1>6. ProtectedShaded'
  BY DEF IInv, TypeOK, HostAddGrayNode, AddGrayNode, Enlist, markVars,
     ProtectedShaded, Protected
<1>7. ListedSound'
  BY EnlistPushes DEF IInv, TypeOK, HostAddGrayNode, AddGrayNode, markVars,
     ListedSound
<1>8. GrayListsOwned'
  BY DEF IInv, TypeOK, HostAddGrayNode, AddGrayNode, Enlist, markVars,
     GrayListsOwned
<1> QED
  BY <1>1, <1>2, <1>3, <1>4, <1>5, <1>6, <1>7, <1>8 DEF IInv

\* GcScopeState::clear and remove_node only take protection away.
LEMMA UnprotectStep ==
  ASSUME ~CrossRefs, IInv, NEW S \in SUBSET Nodes, Unprotect(S)
  PROVE  IInv'
<1>1. TypeOK'
  BY DEF IInv, TypeOK, Unprotect
<1>2. LocalEdges'
  BY DEF IInv, TypeOK, Unprotect, LocalEdges
<1>3. FreshWhite'
  BY DEF IInv, TypeOK, Unprotect, FreshWhite
<1>4. TriColor'
  BY DEF IInv, TypeOK, Unprotect, TriColor
<1>5. GraysPending'
  BY DEF IInv, TypeOK, Unprotect, GraysPending
<1>6. ProtectedShaded'
  BY DEF IInv, TypeOK, Unprotect, ProtectedShaded, Protected
<1>7. ListedSound'
  BY DEF IInv, TypeOK, Unprotect, ListedSound
<1>8. GrayListsOwned'
  BY DEF IInv, TypeOK, Unprotect, GrayListsOwned
<1> QED
  BY <1>1, <1>2, <1>3, <1>4, <1>5, <1>6, <1>7, <1>8 DEF IInv

\* with_write_barrier: a Black node whose references change turns Gray again.
LEMMA WithWriteBarrierStep ==
  ASSUME ~CrossRefs, IInv, NEW m \in Nodes, NEW S \in SUBSET Nodes, WithWriteBarrier(m, S)
  PROVE  IInv'
<1>1. TypeOK'
  BY DEF IInv, TypeOK, WithWriteBarrier, Enlist, markVars, Colors
<1>2. LocalEdges'
  BY DEF IInv, TypeOK, WithWriteBarrier, Storable, markVars, LocalEdges
<1>3. FreshWhite'
  BY DEF IInv, TypeOK, WithWriteBarrier, Enlist, markVars, FreshWhite
<1>4. TriColor'
  BY DEF IInv, TypeOK, WithWriteBarrier, Enlist, markVars, TriColor
<1>5. GraysPending'
  BY DEF IInv, TypeOK, WithWriteBarrier, Enlist, markVars, GraysPending,
     ListedSound
<1>6. ProtectedShaded'
  BY DEF IInv, TypeOK, WithWriteBarrier, Enlist, markVars, ProtectedShaded,
     Protected
<1>7. ListedSound'
  BY EnlistPushes DEF IInv, TypeOK, WithWriteBarrier, markVars, ListedSound
<1>8. GrayListsOwned'
  BY DEF IInv, TypeOK, WithWriteBarrier, Enlist, markVars, GrayListsOwned
<1> QED
  BY <1>1, <1>2, <1>3, <1>4, <1>5, <1>6, <1>7, <1>8 DEF IInv

\* Overwriting a reference needs no barrier: fewer edges, same colors.
LEMMA DropRefsStep ==
  ASSUME ~CrossRefs, IInv, NEW m \in Nodes, NEW S \in SUBSET Nodes, DropRefs(m, S)
  PROVE  IInv'
<1>1. TypeOK'
  BY DEF IInv, TypeOK, DropRefs
<1>2. LocalEdges'
  BY DEF IInv, TypeOK, DropRefs, LocalEdges
<1>3. FreshWhite'
  BY DEF IInv, TypeOK, DropRefs, FreshWhite
<1>4. TriColor'
  BY DEF IInv, TypeOK, DropRefs, TriColor
<1>5. GraysPending'
  BY DEF IInv, TypeOK, DropRefs, GraysPending
<1>6. ProtectedShaded'
  BY DEF IInv, TypeOK, DropRefs, ProtectedShaded, Protected
<1>7. ListedSound'
  BY DEF IInv, TypeOK, DropRefs, ListedSound
<1>8. GrayListsOwned'
  BY DEF IInv, TypeOK, DropRefs, GrayListsOwned
<1> QED
  BY <1>1, <1>2, <1>3, <1>4, <1>5, <1>6, <1>7, <1>8 DEF IInv

\* bind: the stored node turns Gray when the node it is stored in is Black.
LEMMA BindStep ==
  ASSUME ~CrossRefs, IInv, NEW m \in Nodes, NEW s \in Nodes, Bind(m, s)
  PROVE  IInv'
<1>1. TypeOK'
  BY DEF IInv, TypeOK, Bind, Storable, Enlist, markVars, Colors
<1>2. LocalEdges'
  BY DEF IInv, TypeOK, Bind, Storable, markVars, LocalEdges
<1>3. FreshWhite'
  BY DEF IInv, TypeOK, Bind, Storable, Enlist, markVars, FreshWhite
<1>4. TriColor'
  BY DEF IInv, TypeOK, Bind, Enlist, markVars, TriColor
<1>5. GraysPending'
  BY DEF IInv, TypeOK, Bind, Enlist, markVars, GraysPending, ListedSound
<1>6. ProtectedShaded'
  BY DEF IInv, TypeOK, Bind, Enlist, markVars, ProtectedShaded, Protected
<1>7. ListedSound'
  BY EnlistPushes DEF IInv, TypeOK, Bind, markVars, ListedSound
<1>8. GrayListsOwned'
  BY DEF IInv, TypeOK, Bind, Enlist, markVars, GrayListsOwned
<1> QED
  BY <1>1, <1>2, <1>3, <1>4, <1>5, <1>6, <1>7, <1>8 DEF IInv

\* mark_prepare recolors the partitions that start a cycle and leaves the
\* others as they are, putting their protected nodes back on the list.
LEMMA MarkPrepareStep ==
  ASSUME ~CrossRefs, IInv, NEW p \in Partitions, MarkPrepare(p)
  PROVE  IInv'
<1>1. TypeOK'
  BY DEF IInv, TypeOK, MarkPrepare, SeedColor, Chain, heapVars, Colors
<1>2. LocalEdges'
  BY DEF IInv, TypeOK, MarkPrepare, heapVars, LocalEdges
<1>3. FreshWhite'
  BY DEF IInv, TypeOK, MarkPrepare, heapVars, FreshWhite
<1>4. TriColor'
  BY DEF IInv, TypeOK, MarkPrepare, SeedColor, GrayPartitions, heapVars,
     TriColor, GrayListsOwned
<1>5. GraysPending'
  BY DEF IInv, TypeOK, MarkPrepare, SeedColor, GrayPartitions, Chain,
     heapVars, GraysPending, ListedSound, GrayListsOwned
<1>6. ProtectedShaded'
  BY DEF IInv, TypeOK, MarkPrepare, SeedColor, heapVars, ProtectedShaded,
     Protected
<1>7. ListedSound'
  BY HomeAssumption DEF IInv, TypeOK, MarkPrepare, GrayPartitions, Chain,
     heapVars, ListedSound
<1>8. GrayListsOwned'
  BY DEF IInv, TypeOK, MarkPrepare, Chain, heapVars, GrayListsOwned
<1> QED
  BY <1>1, <1>2, <1>3, <1>4, <1>5, <1>6, <1>7, <1>8 DEF IInv

\* mark_grays: the node traced turns Black, its children are at least Gray and on
\* the list, and the entries the loop pops are Black, pushed back, or the last.
LEMMA MarkGraysStep ==
  ASSUME ~CrossRefs, IInv, NEW p \in Partitions, NEW n \in Nodes, MarkGrays(p, n)
  PROVE  IInv'
<1> DEFINE pushed == [q \in Partitions |->
                         (IF q = p THEN gray[p] \ {n} ELSE gray[q])
                             \union {c \in GrayChildren(n) : Home[c] = q}]
           flagged == (listed \ {n}) \union GrayChildren(n)
<1>0. \/ /\ \A c \in pushed[p] : color'[c] # "Gray"
         /\ gray' = [pushed EXCEPT ![p] = {}]
         /\ listed' = flagged \ pushed[p]
      \/ \E top \in pushed[p], done \in SUBSET pushed[p] :
            /\ color'[top] = "Gray"
            /\ \A c \in done : color'[c] = "Black"
            /\ gray' = [pushed EXCEPT ![p] = PushBack(@, done, top)]
            /\ listed' = flagged \ (done \union {top})
  BY Zenon DEF MarkGrays
<1>1. /\ n \in linked /\ Home[n] = p /\ p \in marking /\ n \in gray[p] /\ color[n] = "Gray"
      /\ GrayChildren(n) \subseteq linked
      /\ \A c \in GrayChildren(n) : Home[c] = p
  BY DEF IInv, TypeOK, LocalEdges, GrayListsOwned, MarkGrays, GrayChildren
<1>2. /\ color' = [c \in Nodes |-> IF c = n THEN "Black"
                               ELSE IF c \in GrayChildren(n) THEN "Gray"
                               ELSE color[c]]
      /\ linked' = linked /\ condemned' = condemned /\ root' = root /\ local' = local
      /\ refs' = refs /\ marking' = marking
  BY DEF MarkGrays
<1>3. /\ pushed \in [Partitions -> SUBSET linked]
      /\ flagged \subseteq linked
      /\ \A q \in Partitions : q # p => pushed[q] = gray[q]
      /\ pushed[p] = (gray[p] \ {n}) \union GrayChildren(n)
  BY <1>1 DEF IInv, TypeOK
<1>4. /\ gray' \in [Partitions -> SUBSET linked]
      /\ \A q \in Partitions : q # p => gray'[q] = gray[q]
      /\ gray'[p] \subseteq pushed[p]
      /\ \A c \in pushed[p] : color'[c] = "Gray" => c \in gray'[p]
      /\ listed' \subseteq flagged
      /\ \A c \in listed' \intersect pushed[p] : c \in gray'[p]
  <2> HIDE DEF pushed, flagged
  <2>1. CASE /\ \A c \in pushed[p] : color'[c] # "Gray"
             /\ gray' = [pushed EXCEPT ![p] = {}]
             /\ listed' = flagged \ pushed[p]
    BY <2>1, <1>3 DEF IInv, TypeOK
  <2>2. ASSUME NEW top \in pushed[p], NEW done \in SUBSET pushed[p],
               color'[top] = "Gray",
               \A c \in done : color'[c] = "Black",
               gray' = [pushed EXCEPT ![p] = PushBack(@, done, top)],
               listed' = flagged \ (done \union {top})
        PROVE  <1>4!:
    BY <2>2, <1>3 DEF PushBack
  <2> QED
    BY <1>0, <2>1, <2>2
<1> HIDE DEF pushed, flagged
<1>5. TypeOK'
  BY <1>1, <1>2, <1>3, <1>4 DEF IInv, TypeOK, Colors
<1>6. LocalEdges' /\ FreshWhite'
  BY <1>1, <1>2 DEF IInv, TypeOK, LocalEdges, FreshWhite
<1>7. TriColor'
  BY <1>1, <1>2 DEF IInv, TypeOK, TriColor, GrayChildren, LocalEdges
<1>8. GraysPending'
  BY <1>1, <1>2, <1>3, <1>4, HomeAssumption DEF IInv, TypeOK, GraysPending
<1>9. ProtectedShaded'
  BY <1>1, <1>2 DEF IInv, TypeOK, ProtectedShaded, Protected
<1>10. ListedSound'
  BY <1>1, <1>3, <1>4, HomeAssumption DEF IInv, TypeOK, ListedSound, GrayListsOwned, flagged
<1>11. GrayListsOwned'
  BY <1>1, <1>2, <1>3, <1>4 DEF IInv, TypeOK, GrayListsOwned
<1> QED
  BY <1>5, <1>6, <1>7, <1>8, <1>9, <1>10, <1>11 DEF IInv

\* mark_reset empties the list together with the flags of its entries.
LEMMA MarkResetStep ==
  ASSUME ~CrossRefs, IInv, NEW p \in Partitions, MarkReset(p)
  PROVE  IInv'
<1>1. TypeOK'
  BY DEF IInv, TypeOK, MarkReset, heapVars, Colors
<1>2. LocalEdges'
  BY DEF IInv, TypeOK, MarkReset, heapVars, LocalEdges
<1>3. FreshWhite'
  BY DEF IInv, TypeOK, MarkReset, heapVars, FreshWhite
<1>4. TriColor'
  BY DEF IInv, TypeOK, MarkReset, Chain, heapVars, TriColor
<1>5. GraysPending'
  BY DEF IInv, TypeOK, MarkReset, heapVars, GraysPending
<1>6. ProtectedShaded'
  BY DEF IInv, TypeOK, MarkReset, Chain, heapVars, ProtectedShaded,
     Protected
<1>7. ListedSound'
  BY DEF IInv, TypeOK, MarkReset, heapVars, ListedSound
<1>8. GrayListsOwned'
  BY DEF IInv, TypeOK, MarkReset, heapVars, GrayListsOwned
<1> QED
  BY <1>1, <1>2, <1>3, <1>4, <1>5, <1>6, <1>7, <1>8 DEF IInv

\* sweep_unlink takes White nodes only, and no node that stays refers to one:
\* it would be Black, and TriColor forbids it.
LEMMA SweepUnlinkStep ==
  ASSUME ~CrossRefs, IInv, NEW p \in Partitions, SweepUnlink(p)
  PROVE  IInv'
<1>1. TypeOK'
  BY DEF IInv, TypeOK, SweepUnlink, Doomed, Chain, ListedSound,
     GrayListsOwned, Protected
<1>2. LocalEdges'
  BY DEF IInv, TypeOK, SweepUnlink, Doomed, Chain, LocalEdges, TriColor,
     GraysPending, ProtectedShaded, Colors
<1>3. FreshWhite'
  BY DEF IInv, TypeOK, SweepUnlink, Doomed, FreshWhite
<1>4. TriColor'
  BY DEF IInv, TypeOK, SweepUnlink, TriColor
<1>5. GraysPending'
  BY DEF IInv, TypeOK, SweepUnlink, GraysPending
<1>6. ProtectedShaded'
  BY DEF IInv, TypeOK, SweepUnlink, ProtectedShaded, Protected
<1>7. ListedSound'
  BY DEF IInv, TypeOK, SweepUnlink, ListedSound
<1>8. GrayListsOwned'
  BY DEF IInv, TypeOK, SweepUnlink, GrayListsOwned
<1> QED
  BY <1>1, <1>2, <1>3, <1>4, <1>5, <1>6, <1>7, <1>8 DEF IInv

\* sweep_dispose frees nodes that are in no chain.
LEMMA SweepDisposeStep ==
  ASSUME ~CrossRefs, IInv, NEW p \in Partitions, SweepDispose(p)
  PROVE  IInv'
<1>1. TypeOK'
  BY DEF IInv, TypeOK, SweepDispose, Forget, Colors
<1>2. LocalEdges'
  BY DEF IInv, TypeOK, SweepDispose, Forget, LocalEdges
<1>3. FreshWhite'
  BY DEF IInv, TypeOK, SweepDispose, Forget, FreshWhite
<1>4. TriColor'
  BY DEF IInv, TypeOK, SweepDispose, Forget, LocalEdges, TriColor
<1>5. GraysPending'
  BY DEF IInv, TypeOK, SweepDispose, Forget, GraysPending
<1>6. ProtectedShaded'
  BY DEF IInv, TypeOK, SweepDispose, Forget, ProtectedShaded, Protected
<1>7. ListedSound'
  BY DEF IInv, TypeOK, SweepDispose, Forget, ListedSound
<1>8. GrayListsOwned'
  BY DEF IInv, TypeOK, SweepDispose, GrayListsOwned
<1> QED
  BY <1>1, <1>2, <1>3, <1>4, <1>5, <1>6, <1>7, <1>8 DEF IInv

\* sweep unlinks and frees at once, by the argument of SweepUnlink.
LEMMA SweepStep ==
  ASSUME ~CrossRefs, IInv, NEW p \in Partitions, Sweep(p)
  PROVE  IInv'
<1>1. TypeOK'
  BY DEF IInv, TypeOK, Sweep, Forget, Doomed, Chain, GrayListsOwned
<1>2. LocalEdges'
  BY DEF IInv, TypeOK, Sweep, Forget, Doomed, Chain, LocalEdges, TriColor,
     GraysPending, ProtectedShaded, Colors
<1>3. FreshWhite'
  BY DEF IInv, TypeOK, Sweep, Forget, FreshWhite
<1>4. TriColor'
  BY DEF IInv, TypeOK, Sweep, Forget, Doomed, TriColor
<1>5. GraysPending'
  BY DEF IInv, TypeOK, Sweep, Forget, GraysPending
<1>6. ProtectedShaded'
  BY DEF IInv, TypeOK, Sweep, Forget, ProtectedShaded, Protected
<1>7. ListedSound'
  BY DEF IInv, TypeOK, Sweep, Forget, ListedSound
<1>8. GrayListsOwned'
  BY DEF IInv, TypeOK, Sweep, GrayListsOwned
<1> QED
  BY <1>1, <1>2, <1>3, <1>4, <1>5, <1>6, <1>7, <1>8 DEF IInv

\* dealloc_partition frees the whole chain with its list.
LEMMA RemovePartitionStep ==
  ASSUME ~CrossRefs, IInv, NEW p \in Partitions, RemovePartition(p)
  PROVE  IInv'
<1>1. TypeOK'
  BY DEF IInv, TypeOK, RemovePartition, Forget, Chain, GrayListsOwned,
     Colors
<1>2. LocalEdges'
  BY DEF IInv, TypeOK, RemovePartition, Forget, LocalEdges
<1>3. FreshWhite'
  BY DEF IInv, TypeOK, RemovePartition, Forget, FreshWhite
<1>4. TriColor'
  BY DEF IInv, TypeOK, RemovePartition, Forget, TriColor
<1>5. GraysPending'
  BY DEF IInv, TypeOK, RemovePartition, Forget, GraysPending
<1>6. ProtectedShaded'
  BY DEF IInv, TypeOK, RemovePartition, Forget, ProtectedShaded, Protected
<1>7. ListedSound'
  BY DEF IInv, TypeOK, RemovePartition, Forget, Chain, ListedSound
<1>8. GrayListsOwned'
  BY DEF IInv, TypeOK, RemovePartition, GrayListsOwned
<1> QED
  BY <1>1, <1>2, <1>3, <1>4, <1>5, <1>6, <1>7, <1>8 DEF IInv

\* A new heap has no nodes.
LEMMA InitIInv ==
  ASSUME Init
  PROVE  IInv
BY DEF Init, IInv, TypeOK, LocalEdges, FreshWhite, TriColor, GraysPending,
       ProtectedShaded, ListedSound, GrayListsOwned, Colors, Protected

\* Nothing IInv speaks of changes in a stuttering step.
LEMMA StutterIInv ==
  ASSUME IInv, UNCHANGED vars
  PROVE  IInv'
BY DEF vars, IInv, TypeOK, LocalEdges, FreshWhite, TriColor, GraysPending,
       ProtectedShaded, ListedSound, GrayListsOwned, Protected

\* Whatever runs next, IInv survives.
LEMMA NextIInv ==
  ASSUME ~CrossRefs, ~ForeignScopes, IInv, [Next]_vars
  PROVE  IInv'
<1>1. CASE Allocate
  BY <1>1, AllocRawStep, AllocRootStep, AllocLocalStep DEF Allocate
<1>2. CASE Host
  BY <1>2, SetRootStep, HostAddGrayNodeStep, ProtectStep, UnprotectStep,
     WithWriteBarrierStep, DropRefsStep, BindStep DEF Host
<1>3. CASE Collect
  BY <1>3, MarkPrepareStep, MarkGraysStep, MarkResetStep, SweepUnlinkStep,
     SweepDisposeStep, SweepStep, RemovePartitionStep DEF Collect
<1>4. CASE UNCHANGED vars
  BY <1>4, StutterIInv
<1> QED
  BY <1>1, <1>2, <1>3, <1>4 DEF Next

-----------------------------------------------------------------------------

\* The invariants of the collector hold in every state it can reach, whatever
\* the host does between two of its calls.
THEOREM Safety ==
  ASSUME ~CrossRefs, ~ForeignScopes
  PROVE  Spec => []IInv
<1>1. Init => IInv
  BY InitIInv
<1>2. IInv /\ [Next]_vars => IInv'
  BY NextIInv
<1> QED
  BY <1>1, <1>2, PTL DEF Spec

\* The collector's state keeps its shape: what is flagged or listed is in a chain.
THEOREM TypeSafety ==
  ASSUME ~CrossRefs, ~ForeignScopes
  PROVE  Spec => []TypeOK
<1>1. IInv => TypeOK
  BY DEF IInv
<1> QED
  BY <1>1, Safety, PTL

\* No node in a chain ever refers to memory sweep or teardown has taken.
THEOREM NeverDangling ==
  ASSUME ~CrossRefs, ~ForeignScopes
  PROVE  Spec => []NoDangling
<1>1. IInv => NoDangling
  BY DEF IInv, LocalEdges, NoDangling
<1> QED
  BY <1>1, Safety, PTL

\* The two write barriers and mark_prepare's re-shading keep the tri-color
\* invariant between any two steps of a cycle.
THEOREM TriColorHolds ==
  ASSUME ~CrossRefs, ~ForeignScopes
  PROVE  Spec => []TriColor
<1>1. IInv => TriColor
  BY DEF IInv
<1> QED
  BY <1>1, Safety, PTL

\* mark_grays never runs out of work with a Gray node left untraced.
THEOREM NoGrayForgotten ==
  ASSUME ~CrossRefs, ~ForeignScopes
  PROVE  Spec => []GraysPending
<1>1. IInv => GraysPending
  BY DEF IInv
<1> QED
  BY <1>1, Safety, PTL

\* Allocation, set_root_node, protection and mark_prepare shade what they protect, so
\* no protected node is swept in the cycle that runs.
THEOREM ProtectedAreShaded ==
  ASSUME ~CrossRefs, ~ForeignScopes
  PROVE  Spec => []ProtectedShaded
<1>1. IInv => ProtectedShaded
  BY DEF IInv
<1> QED
  BY <1>1, Safety, PTL

\* GRAY_LISTED is set on no node that is not on its partition's list: the skip in
\* add_gray_node never loses a node.
THEOREM ListsAreSound ==
  ASSUME ~CrossRefs, ~ForeignScopes
  PROVE  Spec => []ListedSound
<1>1. IInv => ListedSound
  BY DEF IInv
<1> QED
  BY <1>1, Safety, PTL

\* A gray list has nodes of its own partition only, so the teardown of a partition
\* leaves no entry for freed memory behind.
THEOREM ListsAreOwned ==
  ASSUME ~CrossRefs, ~ForeignScopes
  PROVE  Spec => []GrayListsOwned
<1>1. IInv => GrayListsOwned
  BY DEF IInv
<1> QED
  BY <1>1, Safety, PTL

\* README.md:210 "Only root or scope-protected nodes, or nodes reachable from
\* them, are retained": what sweep frees is never among them.  MarkSweepCross
\* shows that this needs the assumption on references.
THEOREM ReachableKept ==
  ASSUME ~CrossRefs, ~ForeignScopes
  PROVE  Spec => []ReachableAlive
<1>1. IInv => ReachableAlive
  <2> SUFFICES ASSUME IInv
               PROVE  ReachableAlive
    OBVIOUS
  <2>1. Promise!Closed(linked) /\ linked \in SUBSET Nodes
    BY DEF Promise!Closed, IInv, TypeOK, LocalEdges, Protected
  <2> QED
    BY <2>1 DEF ReachableAlive, Promise!Sound, Promise!Reachable
<1> QED
  BY <1>1, Safety, PTL

-----------------------------------------------------------------------------
(* The collector implements CollectedHeap.                                 *)

\* The edges of the abstract heap.
Edges == [n \in Nodes |-> IF n \in linked THEN refs[n] ELSE {}]

\* An allocation of any kind is an allocation of the abstract heap: what the new
\* node refers to is in a chain.
LEMMA StepAllocate ==
  ASSUME ~CrossRefs, IInv, NEW n \in Nodes, NEW S \in SUBSET Nodes,
         AllocRaw(n, S) \/ AllocRoot(n, S) \/ AllocLocal(n, S)
  PROVE  Promise!Next
<1>1. n \notin linked /\ S \subseteq linked /\ linked' = linked \union {n}
  BY DEF AllocRaw, AllocRoot, AllocLocal, NewNode, Unused, Storable
<1>2. Edges' = [Edges EXCEPT ![n] = S]
  BY <1>1 DEF IInv, TypeOK, AllocRaw, AllocRoot, AllocLocal, NewNode, Edges
<1>3. Protected' \in {Protected, Protected \union {n}}
  BY DEF AllocRaw, AllocRoot, AllocLocal, Protected
<1>4. Promise!Allocate(n, S)
  BY <1>1, <1>2, <1>3 DEF Promise!Allocate, Edges
<1> QED
  BY <1>4 DEF Promise!Next

\* Protecting a node and ending its protection change the roots only.
LEMMA StepReroot ==
  ASSUME IInv, IInv', UNCHANGED <<linked, refs>>
  PROVE  Promise!Next
<1>1. Promise!Reroot(Protected')
  BY DEF IInv, TypeOK, Protected, Promise!Reroot
<1> QED
  BY <1>1 DEF Promise!Next, IInv, TypeOK, Protected

\* A store with or without a barrier replaces the references of one node.
LEMMA StepRewire ==
  ASSUME IInv, NEW m \in linked, NEW S \in SUBSET linked,
         refs' = [refs EXCEPT ![m] = S], UNCHANGED <<linked, root, local>>
  PROVE  Promise!Next
<1>1. Edges' = [Edges EXCEPT ![m] = S]
  BY DEF IInv, TypeOK, Edges
<1>2. Promise!Rewire(m, S)
  BY <1>1 DEF Promise!Rewire, Edges, Protected
<1> QED
  BY <1>2 DEF Promise!Next, IInv, TypeOK

\* When the gray list is empty, what sweep_unlink takes is garbage: the nodes it
\* leaves are closed under references, and the protected ones are among them.
LEMMA DoomedUnreachable ==
  ASSUME IInv, NEW p \in Partitions, p \in marking, gray[p] = {}
  PROVE  Doomed(p) \intersect Promise!Reachable = {}
<1> DEFINE L == linked \ Doomed(p)
<1>1. Protected \subseteq L
  BY DEF IInv, TypeOK, Protected, Doomed
<1>2. \A n \in L : refs[n] \subseteq L
  <2> SUFFICES ASSUME NEW n \in L, NEW c \in refs[n]
               PROVE  c \in L
    OBVIOUS
  <2>1. c \in linked /\ Home[c] = Home[n]
    BY DEF IInv, LocalEdges
  <2>2. CASE Home[n] # p
    BY <2>1, <2>2 DEF Doomed, Chain
  <2>3. CASE Home[n] = p
    <3>1. color[n] = "Black"
      BY <2>3, HomeAssumption
      DEF IInv, TypeOK, Colors, GraysPending, ProtectedShaded, Doomed, Chain
    <3> QED
      BY <2>1, <2>3, <3>1 DEF IInv, TriColor, Doomed
  <2> QED
    BY <2>2, <2>3
<1>3. Promise!Closed(L) /\ L \in SUBSET Nodes
  BY <1>1, <1>2 DEF Promise!Closed, IInv, TypeOK
<1> QED
  BY <1>3 DEF Promise!Reachable

\* A sweep is a reclamation of unreachable nodes.
LEMMA StepReclaim ==
  ASSUME IInv, NEW p \in Partitions, p \in marking, gray[p] = {},
         linked' = linked \ Doomed(p), Protected' = Protected,
         \A n \in linked' : refs'[n] = refs[n]
  PROVE  Promise!Next
<1>1. Doomed(p) \subseteq linked
  BY DEF Doomed, Chain
<1>2. Edges' = [n \in Nodes |-> IF n \in Doomed(p) THEN {} ELSE Edges[n]]
  BY <1>1 DEF Edges
<1>3. Doomed(p) \intersect Promise!Reachable = {}
  BY DoomedUnreachable
<1>4. PICK S \in SUBSET Nodes : S = Doomed(p)
  BY <1>1 DEF IInv, TypeOK
<1>5. Promise!Reclaim(S)
  BY <1>1, <1>2, <1>3, <1>4 DEF Promise!Reclaim, Promise!Without, Edges
<1> QED
  BY <1>5 DEF Promise!Next

\* dealloc_partition is the host abandoning nodes nothing else refers to.
LEMMA StepAbandon ==
  ASSUME IInv, NEW p \in Partitions, RemovePartition(p)
  PROVE  Promise!Next
<1>1. linked' = linked \ Chain(p) /\ Chain(p) \subseteq linked
  BY DEF RemovePartition, Chain
<1>2. Edges' = [n \in Nodes |-> IF n \in Chain(p) THEN {} ELSE Edges[n]]
  BY <1>1 DEF RemovePartition, Forget, Edges, IInv, TypeOK
<1>3. \A n \in linked \ Chain(p) : Edges[n] \intersect Chain(p) = {}
  BY DEF RemovePartition, Edges, IInv, TypeOK
<1>4. Protected' = Protected \ Chain(p)
  BY DEF RemovePartition, Forget, Protected
<1>5. PICK S \in SUBSET Nodes : S = Chain(p)
  BY <1>1 DEF IInv, TypeOK
<1>6. Promise!Abandon(S)
  BY <1>1, <1>2, <1>3, <1>4, <1>5 DEF Promise!Abandon, Promise!Without, Edges
<1> QED
  BY <1>6 DEF Promise!Next

\* GcHeap::new is the empty abstract heap.
LEMMA PromiseInit ==
  ASSUME Init
  PROVE  Promise!Init
BY DEF Init, Promise!Init, Protected

\* What leaves chains, flags and payloads alone is invisible to the host.
LEMMA PromiseStutter ==
  ASSUME UNCHANGED <<linked, root, local, refs>>
  PROVE  UNCHANGED Promise!vars
<1>1. Protected' = Protected
  BY DEF Protected
<1>2. Edges' = Edges
  BY DEF Edges
<1> QED
  BY <1>1, <1>2 DEF Promise!vars, Edges

\* The host does not see sweep_dispose free nodes that left their chain before.
LEMMA PromiseDispose ==
  ASSUME IInv, NEW p \in Partitions, SweepDispose(p)
  PROVE  UNCHANGED Promise!vars
<1> DEFINE S == {n \in condemned : Home[n] = p}
<1>1. S \intersect linked = {}
  BY DEF IInv, TypeOK
<1>2. linked' = linked /\ root' = root \ S /\ local' = local \ S
      /\ refs' = [n \in Nodes |-> IF n \in S THEN {} ELSE refs[n]]
  BY DEF SweepDispose, Forget
<1>3. Protected' = Protected
  BY <1>1, <1>2 DEF IInv, TypeOK, Protected
<1>4. Edges' = Edges
  BY <1>1, <1>2 DEF Edges
<1> QED
  BY <1>2, <1>3, <1>4 DEF Promise!vars, Edges

\* Every step of the collector is a step of the abstract heap or invisible.
LEMMA PromiseStep ==
  ASSUME ~CrossRefs, IInv, IInv', [Next]_vars
  PROVE  [Promise!Next]_Promise!vars
<1> USE DEF Storable
<1>1. ASSUME NEW n \in Nodes, NEW S \in SUBSET Nodes,
             AllocRaw(n, S) \/ AllocRoot(n, S) \/ AllocLocal(n, S)
      PROVE  Promise!Next
  BY <1>1, StepAllocate
<1>2. ASSUME NEW p \in Partitions, NEW n \in Nodes, Protect(p, n)
      PROVE  Promise!Next
  BY <1>2, StepReroot DEF Protect
<1>16. ASSUME NEW n \in Nodes, SetRoot(n)
       PROVE  Promise!Next
  BY <1>16, StepReroot DEF SetRoot
<1>3. ASSUME NEW S \in SUBSET Nodes, Unprotect(S)
      PROVE  Promise!Next
  BY <1>3, StepReroot DEF Unprotect
<1>4. ASSUME NEW m \in Nodes, NEW S \in SUBSET Nodes, WithWriteBarrier(m, S)
      PROVE  Promise!Next
  BY <1>4, StepRewire DEF WithWriteBarrier
<1>5. ASSUME NEW m \in Nodes, NEW S \in SUBSET Nodes, DropRefs(m, S)
      PROVE  Promise!Next
  <2>1. m \in linked /\ refs[m] \ S \in SUBSET linked
    BY <1>5 DEF DropRefs, IInv, LocalEdges
  <2> QED
    BY <1>5, <2>1, StepRewire DEF DropRefs
<1>6. ASSUME NEW m \in Nodes, NEW s \in Nodes, Bind(m, s)
      PROVE  Promise!Next
  <2>1. m \in linked /\ refs[m] \union {s} \in SUBSET linked
    BY <1>6 DEF Bind, IInv, LocalEdges
  <2> QED
    BY <1>6, <2>1, StepRewire DEF Bind
<1>7. ASSUME NEW p \in Partitions, SweepUnlink(p)
      PROVE  Promise!Next
  <2>1. Protected' = Protected
    BY <1>7 DEF SweepUnlink, Protected
  <2> QED
    BY <1>7, <2>1, StepReclaim DEF SweepUnlink
<1>8. ASSUME NEW p \in Partitions, Sweep(p)
      PROVE  Promise!Next
  <2>1. Protected' = Protected
    BY <1>8 DEF Sweep, Forget, Protected, Doomed
  <2>2. \A n \in linked' : refs'[n] = refs[n]
    BY <1>8 DEF Sweep, Forget, IInv, TypeOK
  <2> QED
    BY <1>8, <2>1, <2>2, StepReclaim DEF Sweep
<1>9. ASSUME NEW p \in Partitions, RemovePartition(p)
      PROVE  Promise!Next
  BY <1>9, StepAbandon
<1>10. ASSUME NEW p \in Partitions, SweepDispose(p)
       PROVE  UNCHANGED Promise!vars
  BY <1>10, PromiseDispose
<1>11. ASSUME UNCHANGED <<linked, root, local, refs>>
       PROVE  UNCHANGED Promise!vars
  BY <1>11, PromiseStutter
<1>12. ASSUME NEW n \in Nodes, HostAddGrayNode(n)
       PROVE  UNCHANGED Promise!vars
  BY <1>12, <1>11 DEF HostAddGrayNode
<1>13. ASSUME NEW p \in Partitions, MarkPrepare(p) \/ MarkReset(p)
       PROVE  UNCHANGED Promise!vars
  BY <1>13, <1>11 DEF MarkPrepare, MarkReset, heapVars
<1>14. ASSUME NEW p \in Partitions, NEW n \in Nodes, MarkGrays(p, n)
       PROVE  UNCHANGED Promise!vars
  BY <1>14, <1>11 DEF MarkGrays
<1>15. ASSUME UNCHANGED vars
       PROVE  UNCHANGED Promise!vars
  BY <1>15, <1>11 DEF vars
<1> HIDE DEF Storable
<1> QED
  BY <1>1, <1>2, <1>3, <1>4, <1>5, <1>6, <1>7, <1>8, <1>9, <1>10, <1>12, <1>13, <1>14, <1>15,
     <1>16
  DEF Next, Allocate, Host, Collect

\* The collector, its cycles interleaved with the host in any way, implements the
\* abstract heap: it reclaims only what the host can no longer reach.
THEOREM Implements ==
  ASSUME ~CrossRefs, ~ForeignScopes
  PROVE  Spec => KeepsPromise
<1>1. Init => Promise!Init
  BY PromiseInit
<1>2. IInv /\ IInv' /\ [Next]_vars => [Promise!Next]_Promise!vars
  BY PromiseStep
<1> QED
  BY <1>1, <1>2, Safety, PTL DEF Spec, KeepsPromise, Promise!Spec

-----------------------------------------------------------------------------
(* garbage_collect: the invariant of its loop, and that a collection from  *)
(* outside a cycle leaves exactly what roots and locals lead to.           *)

\* A step of garbage_collect is a step of the incremental collector.
LEMMA GcStepIsStep ==
  ASSUME [GcNext]_gcVars
  PROVE  [Next]_vars
<1>1. ASSUME NEW p \in Partitions, Mark(p) \/ Return(p) \/ Call(p)
      PROVE  [Next]_vars
  BY <1>1 DEF Mark, Return, Call, Next, Collect
<1> QED
  BY <1>1 DEF GcNext, GcStep, Between, gcVars

\* What a reachable node refers to is reachable.
LEMMA ReachableClosed ==
  ASSUME IInv, NEW n \in Promise!Reachable, n \in linked, NEW c \in refs[n]
  PROVE  c \in Promise!Reachable
<1>1. c \in Nodes
  BY DEF IInv, TypeOK
<1>2. ASSUME NEW S \in SUBSET Nodes, Promise!Closed(S)
      PROVE  c \in S
  BY <1>2 DEF Promise!Reachable, Promise!Closed, IInv, TypeOK
<1> QED
  BY <1>1, <1>2 DEF Promise!Reachable

\* Reachability does not depend on colors and lists.
LEMMA ReachableSame ==
  ASSUME UNCHANGED <<linked, root, local, refs>>
  PROVE  Promise!Reachable' = Promise!Reachable
<1>1. Protected' = Protected
  BY DEF Protected
<1>2. ASSUME NEW S \in SUBSET Nodes
      PROVE  Promise!Closed(S)' <=> Promise!Closed(S)
  BY <1>1 DEF Promise!Closed
<1> QED
  BY <1>2 DEF Promise!Reachable

\* mark_prepare outside a cycle finds an empty list: it recolors the partition and
\* shades its roots and locals only.
LEMMA CallShades ==
  ASSUME IInv, IInv', NEW p \in Partitions, Call(p)
  PROVE  ShadedReachable'
<1>a. gc' = p /\ (fresh' => p \notin marking)
  BY DEF Call
<1> SUFFICES ASSUME p \notin marking
             PROVE  p \in marking' /\
                    \A n \in Chain(p)' : color'[n] # "White" => n \in Promise!Reachable'
  BY <1>a DEF ShadedReachable
<1>1. MarkPrepare(p)
  BY DEF Call
<1>2. UNCHANGED <<linked, root, local, refs>> /\ p \in marking'
  BY <1>1 DEF MarkPrepare, heapVars
<1> SUFFICES ASSUME NEW n \in Chain(p)', color'[n] # "White"
             PROVE  n \in Promise!Reachable'
  BY <1>2
<1>3. Home[n] = p /\ n \in linked /\ n \in Nodes
  BY <1>2 DEF Chain, IInv, TypeOK
<1>4. p \notin GrayPartitions
  BY DEF IInv, GrayListsOwned, GrayPartitions
<1>5. n \in Protected
  BY <1>1, <1>3, <1>4 DEF MarkPrepare, SeedColor
<1>6. n \in Promise!Reachable
  BY <1>3, <1>5 DEF Promise!Reachable, Promise!Closed
<1> QED
  BY <1>2, <1>6, ReachableSame

\* Marking shades children of a shaded node.
LEMMA MarkShades ==
  ASSUME IInv, ShadedReachable, NEW p \in Partitions, Mark(p)
  PROVE  ShadedReachable'
<1> SUFFICES ASSUME fresh
             PROVE  p \in marking' /\
                    \A n \in Chain(p)' : color'[n] # "White" => n \in Promise!Reachable'
  BY DEF Mark, ShadedReachable
<1>1. PICK m \in Nodes : MarkGrays(p, m)
  BY DEF Mark
<1>2. UNCHANGED <<linked, root, local, refs, marking>> /\ gc = p
  BY <1>1 DEF MarkGrays, Mark
<1>3. m \in Chain(p) /\ color[m] # "White"
  BY <1>1 DEF MarkGrays, IInv, TypeOK, GrayListsOwned, Chain
<1>4. m \in Promise!Reachable /\ m \in linked /\ p \in marking
  BY <1>2, <1>3 DEF ShadedReachable, Chain
<1> SUFFICES ASSUME NEW n \in Chain(p)', color'[n] # "White"
             PROVE  n \in Promise!Reachable
  BY <1>2, <1>4, ReachableSame
<1>5. n \in Chain(p) /\ n \in Nodes
  BY <1>2 DEF Chain, IInv, TypeOK
<1>6. n = m \/ n \in refs[m] \/ color'[n] = color[n]
  BY <1>1, <1>5 DEF MarkGrays, GrayChildren
<1> QED
  BY <1>2, <1>4, <1>5, <1>6, ReachableClosed DEF ShadedReachable

\* The step preserves GcInv.
LEMMA GcNextInv ==
  ASSUME ~CrossRefs, ~ForeignScopes, GcInv, [GcNext]_gcVars
  PROVE  GcInv'
<1>1. IInv /\ IInv'
  BY NextIInv, GcStepIsStep DEF GcInv
<1>2. ASSUME NEW p \in Partitions, Mark(p)
      PROVE  ShadedReachable'
  BY <1>1, <1>2, MarkShades DEF GcInv
<1>3. ASSUME NEW p \in Partitions, Return(p)
      PROVE  ShadedReachable'
  BY <1>3, IdleAssumption DEF Return, ShadedReachable
<1>4. ASSUME NEW p \in Partitions, Call(p)
      PROVE  ShadedReachable'
  BY <1>1, <1>4, CallShades
<1>5. ASSUME Between
      PROVE  ShadedReachable'
  BY <1>5, IdleAssumption DEF Between, ShadedReachable
<1>6. ASSUME UNCHANGED gcVars
      PROVE  ShadedReachable'
  <2>1. UNCHANGED vars /\ gc' = gc /\ fresh' = fresh
    BY <1>6 DEF gcVars
  <2>2. Promise!Reachable' = Promise!Reachable
    BY <2>1, ReachableSame DEF vars
  <2> QED
    BY <2>1, <2>2 DEF GcInv, ShadedReachable, vars, Chain
<1> QED
  BY <1>1, <1>2, <1>3, <1>4, <1>5, <1>6 DEF GcNext, GcStep, GcInv

\* While garbage_collect runs from outside a cycle, only reachable nodes are shaded,
\* and the collector's own invariant holds at every step of its loop.
THEOREM GcSafety ==
  ASSUME ~CrossRefs, ~ForeignScopes
  PROVE  GcSpec => []GcInv
<1>1. GcInit => GcInv
  BY InitIInv, IdleAssumption DEF GcInit, GcInv, ShadedReachable
<1>2. GcInv /\ [GcNext]_gcVars => GcInv'
  BY GcNextInv
<1> QED
  BY <1>1, <1>2, PTL DEF GcSpec

\* garbage_collect, too, reclaims only what the host can no longer reach.
THEOREM GcImplements ==
  ASSUME ~CrossRefs, ~ForeignScopes
  PROVE  GcSpec => KeepsPromise
<1>1. GcInit => Promise!Init
  BY PromiseInit DEF GcInit
<1>2. GcInv /\ GcInv' /\ [GcNext]_gcVars => [Promise!Next]_Promise!vars
  BY GcStepIsStep, PromiseStep DEF GcInv
<1> QED
  BY <1>1, <1>2, GcSafety, PTL DEF GcSpec, KeepsPromise, Promise!Spec

\* What the final sweep leaves is what was reachable when it began.
LEMMA ReturnLeavesReachable ==
  ASSUME GcInv, NEW p \in Partitions, Return(p), fresh
  PROVE  Chain(p)' = {n \in Promise!Reachable : Home[n] = p}
<1>1. p \in marking /\ gray[p] = {} /\ gc = p /\ linked' = linked \ Doomed(p)
  BY DEF Return, Sweep
<1>2. ASSUME NEW n \in Chain(p), n \notin Doomed(p)
      PROVE  n \in Promise!Reachable
  <2>1. color[n] # "White"
    BY <1>1, <1>2 DEF GcInv, IInv, TypeOK, ProtectedShaded, Doomed, Chain
  <2> QED
    BY <1>1, <1>2, <2>1 DEF GcInv, ShadedReachable
<1>3. ASSUME NEW n \in Promise!Reachable
      PROVE  n \in linked /\ n \notin Doomed(p)
  <2>1. Promise!Closed(linked) /\ linked \in SUBSET Nodes
    BY DEF Promise!Closed, GcInv, IInv, TypeOK, LocalEdges, Protected
  <2> QED
    BY <1>1, <2>1, DoomedUnreachable DEF GcInv, Promise!Reachable
<1>4. Chain(p)' = Chain(p) \ Doomed(p)
  BY <1>1 DEF Chain
<1> QED
  BY <1>2, <1>3, <1>4 DEF Chain

\* README.md:210, the other half: a full collection retains nothing but the roots,
\* the scope-protected nodes and what they lead to.
THEOREM NoFloatingGarbage ==
  ASSUME ~CrossRefs, ~ForeignScopes
  PROVE  GcSpec => CollectsAllGarbage
<1>1. ASSUME GcInv, [GcNext]_gcVars,
             NEW p \in Partitions, gc = p, fresh, gc' = Idle
      PROVE  Chain(p)' = {n \in Promise!Reachable : Home[n] = p}
  <2>1. gc # Idle /\ gc' # gc
    BY <1>1, IdleAssumption
  <2>2. PICK q \in Partitions : Return(q)
    BY <1>1, <2>1, IdleAssumption DEF GcNext, GcStep, Between, Call, Mark, gcVars
  <2>3. q = p
    BY <1>1, <2>2 DEF Return
  <2> QED
    BY <1>1, <2>2, <2>3, ReturnLeavesReachable
<1>2. GcInv /\ [GcNext]_gcVars
      => [\A p \in Partitions : gc = p /\ fresh /\ gc' = Idle
            => Chain(p)' = {n \in Promise!Reachable : Home[n] = p}]_gcVars
  BY <1>1
<1> QED
  BY <1>2, GcSafety, PTL DEF GcSpec, CollectsAllGarbage
=============================================================================
