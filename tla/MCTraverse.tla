----------------------------- MODULE MCTraverse -----------------------------
EXTENDS TracedHeap, TLC
CONSTANTS n1, n2, n3

\* Types of passes 1, 0 and 3, in this order.
MCRegistry == <<Entry(1, 1, 1), Entry(2, 1, Omitted), Entry(1, 2, 3)>>
MCTypeOf == (n1 :> 1) @@ (n2 :> 2) @@ (n3 :> 3)

\* A struct with a map and a skipped field; an enum with a custom trace; a vector.
MCStored ==
    (n1 :> {Leaf, Fields(<<Field(<<>>, Pairs(<< <<Leaf, Ref(n2)>>, <<Ref(n2), Some1(Ref(n3))>> >>)),
                          Field(<<"skip">>, Ref(n1)), Field(<<>>, Leaf)>>)})
    @@ (n2 :> {Leaf, Fields(<<Field(<<"with">>, Items(<<Ref(n3), Ref(n2), Ref(n1)>>))>>)})
    @@ (n3 :> {Leaf, Items(<<Ref(n1), Leaf, Ref(n1)>>)})
=============================================================================
