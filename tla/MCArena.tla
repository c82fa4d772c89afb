------------------------------ MODULE MCArena ------------------------------
EXTENDS Arena

\* Nodes with no payload and with one word, and one with 32-byte alignment.
MCLayouts == {[size |-> 3, align |-> 1], [size |-> 4, align |-> 1], [size |-> 8, align |-> 4]}
=============================================================================
