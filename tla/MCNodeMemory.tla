---------------------------- MODULE MCNodeMemory ----------------------------
EXTENDS NodeMemory

\* No payload; a 16-byte aligned type; one too large for the arena.
MCRegistry == <<Entry(0, 1, Omitted), Entry(2, 2, 1), Entry(5, 1, 3)>>
MCLayouts == {Layout(e) : e \in Range(MCRegistry)}
=============================================================================
