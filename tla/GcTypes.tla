------------------------------- MODULE GcTypes -------------------------------
(***************************************************************************)
(* The registry of node types that gc_type_register! builds at compile     *)
(* time: the layout of a node (its GcHead, then the payload) and the       *)
(* drop passes.  Sizes count units of 8 bytes.  Alignments are powers of   *)
(* two, as Rust's are, so masking bits off and rounding are the same.      *)
(***************************************************************************)
EXTENDS Integers, Sequences, FiniteSets, SequencesExt

CONSTANTS
    HeadSize,   \* size_of::<GcHead>()
    HeadAlign,  \* align_of::<GcHead>()
    MaxTypes,   \* u8::MAX + 1: a type id is a u8
    LastPass,   \* 3: the highest drop pass
    Omitted     \* the drop_pass of an entry that gives none

ASSUME HeadAssumption == HeadSize \in Nat \ {0} /\ HeadAlign \in Nat \ {0}
ASSUME RegistryAssumption == MaxTypes \in Nat /\ LastPass \in Nat /\ Omitted \notin Nat

\* An entry of the macro: size_of and align_of the payload type, its drop_pass.
Entry(size, align, pass) == [size |-> size, align |-> align, pass |-> pass]
Entries == [size : Nat, align : Nat \ {0}, pass : Nat \union {Omitted}]

RoundUp(value, align) == ((value + align - 1) \div align) * align

\* The payload follows the head at the next multiple of its alignment.
PayloadOffset(e) == RoundUp(HeadSize, e.align)
LayoutAlign(e) == IF HeadAlign > e.align THEN HeadAlign ELSE e.align

LayoutSize(e) == RoundUp(PayloadOffset(e) + e.size, LayoutAlign(e))

\* What the allocator is asked for, and what is given back to it.
Layout(e) == [size |-> LayoutSize(e), align |-> LayoutAlign(e)]

\* The macro parses the entries: a pass is a literal from 0 to 3.
Parses(entries) == \A i \in DOMAIN entries : entries[i].pass \in (0..LastPass) \union {Omitted}

Registers(entries) ==
    /\ entries \in Seq(Entries)
    /\ Parses(entries)
    /\ Len(entries) <= MaxTypes

PassOf(e) == IF e.pass = Omitted THEN 0 ELSE e.pass

\* Defect: not sorted.
DropPassesUnsorted(entries) == [i \in DOMAIN entries |-> PassOf(entries[i])]

\* The members of a set of numbers, in ascending order.
Ascending(S) ==
    CHOOSE s \in [1..Cardinality(S) -> S] : \A i, j \in DOMAIN s : i < j => s[i] < s[j]

\* The passes that some type uses, once each.
DropPasses(entries) == Ascending({PassOf(entries[i]) : i \in DOMAIN entries})
=============================================================================
