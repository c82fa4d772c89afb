------------------------------ MODULE Payloads ------------------------------
(***************************************************************************)
(* What a payload reports when it is traced: the GcTrace impls of trace.rs *)
(* and those that #[derive(GcTrace)] generates.  A payload is a tree:      *)
(*   Leaf          a primitive, a string, PhantomData                      *)
(*   Ref(n)        a GcRef                                                 *)
(*   Items(s)      a container: what it holds, in the order it is visited  *)
(*   Fields(s)     a derived struct, or a derived enum in one of its       *)
(*                 variants, with the #[gc(...)] attributes of each field  *)
(***************************************************************************)
EXTENDS Integers, Sequences, SequencesExt

Leaf == [kind |-> "leaf"]
Ref(n) == [kind |-> "ref", node |-> n]

\* Box, Rc, Arc, Cell, RefCell and Some have one item; None has none; a Result has
\* the one of its variant; slices, arrays, vectors, deques, tuples and sets have
\* any number; a map has each key before its value.  The order in which a hash
\* container yields its elements is part of the value.
Items(s) == [kind |-> "items", items |-> s]
Some1(v) == Items(<<v>>)
Pairs(kvs) == Items(FlattenSeq(kvs))

\* What `attrs` says in #[gc(...)]: any number of keys, until field_kind has looked.
Field(attrs, v) == [attrs |-> attrs, value |-> v]
Fields(s) == [kind |-> "fields", fields |-> s]

-----------------------------------------------------------------------------

Keys == {"skip", "with"}

\* At most one attribute, of a known key; else the derive is a compile error.
FieldKind(attrs) ==
    IF attrs = <<>> THEN "trace"
    ELSE IF Len(attrs) = 1 /\ attrs[1] \in Keys THEN attrs[1]
    ELSE "error"

\* Defect: a node that was reported before is reported again.
AddNodeTwice(traced, n) == Append(traced, n)

AddNode(traced, n) == IF n \in Range(traced) THEN traced ELSE Append(traced, n)

RECURSIVE TraceInto(_, _)

\* The function of #[gc(with = "path")] is the host's; it reports what the field has.
With(v, traced) == TraceInto(v, traced)

\* One statement per field that is not skipped, in order of declaration.
TraceField(f, traced) ==
    CASE FieldKind(f.attrs) = "skip" -> traced
      [] FieldKind(f.attrs) = "with" -> With(f.value, traced)
      [] FieldKind(f.attrs) = "trace" -> TraceInto(f.value, traced)

\* GcTrace::trace: the list of traced nodes after payload v has been traced.
TraceInto(v, traced) ==
    CASE v.kind = "leaf" -> traced
      [] v.kind = "ref" -> AddNode(traced, v.node)
      [] v.kind = "items" -> FoldLeft(LAMBDA t, x : TraceInto(x, t), traced, v.items)
      [] v.kind = "fields" -> FoldLeft(LAMBDA t, f : TraceField(f, t), traced, v.fields)

\* gc_children, or trace_node with a context that has been drained.
Children(v) == TraceInto(v, <<>>)

RECURSIVE Derives(_)

\* The derive accepts the type of the payload and of all that is in it.
Derives(v) ==
    CASE v.kind \in {"leaf", "ref"} -> TRUE
      [] v.kind = "items" -> \A i \in DOMAIN v.items : Derives(v.items[i])
      [] v.kind = "fields" -> \A i \in DOMAIN v.fields :
                                 /\ FieldKind(v.fields[i].attrs) # "error"
                                 /\ Derives(v.fields[i].value)

-----------------------------------------------------------------------------

RECURSIVE Holds(_)

\* Reference definition: the nodes a payload refers to, skipped fields excepted.
Holds(v) ==
    CASE v.kind = "leaf" -> {}
      [] v.kind = "ref" -> {v.node}
      [] v.kind = "items" -> UNION {Holds(x) : x \in Range(v.items)}
      [] v.kind = "fields" ->
            UNION {Holds(f.value) : f \in {g \in Range(v.fields) : g.attrs # <<"skip">>}}
=============================================================================
