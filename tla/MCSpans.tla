------------------------------ MODULE MCSpans ------------------------------
(***************************************************************************)
(* Two goroutines record on a live span and try one that is not recording, *)
(* the nil span and the nil error.  Every server fault, two client faults, *)
(* a custom code of each sort and a typed-nil error are recorded, with an  *)
(* attr under the reserved key in front of, between and behind others, an  *)
(* attr twice, an unsigned value beyond int64 and a LogValuer.             *)
(***************************************************************************)
EXTENDS Spans, TLC

MCInfo == (100 :> InfoOf("FLAKY_DEP", 503, 14)) @@ (101 :> InfoOf("NOT_IN_CACHE", 404, 5)) @@ Builtin

Attr(key, kind, x, valuer) == [key |-> key, value |-> [kind |-> kind, x |-> x, valuer |-> valuer]]
Forged == Attr(CodeKey, "String", 1, FALSE)
Big == Attr("bytes", "Uint64", MaxInt + 1, FALSE)
Lazy == Attr("user", "Int64", 3, TRUE)

Error(c, attrs) ==
    [code |-> c, attrs |-> attrs, text |-> MCInfo[c].name, typedNil |-> FALSE]
MCErrors ==
    {Error(c, <<>>) : c \in {4, 12, 15, 101}} \cup
    {Error(1, <<Forged, Lazy>>), Error(5, <<Lazy, Forged>>), Error(13, <<Big, Forged, Lazy>>),
     Error(14, <<Big, Forged, Big>>), Error(100, <<Attr("spent", "Duration", 2, FALSE)>>)} \cup
    {[code |-> Unknown, attrs |-> <<>>, text |-> "<nil>", typedNil |-> TRUE]}

Symmetry == Permutations(Goroutines)

=============================================================================
