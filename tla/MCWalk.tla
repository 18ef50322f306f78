------------------------------- MODULE MCWalk -------------------------------
(***************************************************************************)
(* Walk on chains of up to five errors in nine shapes: straight chains,     *)
(* joins below and above barriers, joins within joins, an error that two    *)
(* branches share, foreign wrappers, a typed nil and a plain error.  In     *)
(* each shape every *Error takes every combination of a barrier with one of *)
(* the profiles below, so that barriers and data meet in every order.       *)
(***************************************************************************)
EXTENDS Walk

MCNode == 1..5

\* Data are tagged with their node, so that no two nodes say the same.
Datum(what, n) == <<what, n>>
Whats == {"code", "public", "delay", "a1", "a2", "b", "violation"}
MCUnknown == <<"code", 1>>
MCData == {Datum(w, n) : w \in Whats, n \in MCNode}

Empty(kind, bs) ==
    [kind |-> kind, branches |-> bs, code |-> Unset, barrier |-> FALSE, public |-> Unset,
     delay |-> Unset, fields |-> <<>>, violations |-> <<>>]

\* Node n with everything set (key "a" twice), with code and key "b" only,
\* and with nothing.
Full(n, bs, barrier) ==
    [kind |-> "Error", branches |-> bs, code |-> Datum("code", n), barrier |-> barrier,
     public |-> Datum("public", n), delay |-> Datum("delay", n),
     fields |-> <<[key |-> "a", value |-> Datum("a1", n)], [key |-> "b", value |-> Datum("b", n)],
                  [key |-> "a", value |-> Datum("a2", n)]>>,
     violations |-> <<Datum("violation", n)>>]
CodeAndField(n, bs, barrier) ==
    [Full(n, bs, barrier) EXCEPT !.public = Unset, !.delay = Unset, !.violations = <<>>,
                                 !.fields = <<@[2]>>]
Bare(n, bs, barrier) == [Empty("Error", bs) EXCEPT !.barrier = barrier]

E(bs) == [kind |-> "Error", branches |-> bs]
W(bs) == [kind |-> "wrap", branches |-> bs]
J(bs) == [kind |-> "join", branches |-> bs]
NilError == [kind |-> "nilError", branches |-> <<0>>]
Plain == [kind |-> "plain", branches |-> <<>>]

\* Node 5 is the outermost error.
Shapes == {
    <<Plain, E(<<1>>), E(<<2>>), W(<<3>>), E(<<4>>)>>,
    <<E(<<0>>), E(<<0>>), J(<<2, 1>>), Plain, E(<<3>>)>>,
    <<E(<<0>>), E(<<0>>), E(<<2>>), Plain, J(<<3, 1>>)>>,
    <<E(<<0>>), E(<<1>>), E(<<1>>), J(<<2, 3>>), W(<<4>>)>>,
    <<E(<<0>>), E(<<0>>), J(<<2, 1>>), E(<<3>>), J(<<4, 1>>)>>,
    <<E(<<0>>), NilError, J(<<2, 0, 1>>), W(<<3>>), E(<<4>>)>>,
    <<E(<<0>>), Plain, E(<<2>>), J(<<3, 2, 1, 3>>), J(<<4>>)>>,
    <<NilError, W(<<1>>), J(<<>>), J(<<3, 2>>), E(<<4>>)>>,
    <<E(<<0>>), J(<<1, 1>>), E(<<2>>), E(<<0>>), J(<<3, 4>>)>> }

Contents(s, n) ==
    IF s[n].kind = "Error"
    THEN {f : f \in UNION {{Full(n, s[n].branches, b), CodeAndField(n, s[n].branches, b),
                            Bare(n, s[n].branches, b)} : b \in BOOLEAN}}
    ELSE {Empty(s[n].kind, s[n].branches)}

MCHeaps == UNION {{<<c1, c2, c3, c4, c5>> :
                      c1 \in Contents(s, 1), c2 \in Contents(s, 2), c3 \in Contents(s, 3),
                      c4 \in Contents(s, 4), c5 \in Contents(s, 5)} : s \in Shapes}

\* These chains end, as the proofs of Walk's results suppose: an error wraps
\* errors of lower numbers only.
ASSUME MCAcyclic == \A h \in MCHeaps : Ends(h, [n \in MCNode |-> n])

============================================================================
