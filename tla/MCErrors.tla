------------------------------ MODULE MCErrors ------------------------------
(***************************************************************************)
(* Two instances of Errors.  In the first, goroutines append to slices of  *)
(* shared errors: with four of them there can be one with spare capacity   *)
(* for all items and two that are derived from it, one after or during the *)
(* other (the bound is on errors when a call begins, so that two calls     *)
(* make four).  In the second every operation is called, with every        *)
(* boundary value of skip and delay, on nil too.                           *)
(***************************************************************************)
EXTENDS Errors, TLC

OpOf(kind) == [kind |-> kind, skip |-> 0, value |-> Unset, msg |-> Unset, items |-> <<>>, d |-> 0]
Appends(part, items) == [OpOf(part) EXCEPT !.items = items]
NewOf(skip, c) == [OpOf("New") EXCEPT !.skip = skip, !.value = c, !.msg = "x"]
WrapOf(skip) == [OpOf("Wrap") EXCEPT !.skip = skip]

AppendOps == {NewOf(0, "c"), Appends("attrs", <<"x">>), Appends("attrs", <<"y", "x">>)}

Symmetry == Permutations(Goroutines)

\* With MaxInt = 15, 3+skip overflows from skip = 13 on.
AllOps ==
    {NewOf(k, "c") : k \in {-1, 0, 2, 12, 13}} \cup {WrapOf(k) : k \in {-1, 1}} \cup
    {[OpOf("WithCode") EXCEPT !.value = Unset], [OpOf("WithPublic") EXCEPT !.value = "x"]} \cup
    {OpOf("WithoutPublic")} \cup
    {[OpOf("WithRetryDelay") EXCEPT !.d = k] : k \in {-1, 0, 1}} \cup
    {Appends("attrs", <<>>), Appends("attrs", <<"x", "y">>), Appends("fields", <<"x">>),
     Appends("violations", <<"y">>)}

=============================================================================
