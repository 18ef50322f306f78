---------------------------- MODULE MCCollecting ----------------------------
(***************************************************************************)
(* One goroutine builds chains of up to three errors with attrs,           *)
(* violations and barriers; two callers collect from them at once and      *)
(* write to what they get.                                                 *)
(***************************************************************************)
EXTENDS Collecting, TLC

OpOf(kind) == [kind |-> kind, skip |-> 0, value |-> Unset, msg |-> Unset, items |-> <<>>, d |-> 0]
MCOps == {[OpOf("New") EXCEPT !.value = "x"], OpOf("Wrap"), OpOf("WithoutPublic"),
          [OpOf("attrs") EXCEPT !.items = <<"x">>],
          [OpOf("violations") EXCEPT !.items = <<"y">>]}

Symmetry == Permutations(Collectors)

=============================================================================
