----------------------------- MODULE MCBoundary -----------------------------
(***************************************************************************)
(* Up to four errors.  The contents meet in every order: a public message  *)
(* and fields above and below a barrier, a code above, below and beside    *)
(* another, fields and attrs under the keys of defined members, a public   *)
(* message that is the title of a code, an error without a message, a      *)
(* custom code registered with a delay and one that is not registered.     *)
(***************************************************************************)
EXTENDS Boundary

MCInfo == (100 :> InfoOf("FLAKY_DEP", 503, 14)) @@ Builtin

MCTitled == 400..599 \ {499}

MCContents == {
    [Bare EXCEPT !.msg = TRUE, !.public = <<"title", 404>>, !.attrs = <<"code", "k">>],
    [Bare EXCEPT !.code = 5, !.msg = TRUE, !.public = OwnWords, !.fields = <<"k", "code", "k">>],
    [Bare EXCEPT !.code = 100, !.attrs = <<"errtrail.code", "k">>, !.violation = TRUE],
    [Bare EXCEPT !.code = 200, !.msg = TRUE, !.fields = <<"errors">>, !.delay = TRUE],
    [Bare EXCEPT !.msg = TRUE, !.barrier = TRUE, !.violation = TRUE] }

=============================================================================
