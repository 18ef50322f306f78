---------------------------- MODULE ErrorValues ----------------------------
(***************************************************************************)
(* What error.go promises: an *Error is a value.  Every call makes, at one *)
(* moment, one new value out of an old one, and no value ever changes, so  *)
(* an error may be shared and derived from by any goroutines.              *)
(***************************************************************************)
EXTENDS ErrorOps

VARIABLES
    errs,  \* the errors built so far; their index is their identity
    last   \* last[g]: g's last call and what it returned, 0 for nil

vars == <<errs, last>>

\* The value call o makes on the error with identity e.
Made(o, e) ==
    CASE o.kind = "New" -> Fresh(o, 0, UserFrame(o.skip), <<>>)
      [] o.kind = "Wrap" -> Fresh(o, e, UserFrame(o.skip), <<>>)
      [] o.kind = "WithCode" -> [errs[e] EXCEPT !.code = o.value]
      [] o.kind = "WithPublic" -> [errs[e] EXCEPT !.public = o.value]
      [] o.kind = "WithoutPublic" -> [errs[e] EXCEPT !.barrier = TRUE]
      [] o.kind = "WithRetryDelay" -> [errs[e] EXCEPT !.delay = o.d]
      [] o.kind \in Part -> [errs[e] EXCEPT !.slices[o.kind] = @ \o o.items]

Init == errs = <<>> /\ last = [g \in Goroutines |-> NoCall]

Call(g, o, e) ==
    IF Refuses(o, e)
    THEN last' = [last EXCEPT ![g] = Returned(o, e, Refusal(o, e))] /\ UNCHANGED errs
    ELSE /\ errs' = Append(errs, Made(o, e))
         /\ last' = [last EXCEPT ![g] = Returned(o, e, Len(errs'))]

Next == \E g \in Goroutines, o \in Ops : \E e \in Bases(o, Len(errs)) : Call(g, o, e)

Spec == Init /\ [][Next]_vars

============================================================================
