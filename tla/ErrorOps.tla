------------------------------ MODULE ErrorOps ------------------------------
(***************************************************************************)
(* The vocabulary of error.go: the constructors and builders of *Error,    *)
(* what each sets, and which frame a constructor records.  ErrorValues     *)
(* states what they promise, Errors how they keep it.                      *)
(***************************************************************************)
EXTENDS Integers, Sequences

CONSTANTS
    Goroutines, \* who builds errors
    Data,       \* codes, messages, attrs, fields and violations
    Unset,      \* the zero value of a code and of a message
    Ops,        \* the calls that are made
    Depth,      \* frames on the stack above a constructor, its caller first
    MaxInt      \* the largest int

Part == {"attrs", "fields", "violations"}

\* A call.  "skip" is NewSkip's and WrapSkip's; New, Newf, Wrap and Wrapf are
\* the same with 0, and "msg" is their internal message, Unset if it is "".
\* "value" is the code or the public message, "items" what is appended to a
\* slice by With, WithPublicField and WithFieldViolation (a call of this kind
\* bears the name of the slice), "d" a delay.
Op == [kind: {"New", "Wrap", "WithCode", "WithPublic", "WithoutPublic", "WithRetryDelay"} \cup Part,
       skip: Int, value: Data \cup {Unset}, msg: Data \cup {Unset}, items: Seq(Data), d: Int]

ASSUME ErrorOpsAssumption ==
    /\ Ops \subseteq Op
    /\ Unset \notin Data
    /\ Depth \in Nat \ {0}
    /\ MaxInt \in Nat
    /\ Depth + 3 < MaxInt
    /\ \A o \in Ops : /\ o.skip \in (-MaxInt)..MaxInt
                      /\ o.kind = "Wrap" => o.value = Unset

Constructs(o) == o.kind \in {"New", "Wrap"}

\* What a call may be made on, if there are n errors; New is made on none.
Bases(o, n) == IF o.kind = "New" THEN {0} ELSE 0..n

\* A call that returns no new error: it panics, is made on nil, or has
\* nothing to set.  e is its receiver or the error it wraps, 0 for nil.
Panicked == -1
Refuses(o, e) ==
    \/ Constructs(o) /\ o.skip < 0
    \/ o.kind # "New" /\ e = 0
    \/ o.kind = "WithRetryDelay" /\ o.d <= 0
Refusal(o, e) == IF Constructs(o) /\ o.skip < 0 THEN Panicked ELSE e

\* A call that is over.
Returned(o, e, result) == [op |-> o, e |-> e, result |-> result]
NoOp == [kind |-> "none", skip |-> 0, value |-> Unset, msg |-> Unset, items |-> <<>>, d |-> 0]
NoCall == Returned(NoOp, 0, 0)

\* What New and Wrap make, "none" being the slices of an error that has
\* nothing appended.
Fresh(o, e, frame, none) ==
    [code |-> o.value, msg |-> o.msg, public |-> Unset, barrier |-> FALSE, cause |-> e,
     delay |-> 0, frame |-> frame, slices |-> [p \in Part |-> none]]

\* Frames are numbered from 1, runtime.Callers, caller and the constructor
\* before the user's; 0 is the unknown frame.
UserFrame(skip) == IF skip < Depth THEN 4 + skip ELSE 0

============================================================================
