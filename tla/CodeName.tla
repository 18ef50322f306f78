------------------------------ MODULE CodeName ------------------------------
(***************************************************************************)
(* validCodeName (code.go), which says by hand what a pattern would: the   *)
(* constraints on errdetails.ErrorInfo.Reason.  Of a byte only its class   *)
(* counts.                                                                 *)
(*                                                                         *)
(* Definitions whose name begins with Bug are no part of the specification *)
(* (see Registry).                                                         *)
(***************************************************************************)
EXTENDS Integers, Sequences

CONSTANTS
    Class,  \* the classes of bytes: A to Z, 0 to 9, the underscore, and others
    MaxLen  \* the most bytes a name may have: 63

ASSUME CodeNameAssumption ==
    /\ {"letter", "digit", "underscore"} \subseteq Class
    /\ MaxLen \in Nat /\ MaxLen >= 3

VARIABLES
    name,  \* the bytes of the name
    i,     \* the byte the loop looks at, counted from 1
    pc     \* "call", "loop", or the answer: "valid" or "invalid"

vars == <<name, i, pc>>

Init ==
    /\ name \in Seq(Class)
    /\ i = 1
    /\ pc = "call"

\* The length comes first: the loop may then take it that there is a first
\* byte and a last.
CheckLength ==
    /\ pc = "call"
    /\ pc' = IF Len(name) < 3 \/ Len(name) > MaxLen THEN "invalid" ELSE "loop"
    /\ UNCHANGED <<name, i>>

\* Bug: a name may end in an underscore.
BugRefused(b) ==
    \/ b = "digit" /\ i = 1
    \/ b = "underscore" /\ i = 1
    \/ b \notin {"letter", "digit", "underscore"}
\* A byte that the loop does not let pass.
Refused(b) ==
    \/ b = "digit" /\ i = 1
    \/ b = "underscore" /\ (i = 1 \/ i = Len(name))
    \/ b \notin {"letter", "digit", "underscore"}

CheckByte ==
    /\ pc = "loop"
    /\ i <= Len(name)
    /\ IF Refused(name[i]) THEN pc' = "invalid" /\ UNCHANGED i
                           ELSE i' = i + 1 /\ UNCHANGED pc
    /\ UNCHANGED name

EndLoop ==
    /\ pc = "loop"
    /\ i > Len(name)
    /\ pc' = "valid"
    /\ UNCHANGED <<name, i>>

Next == CheckLength \/ CheckByte \/ EndLoop

Spec == Init /\ [][Next]_vars

----------------------------------------------------------------------------

\* [A-Z][A-Z0-9_]+[A-Z0-9], in at most MaxLen bytes: one byte, at least one
\* more, and a last one.
Matches(s) ==
    /\ Len(s) \in 3..MaxLen
    /\ s[1] = "letter"
    /\ \A k \in 2..(Len(s) - 1) : s[k] \in {"letter", "digit", "underscore"}
    /\ s[Len(s)] \in {"letter", "digit"}

\* The loop answers as the pattern would (code.go:214-217), so that a name
\* that is registered is legal as a Reason on the wire.
AnswersPattern ==
    /\ pc = "valid" => Matches(name)
    /\ pc = "invalid" => ~Matches(name)

============================================================================
