------------------------------- MODULE Problem -------------------------------
(***************************************************************************)
(* problem.Write: an error becomes an RFC 9457 response.  From takes the   *)
(* error apart, the options change what it made, MarshalJSON merges the    *)
(* extension members with the defined ones, and Write sends the result or, *)
(* if a value cannot be encoded, a bare 500.  What From reads is what the  *)
(* registry and the walks of inspect.go answer (Conversions, Walk).        *)
(*                                                                         *)
(* Definitions whose name begins with Bug are no part of the specification *)
(* (see Registry).                                                         *)
(***************************************************************************)
EXTENDS Integers, Sequences

CONSTANTS
    Key,        \* the names of members, defined ones included; "" is one
    Errors,     \* the errors to be written
    Value,      \* what members may be
    Options,    \* the lists of options Write is called with
    Title(_),   \* the text of an error's status, or its code's name
    TypeURL,    \* what the hook makes of a code, Absent if it is not set
    Unencodable, \* a value that encoding/json cannot marshal, and
    Panicking,   \* one whose own MarshalJSON panics
    Absent      \* "" in a field, and a key a map does not have

\* The members that are fields of Problem, and those that MarshalJSON omits
\* when they are empty.
Reserved == {"type", "title", "status", "detail", "instance", "code"}
OmitEmpty == {"type", "detail", "instance"}

\* Only values under names that are no field of Problem can be of any type;
\* an extension member that is there is not Absent.
Bad == {Unencodable, Panicking}
ASSUME ProblemAssumption ==
    /\ Reserved \cup {"", "errors"} \subseteq Key
    /\ Absent \notin Bad /\ TypeURL \notin Bad
    /\ \A e \in Errors : /\ e.fields = [k \in Key |-> e.fields[k]]
                         /\ {e.http, e.name, e.public, Title(e)} \cap Bad = {}
    /\ Options \subseteq Seq([member: Key, value: Value])
    /\ \A o \in Options : \A i \in DOMAIN o :
          IF o[i].member \in Reserved THEN o[i].value \notin Bad ELSE o[i].value # Absent

VARIABLES
    err,      \* the error
    opts,     \* the options of the call, and
    applied,  \* how many of them have been applied
    problem,  \* the Problem under construction: its fields and its extensions
    body,     \* the JSON object, by key
    response, \* what the client gets
    pc

vars == <<err, opts, applied, problem, body, response, pc>>

Nothing == [k \in Key |-> Absent]
NoProblem == [fields |-> Nothing, extensions |-> Nothing]
NoResponse == [status |-> 0, contentType |-> Absent, body |-> "none"]

Init ==
    /\ err \in Errors
    /\ opts \in Options
    /\ applied = 0
    /\ problem = NoProblem
    /\ body = Nothing
    /\ response = NoResponse
    /\ pc = "from"

\* Bug: the derived member wins over an explicit one.
BugExtensions(e) ==
    IF e.violations = Absent THEN e.fields ELSE [e.fields EXCEPT !["errors"] = e.violations]
\* The public fields, and the violations as "errors" unless a field has that
\* name, whatever its value is.
Extensions(e) ==
    IF e.violations = Absent \/ e.fields["errors"] # Absent THEN e.fields
    ELSE [e.fields EXCEPT !["errors"] = e.violations]

From ==
    /\ pc = "from"
    /\ problem' =
          [fields |-> [k \in Key |->
               CASE k = "title" -> Title(err)
                 [] k = "status" -> err.http
                 [] k = "detail" -> IF err.public = Title(err) THEN Absent ELSE err.public
                 [] k = "code" -> err.name
                 [] k = "type" -> TypeURL
                 [] OTHER -> Absent],
           extensions |-> Extensions(err)]
    /\ pc' = "options"
    /\ UNCHANGED <<err, opts, applied, body, response>>

\* The next option sets a field, or an extension member, which panics when
\* there is none yet and the map is nil.
Apply ==
    /\ pc = "options" /\ applied < Len(opts)
    /\ LET o == opts[applied + 1]
       IN  \/ /\ o.member \in Reserved
              /\ problem' = [problem EXCEPT !.fields[o.member] = o.value]
              /\ UNCHANGED pc
           \/ /\ o.member \notin Reserved /\ problem.extensions # Nothing
              /\ problem' = [problem EXCEPT !.extensions[o.member] = o.value]
              /\ UNCHANGED pc
           \/ /\ o.member \notin Reserved /\ problem.extensions = Nothing
              /\ pc' = "panicked"
              /\ UNCHANGED problem
    /\ applied' = applied + 1
    /\ UNCHANGED <<err, opts, body, response>>

\* Bug: extension members are merged whatever their names are.
BugKept(extensions) == extensions
\* The extension members that do not collide with a defined one.
Kept(extensions) ==
    [k \in Key |-> IF k = "" \/ k \in Reserved THEN Absent ELSE extensions[k]]

\* What encoding the members b comes to.  Which of two bad values comes first
\* depends on their keys.
Outcomes(b) ==
    LET bad(v, outcome) == IF \E k \in Key : b[k] = v THEN {outcome} ELSE {}
        stops == bad(Unencodable, "failed") \cup bad(Panicking, "panicked")
    IN  IF stops = {} THEN {"encoded"} ELSE stops

MarshalJSON ==
    /\ pc = "options" /\ applied = Len(opts)
    /\ body' = [k \in Key |->
                   IF k \in Reserved /\ (k \in OmitEmpty => problem.fields[k] # Absent)
                   THEN problem.fields[k] ELSE Kept(problem.extensions)[k]]
    /\ pc' \in Outcomes(body')
    /\ UNCHANGED <<err, opts, applied, problem, response>>

\* Bug: the status of the error is sent whether or not it could be encoded.
BugBare == [NoResponse EXCEPT !.status = problem.fields["status"]]
\* The response without a problem.
Bare == [NoResponse EXCEPT !.status = 500]

WriteFailed ==
    /\ pc = "failed"
    /\ response' = Bare
    /\ pc' = "done"
    /\ UNCHANGED <<err, opts, applied, problem, body>>

\* The connection may break while the body is written.
WriteEncoded ==
    /\ pc = "encoded"
    /\ \E written \in {"all", "part"} :
          response' = [status |-> problem.fields["status"],
                       contentType |-> "application/problem+json", body |-> written]
    /\ pc' = "done"
    /\ UNCHANGED <<err, opts, applied, problem, body>>

Next == From \/ Apply \/ MarshalJSON \/ WriteFailed \/ WriteEncoded

Spec == Init /\ [][Next]_vars

----------------------------------------------------------------------------
(* Properties.                                                             *)

\* v is what the first n of the options os make of a member k that the error
\* made x: the value of the last of them that sets it, if one does.
Chosen(os, n, k, v, x) ==
    \/ \E i \in 1..n : /\ os[i].member = k /\ os[i].value = v
                       /\ \A j \in (i + 1)..n : os[j].member # k
    \/ v = x /\ \A i \in 1..n : os[i].member # k

Derived(k) ==
    CASE k = "title" -> Title(err)
      [] k = "status" -> err.http
      [] k = "detail" -> IF err.public = Title(err) THEN Absent ELSE err.public
      [] k = "code" -> err.name
      [] k = "type" -> TypeURL
      [] k = "instance" -> Absent

\* The defined members say what the call said, whatever the extension members
\* are called: none can forge or replace one (problem.go:33-37), not even one
\* that is omitted.
MembersIntact ==
    pc \in {"encoded", "failed"} =>
        \A k \in Reserved : Chosen(opts, Len(opts), k, body[k], Derived(k))

\* "Explicit beats derived - even an explicit nil value" (From): a public
\* field is in the response as it is, the violations only if no field has
\* taken their name, and what an option says beats both.
ExplicitWins ==
    pc \in {"encoded", "failed"} =>
        \A k \in Key \ (Reserved \cup {""}) :
            Chosen(opts, Len(opts), k, body[k],
                   IF k = "errors" /\ err.fields[k] = Absent THEN err.violations ELSE err.fields[k])

\* The response's status is the one its body states, and an error whose data
\* cannot be encoded is a bare 500 and never half a problem.  A value under a
\* name that is dropped does no harm.  Where a panic passes through, nothing
\* has been sent: whoever recovers it can still answer.
ResponseAgrees ==
    LET bad == {body[k] : k \in Key \ (Reserved \cup {""})} \cap Bad
    IN  /\ pc = "done" /\ bad = {} => response.status = body["status"] /\ response.body # "none"
        /\ pc = "done" /\ bad # {} =>
              /\ Unencodable \in bad
              /\ response = [status |-> 500, contentType |-> Absent, body |-> "none"]
        /\ pc = "panicked" =>
              /\ response = NoResponse
              /\ Panicking \in bad \/ Extensions(err) = Nothing

============================================================================
