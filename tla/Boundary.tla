------------------------------ MODULE Boundary ------------------------------
(***************************************************************************)
(* From an error to everything that is made of it: its text (Error), %+v   *)
(* (detailed), the log group (LogValue), the problem response (From,       *)
(* MarshalJSON), the gRPC status (ToStatus) and the span event             *)
(* (RecordSpan), through several services: a status is an error again for  *)
(* the one that called.  The text shown to those who run the service is    *)
(* gathered in one pass (collect), what clients are sent by one walk for   *)
(* each question: these are Chains' reference, which Walk establishes.     *)
(* From's options, details that cannot be sent and registrations in        *)
(* progress are Problem's, Wire's and Conversions' subjects.               *)
(*                                                                         *)
(* A datum is a tuple of what it is and whose: <<"public", 3>> is the      *)
(* public message of error 3, so that every byte shown can be traced to    *)
(* where it was set.  Definitions whose name begins with Bug are no part   *)
(* of the specification (see Registry).                                    *)
(***************************************************************************)
EXTENDS Chains, Taxonomy

CONSTANTS
    Contents, \* what constructors and builders leave in an *Error
    Info,     \* the registry's entry of every registered code
    RetryAfter, \* the codes registered with a delay
    Titled,   \* the HTTP statuses that http.StatusText knows
    MaxErrors \* bound: errors that exist at a time

\* A public message: one of the error's own, or worded like a title or a code.
OwnWords == <<"public", 0>>
Wording == {OwnWords} \cup ({"title", "name"} \X Nat)

\* The contents of an *Error, of no cause yet: which of its parts are set, and
\* the keys of its fields and attrs.
ErrorContent == [kind: {"Error"}, branches: {<<0>>}, code: Nat \cup {Unset}, msg: BOOLEAN,
            public: Wording \cup {Unset}, barrier: BOOLEAN, delay: BOOLEAN, violation: BOOLEAN,
            fields: Seq(STRING), attrs: Seq(STRING)]

ASSUME BoundaryAssumption ==
    /\ Contents \subseteq ErrorContent
    /\ \A c \in 0..16 : Info[c] = Builtin[c]
    /\ RetryAfter \subseteq DOMAIN Info
    /\ \A e \in Contents : e.code # OK
    /\ MaxErrors \in Nat
    /\ Unset \notin Nat \cup ({"violation"} \X Nat) \cup ({"field"} \X Nat \X Nat)

VARIABLE errs  \* the errors of a request, in the order they were made

----------------------------------------------------------------------------
(* What an error carries, and what the walks find.                         *)

message(n) == IF errs[n].msg THEN << <<"msg", n>> >> ELSE <<>>
public == [n \in DOMAIN errs |-> IF errs[n].public = OwnWords THEN <<"public", n>> ELSE errs[n].public]
delay == [n \in DOMAIN errs |-> IF errs[n].delay THEN <<"delay", n>> ELSE Unset]
violations == [n \in DOMAIN errs |-> IF errs[n].violation THEN << <<"violation", n>> >> ELSE <<>>]
Pairs(what, n, keys) == [i \in DOMAIN keys |-> [key |-> keys[i], value |-> <<what, n, i>>]]
fields == [n \in DOMAIN errs |-> Pairs("field", n, errs[n].fields)]
attrs == [n \in DOMAIN errs |-> Pairs("attr", n, errs[n].attrs)]

All(n) == Preorder(errs, n, [m \in DOMAIN errs |-> errs[m].branches])
Unblocked(n) == Preorder(errs, n, [m \in DOMAIN errs |-> OpenBranches(errs[m])])

CodeOf(n) ==
    LET first == FirstSet(All(n), [m \in DOMAIN errs |-> errs[m].code])
    IN  IF first = Unset THEN Unknown ELSE first

LookupPublicMessage(n) == FirstSet(Unblocked(n), public)
LookupRetryDelay(n) == FirstSet(Unblocked(n), delay)
FieldViolations(n) == Together(Unblocked(n), violations)
PublicField(n, k) == FirstSet(Unblocked(n), [m \in DOMAIN errs |-> LastField(fields[m], k)])
Attrs(n) == Together(All(n), attrs)

\* The text of code c, "CODE(n)" included.
String(c) == <<"name", c>>
Registered(c) == c \in DOMAIN Info
GRPCCode(c) == IF Registered(c) THEN Info[c].grpc ELSE 2
HTTPStatus(c) == IF Registered(c) THEN Info[c].http ELSE 500
RetryDelay(c) == IF c \in RetryAfter THEN <<"registered", c>> ELSE Unset

----------------------------------------------------------------------------
(* For those who run the service.                                          *)

\* Bug: without a message of its own an error has no text.
BugTextWith(n, cause) == IF errs[n].msg THEN message(n) \o cause ELSE <<>>
\* "msg: cause", or the one of them that is there.
TextWith(n, cause) == message(n) \o cause

\* Error(): the messages in it, without the punctuation.  What a wrapper of
\* fmt.Errorf adds is not shown; Join puts its errors' texts together.
Text(root) ==
    LET below(n, text) == FlattenSeq([i \in DOMAIN errs[n].branches |-> text[errs[n].branches[i]]])
        text[n \in 0..Len(errs)] ==
            IF n = 0 THEN <<>>
            ELSE CASE errs[n].kind = "Error" -> TextWith(n, below(n, text))
                   [] errs[n].kind \in {"wrap", "join"} -> below(n, text)
                   [] errs[n].kind = "nilError" -> << <<"<nil>", n>> >>
                   [] errs[n].kind = "plain" -> << <<"plain", n>> >>
                   [] errs[n].kind = "status" -> << errs[n].message >>
    IN  text[root]

\* Frame.String: the function, and ": msg" if there is one.
FrameString(n) == << <<"function", n>> >> \o message(n)
Trace(n) == Together(All(n), [m \in DOMAIN errs |-> FrameString(m)])

\* The calls of fn in a walk from root: an *Error, negative if fn is told that
\* it is blocked, as everything below a barrier is.
Called(v) == IF v < 0 THEN -v ELSE v
CallAt == [v \in (-Len(errs)..Len(errs)) \ {0} |-> errs[Called(v)]]
CallsBelow == [v \in DOMAIN CallAt |->
    LET blocked == v < 0 \/ (CallAt[v].kind = "Error" /\ CallAt[v].barrier)
    IN  [i \in DOMAIN CallAt[v].branches |->
            IF blocked THEN -CallAt[v].branches[i] ELSE CallAt[v].branches[i]]]
Calls(root) == Preorder(CallAt, root, CallsBelow)

Collected == [code |-> Unknown, haveCode |-> FALSE, public |-> Unset, trace |-> <<>>, attrs |-> <<>>,
              fields |-> <<>>, violations |-> <<>>, retryDelay |-> Unset]

FirstShown(v, old, new) == IF v > 0 /\ old = Unset THEN new ELSE old
AllShown(v, old, new) == IF v > 0 THEN old \o new ELSE old
\* Bug: the innermost code wins.
BugSee(c, v) ==
    LET n == Called(v)
    IN  [code |-> IF errs[n].code # Unset THEN errs[n].code ELSE c.code,
         haveCode |-> c.haveCode \/ errs[n].code # Unset,
         public |-> FirstShown(v, c.public, public[n]),
         trace |-> c.trace \o FrameString(n),
         attrs |-> c.attrs \o attrs[n],
         fields |-> AllShown(v, c.fields, fields[n]),
         violations |-> AllShown(v, c.violations, violations[n]),
         retryDelay |-> FirstShown(v, c.retryDelay, delay[n])]
\* Bug: the delay is taken although blocked.
BugSeeShown(c, v) ==
    LET n == Called(v)
    IN  [code |-> IF ~c.haveCode /\ errs[n].code # Unset THEN errs[n].code ELSE c.code,
         haveCode |-> c.haveCode \/ errs[n].code # Unset,
         public |-> FirstShown(v, c.public, public[n]),
         trace |-> c.trace \o FrameString(n),
         attrs |-> c.attrs \o attrs[n],
         fields |-> AllShown(v, c.fields, fields[n]),
         violations |-> AllShown(v, c.violations, violations[n]),
         retryDelay |-> FirstShown(n, c.retryDelay, delay[n])]
\* What one call adds to c.
See(c, v) ==
    LET n == Called(v)
    IN  [code |-> IF ~c.haveCode /\ errs[n].code # Unset THEN errs[n].code ELSE c.code,
         haveCode |-> c.haveCode \/ errs[n].code # Unset,
         public |-> FirstShown(v, c.public, public[n]),
         trace |-> c.trace \o FrameString(n),
         attrs |-> c.attrs \o attrs[n],
         fields |-> AllShown(v, c.fields, fields[n]),
         violations |-> AllShown(v, c.violations, violations[n]),
         retryDelay |-> FirstShown(v, c.retryDelay, delay[n])]

\* collect, with or without the public data: they do not depend on each other.
Pass(calls) ==
    LET after[i \in 0..Len(calls)] == IF i = 0 THEN Collected ELSE See(after[i - 1], calls[i])
    IN  after[Len(calls)]
collect(n) == Pass(Calls(n))

\* The sections of %+v; one that has nothing to show is left out.
detailed(n) ==
    LET c == collect(n)
    IN  IF errs[n].kind = "nilError" THEN [text |-> Text(n)]
        ELSE [text |-> Text(n), code |-> String(c.code), public |-> c.public, fields |-> c.fields,
              violations |-> c.violations, retry |-> c.retryDelay, attrs |-> c.attrs, trace |-> c.trace]

Entry(key, value) == [key |-> key, value |-> value]
List(data) == <<"list", data>>

\* The group a logger writes; nil has none.  An attr under a key of the group
\* is a second entry with that key.
LogValue(n) ==
    LET c == collect(n)
    IN  IF errs[n].kind = "nilError" THEN <<>>
        ELSE <<Entry("msg", List(Text(n))), Entry("code", String(c.code)), Entry("trace", List(c.trace))>>
                \o c.attrs

\* The event on a span (Spans), and the description it leaves there.
SpanEvent(n) ==
    [attributes |-> <<Entry("errtrail.code", String(CodeOf(n)))>>
                        \o Only(Attrs(n), {a \in ToSet(Attrs(n)) : a.key # "errtrail.code"}),
     exception |-> Text(n),
     description |-> IF ServerFault(GRPCCode(CodeOf(n))) THEN Text(n) ELSE <<>>]

----------------------------------------------------------------------------
(* For clients.                                                            *)

Reserved == {"", "type", "title", "status", "detail", "instance", "code"}

\* The title of a response, and what is left of a public message m next to it.
Title(c) == IF HTTPStatus(c) \in Titled THEN <<"title", HTTPStatus(c)>> ELSE String(c)
Detail(c, m) == IF m = Title(c) THEN Unset ELSE m

\* Member k of the problem response.
Member(n, k) ==
    CASE k = "title" -> Title(CodeOf(n))
      [] k = "status" -> <<"status", HTTPStatus(CodeOf(n))>>
      [] k = "detail" -> Detail(CodeOf(n), LookupPublicMessage(n))
      [] k = "code" -> String(CodeOf(n))
      [] k \in {"", "type", "instance"} -> Unset
      [] k = "errors" /\ PublicField(n, k) = Unset /\ FieldViolations(n) # <<>> ->
            List(FieldViolations(n))
      [] OTHER -> PublicField(n, k)

MemberKey == Reserved \cup {"errors"} \cup UNION {{c.fields[i] : i \in DOMAIN c.fields} : c \in Contents}

\* grpcerr.Domain is set: a registered code is named in the ErrorInfo.  The
\* delay registered for the code stands in for one that the error has not.
ToStatus(n) ==
    LET c == CodeOf(n)
        m == LookupPublicMessage(n)
        d == LookupRetryDelay(n)
    IN  [grpc |-> GRPCCode(c),
         message |-> IF m # Unset THEN m ELSE String(c),
         reason |-> IF Registered(c) THEN c ELSE Unset,
         retry |-> IF d # Unset THEN d ELSE RetryDelay(c),
         violations |-> FieldViolations(n)]

\* The code the caller recovers: the one that is named if it fits, or the
\* one on the wire.
CodeFromStatus(st) ==
    IF st.reason # Unset /\ Registered(st.reason) /\ GRPCCode(st.reason) = st.grpc
    THEN st.reason ELSE st.grpc

----------------------------------------------------------------------------
(* A request.                                                              *)

BInit == errs = <<>>

Make(e) == Len(errs) < MaxErrors /\ errs' = Append(errs, e)
Foreign(kind, branches) == [kind |-> kind, branches |-> branches]

\* New and Wrap with the builders called on the result (see ErrorValues);
\* what they return for nil may be a typed nil.
Construct(c, cause) == Make([c EXCEPT !.branches = <<cause>>])
TypedNil == Make(Foreign("nilError", <<0>>))

\* errors.New, fmt.Errorf with %w, errors.Join.
Plain == Make(Foreign("plain", <<>>))
Errorf(n) == Make(Foreign("wrap", <<n>>))
Join(m, n) == Make(Foreign("join", <<m, n>>))

\* The request fails with error n, and its status reaches the service that
\* made it: there it is an error of grpc's, FROM n but not with it.
Receive(n) ==
    Make([kind |-> "status", branches |-> <<>>, status |-> ToStatus(n),
          message |-> ToStatus(n).message])

\* The statuses in the chain of an error, in the order in which errors.As finds
\* them.
Statuses(root) ==
    LET found[n \in 0..Len(errs)] ==
            IF n = 0 THEN <<>>
            ELSE IF errs[n].kind = "status" THEN <<errs[n].status>>
            ELSE FlattenSeq([i \in DOMAIN errs[n].branches |-> found[errs[n].branches[i]]])
    IN  found[root]

\* The status of an error is the first in its chain; one without is Unknown.
Bare == [kind |-> "Error", branches |-> <<0>>, code |-> Unset, msg |-> FALSE, public |-> Unset,
         barrier |-> FALSE, delay |-> FALSE, violation |-> FALSE, fields |-> <<>>, attrs |-> <<>>]
FromError(n) ==
    LET found == Statuses(n)
    IN  Construct([Bare EXCEPT !.code = IF found = <<>> THEN Unknown ELSE CodeFromStatus(Head(found))], n)

\* The next request.
Over == errs' = <<>>

BNext ==
    \/ \E c \in Contents, cause \in 0..Len(errs) : Construct(c, cause)
    \/ TypedNil \/ Plain \/ Over
    \/ \E n \in DOMAIN errs : Errorf(n) \/ Receive(n) \/ FromError(n) \/ \E m \in DOMAIN errs : Join(m, n)

BSpec == BInit /\ [][BNext]_errs

----------------------------------------------------------------------------
(* Properties.  Errors do not change, and each was the newest once: it is  *)
(* enough to look at that one.                                             *)

Newest == IF errs = <<>> THEN {} ELSE {Len(errs)}
Branches(n) == ToSet(errs[n].branches) \ {0}

\* What is logged, reported, answered and sent of an error names one code: the
\* pass of the formatter and the logger resolves what the walk of the responses
\* resolves, a field or attr under the key of the code never comes before it,
\* and in the log, where it is not dropped, it is a duplicate behind it.  It is
\* the code that a caller recovers if it is registered, Unknown otherwise.
\* An error's own code is its code; otherwise it is that of one of its branches,
\* and UNKNOWN if there is none: a typed nil or a foreign error has no code.
OneCode == \A n \in Newest :
    LET name == Member(n, "code")
        st == ToStatus(n)
        log == LogValue(n)
        span == SpanEvent(n).attributes
        coded == errs[n].kind = "Error" /\ errs[n].code # Unset
    IN  /\ errs[n].kind = "Error" =>
              /\ detailed(n).code = name
              /\ \E i \in DOMAIN log :
                    /\ log[i] = Entry("code", name)
                    /\ \A j \in DOMAIN log : log[j].key = "code" =>
                          j = i \/ (j > i /\ log[j] \in ToSet(Attrs(n)))
        /\ span[1] = Entry("errtrail.code", name)
        /\ \A i \in DOMAIN span : span[i].key = "errtrail.code" => i = 1
        /\ String(CodeFromStatus(st)) = IF st.reason # Unset THEN name ELSE String(Unknown)
        /\ name \in IF coded THEN {String(errs[n].code)}
                    ELSE IF Branches(n) = {} THEN {String(Unknown)}
                    ELSE {Member(m, "code") : m \in Branches(n)}

\* A client of n sees n's own public data, what a client of the errors that
\* n wraps would see, unless n is a barrier, and otherwise what is registered
\* and generic wordings:
\* no message, attr, frame or foreign text, and nothing a status brought in
\* from another service.
PublicKind == {"public", "delay", "violation", "field"}
Generic == {"name", "title", "status", "registered"}
DataOf(x) == IF x[1] = "list" THEN ToSet(x[2]) ELSE {x}
Seen(n) ==
    UNION {DataOf(x) : x \in ({Member(n, k) : k \in MemberKey} \cup ToSet(ToStatus(n).violations)
                               \cup {ToStatus(n).message, ToStatus(n).retry}) \ {Unset}}
ClientsSeeTheirOwn == \A n \in Newest :
    LET own == {d \in Seen(n) : d[1] \in PublicKind /\ d[2] = n}
        above == IF errs[n].kind = "Error" /\ errs[n].barrier THEN {} ELSE Branches(n)
    IN  \A d \in Seen(n) \ own :
          d[1] \in Generic \/ \E m \in above : d \in Seen(m)

\* "The %+v public lines show what a client can actually see" (inspect.go).
\* A public message that is shown is the one that a gRPC client gets, and the
\* detail of the response unless its title says so already; none is shown when
\* there is only the generic one.  The violations shown are those sent, but for
\* a field "errors" that replaces them.  The delay shown is the one sent, and
\* only the one registered for the code is sent without being shown.  Every
\* other member is a field that is shown, although not every field shown is
\* sent: a later or an outer one may replace it, or its name is reserved.
ShownIsSent == \A n \in Newest : errs[n].kind = "Error" =>
    LET d == detailed(n)
        st == ToStatus(n)
        shown == ToSet(d.fields)
    IN  /\ st.message = IF d.public # Unset THEN d.public ELSE d.code
        /\ Member(n, "detail") = IF d.public = Member(n, "title") THEN Unset ELSE d.public
        /\ st.violations = d.violations
        /\ (\A f \in shown : f.key # "errors") =>
              Member(n, "errors") = IF d.violations = <<>> THEN Unset ELSE List(d.violations)
        /\ st.retry = IF d.retry # Unset THEN d.retry ELSE RetryDelay(CodeOf(n))
        /\ \A k \in MemberKey \ Reserved :
              LET v == Member(n, k)
              IN  IF v = Unset \/ v[1] = "list" THEN \A f \in shown : f.key # k
                  ELSE Entry(k, v) \in shown

\* The text and the trace of an error tell the same story: the same messages
\* in the same order, none lost at an error that has none, at a typed nil or
\* in a branch; and the trace printed is the one that Trace gives.
TextMatchesTrace == \A n \in Newest :
    LET messages == {<<"msg", m>> : m \in DOMAIN errs}
    IN  /\ Only(Text(n), messages) = Only(Trace(n), messages)
        /\ errs[n].kind = "Error" => detailed(n).trace = Trace(n)

=============================================================================
