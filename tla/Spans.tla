------------------------------- MODULE Spans -------------------------------
(***************************************************************************)
(* otelerr.RecordSpan on spans that other goroutines record on too and     *)
(* that their owner marks and ends at any moment.  The span is the SDK's   *)
(* (external): it locks for one call at a time, ignores every call after   *)
(* its end, adds the exception's own attributes behind the caller's, keeps *)
(* a limited number of attributes per event, the first ones, and only ever *)
(* raises its status (Unset, Error, Ok).                                   *)
(*                                                                         *)
(* Definitions whose name begins with Bug are no part of the specification *)
(* (see Registry).                                                         *)
(***************************************************************************)
EXTENDS Taxonomy, FiniteSets, Sequences

CONSTANTS
    Goroutines,
    Span,      \* the spans, of one trace; a number is a span's id
    NoSpan,    \* a nil span
    Errors,    \* the errors recorded: what CodeOf, Attrs and Error say of each
    Nil,       \* the nil error
    Info,      \* the registry's entry of every code
    MaxInt,    \* the largest int64
    Limit,     \* the SDK's limit on attributes per event
    MaxEvents  \* bound: events on one span

\* A slog value: a number x of some kind, perhaps behind a LogValuer.  Its
\* kinds without a native attribute type print as x too.
Kind == {"String", "Int64", "Float64", "Bool", "Uint64", "Duration", "Time", "Group", "Any"}
Value == [kind: Kind, x: Int, valuer: BOOLEAN]
CodeKey == "errtrail.code"

ASSUME SpansAssumption ==
    /\ Span \subseteq Nat /\ NoSpan \notin Span /\ Nil \notin Errors
    /\ Errors \subseteq [code: DOMAIN Info, attrs: Seq([key: STRING, value: Value]),
                        text: STRING, typedNil: BOOLEAN]
    /\ Limit \in Nat /\ MaxEvents \in Nat /\ MaxInt \in Nat

VARIABLES
    recording,   \* recording[s]: s takes events
    events,      \* events[s]: the exception events on s
    status,      \* status[s]: the status of s, and
    description, \* description[s]: its description
    call         \* call[g]: the RecordSpan g is in

vars == <<recording, events, status, description, call>>

Idle == [pc |-> "idle", span |-> NoSpan, err |-> Nil]

\* Some spans were never recording, such as the one a context without a span
\* yields.
Init ==
    /\ recording \in [Span -> BOOLEAN]
    /\ events = [s \in Span |-> <<>>]
    /\ status = [s \in Span |-> "Unset"]
    /\ description = [s \in Span |-> ""]
    /\ call = [g \in Goroutines |-> Idle]

----------------------------------------------------------------------------
(* The attributes of an event.                                             *)

Attribute(key, type, x) == [key |-> key, type |-> type, x |-> x]

\* Bug: unsigned values are exported as signed ones, which wrap.
BugOtelAttr(a) ==
    IF a.value.kind \in {"Int64", "Uint64"}
    THEN Attribute(a.key, "Int64", IF a.value.x > MaxInt THEN a.value.x - 2 * (MaxInt + 1)
                                                         ELSE a.value.x)
    ELSE Attribute(a.key, IF a.value.kind \in {"Float64", "Bool"} THEN a.value.kind ELSE "String",
                   a.value.x)

\* v.Resolve() first; what has no attribute type is exported in its string
\* form.
otelAttr(a) ==
    LET v == [a.value EXCEPT !.valuer = FALSE]
    IN  Attribute(a.key, IF v.kind \in {"Int64", "Float64", "Bool"} THEN v.kind ELSE "String", v.x)

\* Bug: the reserved key is exported as any other.
BugReserved(a) == FALSE
Reserved(a) == a.key = CodeKey

\* What RecordSpan passes to RecordError: attributes[n] is what it has when
\* it has seen n attrs.
Attributes(e) ==
    LET attributes[n \in 0..Len(e.attrs)] ==
            IF n = 0 THEN <<Attribute(CodeKey, "String", Info[e.code].name)>>
            ELSE IF Reserved(e.attrs[n]) THEN attributes[n - 1]
            ELSE Append(attributes[n - 1], otelAttr(e.attrs[n]))
    IN  attributes[Len(e.attrs)]

\* What the SDK adds and keeps.
Exception == <<Attribute("exception.type", "String", 0),
               Attribute("exception.message", "String", 0)>>
Kept(attrs) == SubSeq(attrs, 1, IF Len(attrs) < Limit THEN Len(attrs) ELSE Limit)

----------------------------------------------------------------------------
(* RecordSpan.                                                             *)

\* The ids of a span's context, recording or not, as attrs.
TraceAttrs(s) ==
    IF s = NoSpan THEN <<>>
    ELSE LET attr(key, x) == [key |-> key, value |-> [kind |-> "String", x |-> x, valuer |-> FALSE]]
         IN  <<attr("trace_id", 0), attr("span_id", s)>>

\* The error with these attached; With leaves a nil *Error nil.
Tagged(e, s) ==
    IF e = Nil \/ e.typedNil THEN e ELSE [e EXCEPT !.attrs = @ \o TraceAttrs(s)]

\* A nil error, a nil span and one that is not recording are passed over.
RecordSpan(g, s, e) ==
    /\ call[g].pc = "idle"
    /\ e # Nil /\ s # NoSpan
    /\ recording[s]
    /\ call' = [call EXCEPT ![g] = [pc |-> "event", span |-> s, err |-> e]]
    /\ UNCHANGED <<recording, events, status, description>>

\* span.RecordError: by now the span may have ended.
RecordError(g) ==
    LET s == call[g].span
        e == call[g].err
    IN  /\ call[g].pc = "event"
        /\ Len(events[s]) < MaxEvents
        /\ events' = IF recording[s]
                     THEN [events EXCEPT ![s] = Append(@, [err |-> e, attributes |->
                                                   Kept(Attributes(e) \o Exception)])]
                     ELSE events
        /\ call' = [call EXCEPT ![g] =
              IF ServerFault(Info[e.code].grpc) THEN [@ EXCEPT !.pc = "status"] ELSE Idle]
        /\ UNCHANGED <<recording, status, description>>

\* span.SetStatus(codes.Error, err.Error()): an Ok stays.
SetStatus(g) ==
    LET s == call[g].span
        takes == recording[s] /\ status[s] # "Ok"
    IN  /\ call[g].pc = "status"
        /\ status' = [status EXCEPT ![s] = IF takes THEN "Error" ELSE @]
        /\ description' = [description EXCEPT ![s] = IF takes THEN call[g].err.text ELSE @]
        /\ call' = [call EXCEPT ![g] = Idle]
        /\ UNCHANGED <<recording, events>>

\* The span's owner declares it a success, or ends it.
SetOk(s) ==
    /\ recording[s]
    /\ status' = [status EXCEPT ![s] = "Ok"]
    /\ description' = [description EXCEPT ![s] = ""]
    /\ UNCHANGED <<recording, events, call>>

End(s) ==
    /\ recording[s]
    /\ recording' = [recording EXCEPT ![s] = FALSE]
    /\ UNCHANGED <<events, status, description, call>>

Next ==
    \/ \E g \in Goroutines :
          \/ \E s \in Span \cup {NoSpan}, e \in Errors \cup {Nil} :
                \E t \in {NoSpan, s} : RecordSpan(g, s, Tagged(e, t))
          \/ RecordError(g) \/ SetStatus(g)
    \/ \E s \in Span : SetOk(s) \/ End(s)

Spec == Init /\ [][Next]_vars

----------------------------------------------------------------------------
(* Properties.                                                             *)

\* The one attribute that alerts key off is on every event once, with the
\* name of the error's code, whatever attrs the error carries and however
\* many: the SDK cuts attributes off from behind.
CodeOnEvents == Limit > 0 =>
    \A s \in Span : \A i \in DOMAIN events[s] :
        LET v == events[s][i]
        IN  /\ v.attributes[1].key = CodeKey
            /\ v.attributes[1].x = Info[v.err.code].name
            /\ \A j \in 2..Len(v.attributes) : v.attributes[j].key # CodeKey

\* Behind it are the error's other attrs with the values that the log shows,
\* in their order and each as often as the error has it, then the exception's
\* own two and nothing else, up to the limit: no unsigned value has become
\* negative, no attr behind the reserved one is dropped with it or moved.
Shows(attribute, a) == attribute.key = a.key /\ attribute.x = a.value.x
Exported(e, n) == {i \in 1..n : e.attrs[i].key # CodeKey}
Place(e, i) == 1 + Cardinality(Exported(e, i))
AttrsAsLogged ==
    \A s \in Span : \A i \in DOMAIN events[s] :
        LET e == events[s][i].err
            shown == events[s][i].attributes
            all == Place(e, Len(e.attrs)) + 2
        IN  /\ Len(shown) = IF all < Limit THEN all ELSE Limit
            /\ \A j \in Exported(e, Len(e.attrs)) :
                  Place(e, j) <= Len(shown) => Shows(shown[Place(e, j)], e.attrs[j])

\* "the six server-fault gRPC codes are precisely the six codes mapped to
\* HTTP 5xx" (otelerr.go:88-90).
ServersFault(e) == Info[e.code].http >= 500

\* A failure of the server that is on a live span has made it an Error (or
\* will, by the goroutine that recorded it, or its owner has overruled it),
\* however many client faults are recorded around it.
FaultsMarked ==
    \A s \in Span : \A i \in DOMAIN events[s] :
        LET e == events[s][i].err
        IN  /\ recording[s]
            /\ ServersFault(e)
            /\ \A g \in Goroutines : call[g] # [pc |-> "status", span |-> s, err |-> e]
            => status[s] # "Unset"

\* A span is an Error only because of a failure of the server that is on it
\* too, and describes that one: client faults leave it alone, and no status
\* gets onto a span whose event was refused because it had ended.
StatusExplained ==
    \A s \in Span : status[s] = "Error" =>
        \E i \in DOMAIN events[s] : /\ ServersFault(events[s][i].err)
                                    /\ description[s] = events[s][i].err.text

=============================================================================
