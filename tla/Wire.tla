-------------------------------- MODULE Wire --------------------------------
(***************************************************************************)
(* An error's way through a chain of gRPC services (grpcerr): each service *)
(* turns its error into a status, attaches details one call at a time if   *)
(* need be, and sends it; the next one receives what the transport leaves  *)
(* of it, wraps it, adds what it likes and passes it on.  Services have    *)
(* registries, domains and trusted domains of their own, and the first one *)
(* may not be written with errtrail at all.  Registries do not change here *)
(* (that is Conversions), and an error's chain is linear (Walk has joins). *)
(*                                                                         *)
(* Definitions whose name begins with Bug are no part of the specification *)
(* (see Registry).                                                         *)
(***************************************************************************)
EXTENDS Codes, SequencesExt

CONSTANTS
    Final,        \* services are 1..Final; the last one only receives
    Configs,      \* how a service may be set up
    Added(_),     \* the layers that service s may add to an error
    Foreign,      \* the statuses the first one sends if it is a foreign one
    ValidDomain,  \* domains that are valid UTF-8
    MaxDuration,  \* the largest time.Duration
    MaxProto,     \* the largest protobuf Duration, in the same unit
    MaxLayers     \* bound: the *Errors of one service

\* Text set by service "from", which may not be valid UTF-8.
Text == [from: Nat, utf8: BOOLEAN]

\* One *Error: code 0, public message Absent and delay 0 are unset; "by" is a
\* history of whose handler made it, 0 if it was FromError.
Layer == [by: 0..Final, code: Code \cup {0}, public: Text \cup {Absent}, barrier: BOOLEAN,
          violations: Seq(Text), delay: 0..MaxDuration]

\* What is remembered of an error that was sent.
Origin == [code: Code, entry: CodeInfo \cup {Absent}, delay: 0..MaxDuration]

\* A detail that errtrail attaches, and a status that it sends.
Detail == [kind: {"ErrorInfo"}, reason: Name, domain: {f.domain : f \in Configs}]
     \cup [kind: {"RetryInfo"}, delay: 0..MaxDuration]
     \cup [kind: {"BadRequest"}, texts: Seq(Text)]
Status == [grpc: Nat, message: Text, details: Seq(Detail)]

Unknown == 2

\* A registry: built-in codes are gRPC's own and stay as they are, a custom
\* one stands for one of them and never for OK (Registry).
Sound(table) ==
    /\ table \in CodeMap
    /\ \A c \in Code \cap 0..16 : table[c] # Absent /\ table[c].grpcCode = c
    /\ \A c \in Code : table[c] # Absent =>
          /\ table[c].grpcCode \in Code \cap 0..16
          /\ table[c].grpcCode = 0 => c = 0
          /\ table[c].retryDelay <= MaxDuration

ASSUME WireAssumption ==
    /\ Final \in Nat \ {0, 1}
    /\ MaxLayers \in Nat
    /\ MaxDuration \in Nat \ {0} /\ MaxProto \in Nat /\ MaxDuration < MaxProto
    /\ Absent \notin Text /\ Absent \notin ValidDomain
    /\ Absent \notin Origin /\ Absent \notin Status
    /\ Unknown \in Code
    /\ \A f \in Configs : Sound(f.table)
    /\ \A s \in 1..Final : \A x \in Added(s) :
          /\ x \in Layer /\ x.by = s
          /\ x.public = Absent \/ x.public.from = s
          /\ \A i \in DOMAIN x.violations : x.violations[i].from = s
    /\ \A st \in Foreign :
          /\ st \in [grpc: Nat \ {0}, message: Text,
                    details: Seq({st.details[i] : i \in DOMAIN st.details})]
          /\ st.grpc <= 16 => st.grpc \in Code

VARIABLES
    config, \* config[s]: registry, grpcerr.Domain and TrustedDomain of s
    at,     \* the service that has the error
    pc,     \* how far it has got with it
    layers, \* the *Errors of the chain, outermost first
    cause,  \* the status they wrap, Absent if none
    status, \* the status being made or on its way
    todo,   \* details to be attached
    sent    \* history: code, entry and delay of the error that was sent

vars == <<config, at, pc, layers, cause, status, todo, sent>>

\* The message of an error without a public one, its code's name, is from 0.
CodeName == [from |-> 0, utf8 |-> TRUE]

\* A detail of a status.
Info(reason, domain) == [kind |-> "ErrorInfo", reason |-> reason, domain |-> domain]
Retry(delay) == [kind |-> "RetryInfo", delay |-> delay]
BadRequest(texts) == [kind |-> "BadRequest", texts |-> texts]

Table == config[at].table

----------------------------------------------------------------------------
(* What an error says: the outermost layer that has it set, and for public *)
(* data no layer below a barrier.                                          *)

\* The first of the values that is set.
FirstSet(values, unset) ==
    LET i == SelectInSeq(values, LAMBDA v : v # unset) IN IF i = 0 THEN unset ELSE values[i]

Open == LET b == SelectInSeq(layers, LAMBDA x : x.barrier)
        IN  IF b = 0 THEN layers ELSE SubSeq(layers, 1, b)

CodeOf == LET c == FirstSet([i \in DOMAIN layers |-> layers[i].code], 0)
          IN  IF c = 0 THEN Unknown ELSE c
Public == FirstSet([i \in DOMAIN Open |-> Open[i].public], Absent)
OwnDelay == FirstSet([i \in DOMAIN Open |-> Open[i].delay], 0)
\* All violations: violations[n] are those of the first n layers.
Violations ==
    LET violations[n \in 0..Len(Open)] ==
            IF n = 0 THEN <<>> ELSE violations[n - 1] \o Open[n].violations
    IN  violations[Len(Open)]

----------------------------------------------------------------------------
(* The server: ToStatus.                                                   *)

\* The error's delay, or that of its code.
Delay == IF OwnDelay > 0 THEN OwnDelay ELSE RetryDelayOf(Table[CodeOf])

\* The details, in their order: each is there once or not at all.
InfoFor ==
    IF config[at].domain = Absent \/ Table[CodeOf] = Absent THEN <<>>
    ELSE <<Info(Table[CodeOf].name, config[at].domain)>>
RetryFor == IF Delay = 0 THEN <<>> ELSE <<Retry(Delay)>>
BadRequestFor == IF Violations = <<>> THEN <<>> ELSE <<BadRequest(Violations)>>
DetailsFor == InfoFor \o RetryFor \o BadRequestFor

\* Protobuf marshals only valid UTF-8.
Marshals(d) ==
    CASE d.kind = "ErrorInfo" -> d.domain \in ValidDomain
      [] d.kind = "RetryInfo" -> TRUE
      [] d.kind = "BadRequest" -> \A i \in DOMAIN d.texts : d.texts[i].utf8

\* Status.WithDetails takes all the details, or fails and changes nothing.
Accepts(st, details) == st.grpc # 0 /\ \A i \in DOMAIN details : Marshals(details[i])
Attach(details) == status' = [status EXCEPT !.details = @ \o details]

\* A handler makes an error of its own.
New(x) ==
    /\ pc = "idle"
    /\ x.code # 0
    /\ pc' = "handling"
    /\ layers' = <<x>>
    /\ UNCHANGED <<config, at, cause, status, todo, sent>>

\* It wraps the error, or derives from it.
Wrap(x) ==
    /\ pc = "handling"
    /\ Len(layers) < MaxLayers
    /\ layers' = <<x>> \o layers
    /\ UNCHANGED <<config, at, pc, cause, status, todo, sent>>

ToStatus ==
    /\ pc = "handling"
    /\ at < Final
    /\ status' = [grpc |-> GRPCCodeOf(Table[CodeOf]),
                  message |-> IF Public = Absent THEN CodeName ELSE Public,
                  details |-> <<>>]
    /\ todo' = DetailsFor
    /\ sent' = [code |-> CodeOf, entry |-> Table[CodeOf], delay |-> Delay]
    /\ pc' = IF todo' = <<>> THEN "sent" ELSE "attach"
    /\ UNCHANGED <<config, at, layers, cause>>

\* Bug: the details are given up when one of them fails.
BugAttachAll ==
    /\ pc = "attach"
    /\ IF Accepts(status, todo) THEN Attach(todo) ELSE UNCHANGED status
    /\ pc' = "sent" /\ todo' = <<>>
    /\ UNCHANGED <<config, at, layers, cause, sent>>
\* withDetails: all of them in one call, or else one by one.
AttachAll ==
    /\ pc = "attach"
    /\ IF Accepts(status, todo)
       THEN Attach(todo) /\ pc' = "sent" /\ todo' = <<>>
       ELSE pc' = "one by one" /\ UNCHANGED <<status, todo>>
    /\ UNCHANGED <<config, at, layers, cause, sent>>

AttachOne ==
    /\ pc = "one by one"
    /\ todo # <<>>
    /\ IF Accepts(status, <<todo[1]>>) THEN Attach(<<todo[1]>>) ELSE UNCHANGED status
    /\ todo' = Tail(todo)
    /\ pc' = IF todo' = <<>> THEN "sent" ELSE pc
    /\ UNCHANGED <<config, at, layers, cause, sent>>

\* The first service is not written with errtrail: it sends what it likes.
ForeignStatus ==
    /\ pc = "idle"
    /\ \E st \in Foreign : status' = st
    /\ pc' = "sent"
    /\ UNCHANGED <<config, at, layers, cause, todo, sent>>

----------------------------------------------------------------------------
(* The client: the transport's call returns an error; FromError.           *)

\* The trailer with the details cannot be marshalled if the message cannot.
Delivered(st) == IF st.message.utf8 THEN st ELSE [st EXCEPT !.details = <<>>]

Receive ==
    /\ pc = "sent"
    /\ pc' = "handling"
    /\ at' = at + 1
    /\ layers' = <<>>
    /\ cause' = Delivered(status)
    /\ UNCHANGED <<config, status, todo, sent>>

WireCode(st) == IF st.grpc <= 16 THEN st.grpc ELSE Unknown

\* Bug: whatever name it is, only that it is registered counts.
BugNamed(st, d) ==
    {c \in Code : /\ d.kind = "ErrorInfo"
                  /\ config[at].trusted = {} \/ d.domain \in config[at].trusted
                  /\ Table[c] # Absent
                  /\ Table[c].name = d.reason}

\* The codes that a detail names, if it may name one of this service's.
Named(st, d) ==
    {c \in Code : /\ d.kind = "ErrorInfo"
                  /\ config[at].trusted = {} \/ d.domain \in config[at].trusted
                  /\ Table[c] # Absent
                  /\ Table[c].name = d.reason
                  /\ Table[c].grpcCode = st.grpc}
\* codeFromStatus: the first detail that names a code, or the wire code.
CodeFromStatus(st) ==
    LET i == SelectInSeq(st.details, LAMBDA d : Named(st, d) # {})
    IN  IF i = 0 THEN WireCode(st) ELSE CHOOSE c \in Named(st, st.details[i]) : TRUE

\* Bug: the first RetryInfo is taken, whatever its delay is.
BugRetryDelay(st) ==
    LET i == SelectInSeq(st.details, LAMBDA d : d.kind = "RetryInfo")
    IN  IF i = 0 THEN 0
        ELSE IF st.details[i].delay > MaxDuration THEN MaxDuration ELSE st.details[i].delay
\* grpcerr.RetryDelay: the first RetryInfo whose delay is a protobuf Duration
\* and positive; AsDuration cuts it to what a time.Duration can hold.
RetryDelay(st) ==
    LET i == SelectInSeq(st.details, LAMBDA d :
                d.kind = "RetryInfo" /\ d.delay \in 1..MaxProto)
    IN  IF i = 0 THEN 0
        ELSE IF st.details[i].delay > MaxDuration THEN MaxDuration ELSE st.details[i].delay

\* Bug: the delay goes out to this service's own clients.
BugReceived(st) ==
    [by |-> 0, code |-> CodeFromStatus(st), public |-> Absent, barrier |-> FALSE,
     violations |-> <<>>, delay |-> RetryDelay(st)]
\* The *Error that FromError wraps around an error with status st; nothing
\* but the code is taken from it.
Received(st) ==
    [by |-> 0, code |-> CodeFromStatus(st), public |-> Absent, barrier |-> FALSE,
     violations |-> <<>>, delay |-> 0]

\* An error without a status in its chain counts as an Unknown one.
StatusOf == IF cause = Absent THEN [grpc |-> Unknown, message |-> CodeName, details |-> <<>>]
            ELSE cause

FromError ==
    /\ pc = "handling"
    /\ Len(layers) < MaxLayers
    /\ layers' = <<Received(StatusOf)>> \o layers
    /\ UNCHANGED <<config, at, pc, cause, status, todo, sent>>

\* The last service is done with the error.
Done ==
    /\ pc = "handling" /\ at = Final
    /\ pc' = "idle" /\ at' = 1 /\ layers' = <<>> /\ cause' = Absent
    /\ status' = Absent /\ sent' = Absent
    /\ UNCHANGED <<config, todo>>

----------------------------------------------------------------------------

Init ==
    /\ config \in [1..Final -> Configs]
    /\ at = 1 /\ pc = "idle" /\ layers = <<>> /\ cause = Absent
    /\ status = Absent /\ todo = <<>> /\ sent = Absent

Next ==
    \/ \E x \in Added(at) : New(x) \/ Wrap(x)
    \/ ToStatus \/ AttachAll \/ AttachOne \/ ForeignStatus
    \/ Receive \/ FromError \/ Done

Spec == Init /\ [][Next]_vars

----------------------------------------------------------------------------
(* Properties.                                                             *)

\* What is sent of a part of the details.
Sendable(part) == IF \A i \in DOMAIN part : Marshals(part[i]) THEN part ELSE <<>>

\* "Only that detail is dropped; the others and the status itself survive"
\* (ToStatus): what is sent is exactly what can be marshalled, in the fixed
\* order, whichever details fail and at whichever call.
DetailsIsolated ==
    pc = "sent" /\ sent # Absent =>
        status.details = Sendable(InfoFor) \o Sendable(RetryFor) \o Sendable(BadRequestFor)

\* "Callers share the same Code taxonomy end to end" (FromError): a client
\* that has a code of the sender's name and number recovers one, unless the
\* message was poisoned or the domain is not set, or valid, or trusted.
CodeSurvives ==
    [][FromError /\ sent # Absent =>
        LET domain == config[at - 1].domain
            same(c) == /\ Table[c] # Absent
                       /\ Table[c].name = sent.entry.name
                       /\ Table[c].grpcCode = sent.entry.grpcCode
            named == /\ status.message.utf8
                     /\ domain \in ValidDomain
                     /\ config[at].trusted = {} \/ domain \in config[at].trusted
                     /\ sent.entry # Absent
        IN  named /\ (\E c \in Code : same(c)) => same(layers'[1].code)]_vars

\* A service that leaves the code as it received it sends on the number it
\* received, whatever registries the two have; numbers beyond gRPC's become
\* Unknown.
NumericPreserved ==
    [][ToStatus /\ cause # Absent /\ layers # <<>>
      => LET n == Len(layers)
             kept == /\ layers[n] = Received(cause)
                     /\ \A i \in 1..(n - 1) : layers[i].code = 0
         IN  kept => status'.grpc = WireCode(cause)]_vars

\* A detail whose content was set by a handler of the service that has the
\* error, or registered there for the error's code.
OwnDetail(d) ==
    CASE d.kind = "ErrorInfo" -> /\ d.domain = config[at].domain
                                 /\ Table[CodeOf] # Absent /\ d.reason = Table[CodeOf].name
      [] d.kind = "RetryInfo" ->
            \/ \E j \in DOMAIN layers : layers[j].by = at /\ d.delay = layers[j].delay
            \/ d.delay = RetryDelayOf(Table[CodeOf])
      [] d.kind = "BadRequest" -> \A j \in DOMAIN d.texts : d.texts[j].from = at

\* "Received details are not turned back into public data" (FromError): all
\* that a service's client sees was set by that service's own handlers or
\* stands in its own registry, no text and no delay having come through
\* FromError from the service it called.
NothingForwarded ==
    pc = "sent" /\ sent # Absent =>
        /\ status.message.from \in {0, at}
        /\ \A i \in DOMAIN status.details : OwnDetail(status.details[i])

\* The client reads the delay the server's error asked for, whichever other
\* detail failed, unless a poisoned message cost all of them.
DelaySurvives ==
    pc = "handling" /\ sent # Absent =>
        RetryDelay(cause) = IF status.message.utf8 THEN sent.delay ELSE 0

\* The delay of a foreign status is one a time.Duration can hold, and a
\* RetryInfo without a usable delay does not hide one that has it.
DelayIsSound ==
    pc = "handling" /\ cause # Absent =>
        /\ RetryDelay(cause) \in 0..MaxDuration
        /\ RetryDelay(cause) = 0 =>
              \A i \in DOMAIN cause.details :
                  cause.details[i].kind = "RetryInfo" =>
                      cause.details[i].delay \notin 1..MaxProto

============================================================================
