----------------------------- MODULE Conversions -----------------------------
(***************************************************************************)
(* The converters at the service's boundary, read by read, while codes are *)
(* still being registered: grpcerr.ToStatus and FromStatus, problem.From,  *)
(* errtrail.PublicMessage and otelerr.RecordSpan.  Each asks the registry  *)
(* several questions about one code, every one a lookup of its own ("race- *)
(* free but not linearizable", code.go).  The registry is the atomic table *)
(* that Registry implements; an error is what the walks of inspect.go make *)
(* of it: its code, its public message and its own retry delay.            *)
(*                                                                         *)
(* Definitions whose name begins with Bug are no part of the specification *)
(* (see Registry).                                                         *)
(***************************************************************************)
EXTENDS Codes

CONSTANTS
    Writers, Calls,  \* who registers codes, and which
    Goroutines,      \* the requests being converted
    Errors,          \* the errors they convert
    Statuses,        \* the gRPC statuses they receive
    Trusted,         \* the domains given to TrustedDomain; {} trusts any
    Domain,          \* grpcerr.Domain, or Absent when it is ""
    StatusText,      \* http.StatusText, on the statuses it has a text for
    Unset            \* a member the converter has not set

\* The code walks report for an error none of whose nodes has a code.
Unknown == 2

\* One ErrorInfo detail, and a status as far as recovering its code goes.
ErrorInfo == [reason: Name, domain: STRING]

Err == [code: Code \ {0}, public: {Absent, "public"}, delay: Nat]

ASSUME ConversionsAssumption ==
    /\ Calls \subseteq RegisterCall
    /\ Errors \subseteq Err
    /\ \A s \in Statuses : s.grpc \in Nat \ {0} /\ s.infos \in Seq(ErrorInfo)
    /\ 500 \in DOMAIN StatusText
    /\ \A s \in DOMAIN StatusText : StatusText[s] # Absent
    /\ Unset # Absent
    \* "0-16 map to themselves", and Unknown is one of them.
    /\ Unknown \in Code
    /\ \A c \in Code : Builtins[c] # Absent => c <= 16 /\ Builtins[c].grpcCode = c
    /\ \A s \in Statuses : s.grpc <= 16 => s.grpc \in Code /\ Builtins[s.grpc] # Absent

VARIABLES
    table, op, answer,  \* the registry (module CodeTable)
    conv                \* conv[p]: the conversion goroutine p is running

Reg == INSTANCE CodeTable WITH Readers <- {}
regVars == <<table, op, answer>>
vars == <<table, op, answer, conv>>

\* The members of a Status, of a Problem and of a span event that are read
\* from the registry, and the local results of single lookups.
Member == {"msg", "grpc", "name", "reason", "delay", "http", "title", "code",
           "fault", "candidate", "result"}

\* The codes the OpenTelemetry conventions count as the server's fault.
ServerFault == {2, 4, 12, 13, 14, 15}

\* "born" is the entry of the error's code when the conversion began; the
\* converters do not know it, the properties compare with it.
NoConversion == [pc |-> "idle", kind |-> "none", input |-> Absent, born |-> Absent,
                 i |-> 0, out |-> [m \in Member |-> Unset]]

Start(p, kind, pc, input) ==
    /\ conv[p].pc = "idle"
    /\ conv' = [conv EXCEPT ![p] =
          [NoConversion EXCEPT
              !.pc = pc, !.kind = kind, !.input = input,
              !.born = IF kind = "FromStatus" THEN Absent ELSE table[input.code]]]
    /\ UNCHANGED regVars

\* One lookup of the error's code.
Looked(p) == table[conv[p].input.code]

\* Set member m and go on at step "to".
Read(p, from, m, v, to) ==
    /\ conv[p].pc = from
    /\ conv' = [conv EXCEPT ![p].out[m] = v, ![p].pc = to]
    /\ UNCHANGED regVars

Goto(p, from, to) ==
    /\ conv[p].pc = from
    /\ conv' = [conv EXCEPT ![p].pc = to]
    /\ UNCHANGED regVars

----------------------------------------------------------------------------
(* grpcerr.ToStatus and detailsFor.                                        *)

ToStatus(p, e) == Start(p, "ToStatus", "msg", e)

StatusMessage(p) ==
    Read(p, "msg", "msg",
         IF conv[p].input.public # Absent THEN conv[p].input.public ELSE StringOf(Looked(p)),
         "grpc")

StatusCode(p) ==
    Read(p, "grpc", "grpc", GRPCCodeOf(Looked(p)),
         IF Domain = Absent THEN "delay" ELSE "name")

\* CodeByName(code.String()) is two lookups; "CODE(n)" names nothing.
InfoName(p) == Read(p, "name", "name", StringOf(Looked(p)), "byName")

\* Bug: an ErrorInfo is attached whether or not the code is registered.
BugInfoByName(p) == Goto(p, "byName", "reason")
InfoByName(p) ==
    Goto(p, "byName",
         IF conv[p].out["name"] # Absent /\ Reg!Taken(table, conv[p].out["name"])
         THEN "reason" ELSE "delay")

InfoReason(p) == Read(p, "reason", "reason", StringOf(Looked(p)), "delay")

\* The error's own delay beats the registered one, which is then not read.
StatusDelay(p) ==
    Read(p, "delay", "delay",
         IF conv[p].input.delay > 0 THEN conv[p].input.delay ELSE RetryDelayOf(Looked(p)),
         "done")

----------------------------------------------------------------------------
(* problem.From, and errtrail.PublicMessage, which begins in the same way. *)

From(p, e) == Start(p, "From", "http", e)

PublicMessage(p, e) ==
    IF e.public # Absent
    THEN /\ conv[p].pc = "idle"
         /\ conv' = [conv EXCEPT ![p] =
               [NoConversion EXCEPT !.pc = "done", !.kind = "PublicMessage", !.input = e,
                                    !.born = table[e.code], !.out["title"] = e.public]]
         /\ UNCHANGED regVars
    ELSE Start(p, "PublicMessage", "http", e)

ReadHTTPStatus(p) == Read(p, "http", "http", HTTPStatusOf(Looked(p)), "title")

\* Bug: no fallback for a status without a text.
BugReadTitle(p) ==
    Read(p, "title", "title",
         IF conv[p].out["http"] \in DOMAIN StatusText THEN StatusText[conv[p].out["http"]]
                                                      ELSE Absent,
         IF conv[p].kind = "From" THEN "code" ELSE "done")

\* http.StatusText, or the code's name for a status it does not know.
ReadTitle(p) ==
    Read(p, "title", "title",
         IF conv[p].out["http"] \in DOMAIN StatusText THEN StatusText[conv[p].out["http"]]
                                                      ELSE StringOf(Looked(p)),
         IF conv[p].kind = "From" THEN "code" ELSE "done")

----------------------------------------------------------------------------
(* otelerr.RecordSpan.  Its first lookup, the code's name, is also the     *)
(* last one of problem.From.                                               *)

RecordSpan(p, e) == Start(p, "RecordSpan", "code", e)

ReadCodeName(p) ==
    Read(p, "code", "code", StringOf(Looked(p)),
         IF conv[p].kind = "RecordSpan" THEN "fault" ELSE "done")

ReadFault(p) == Read(p, "fault", "fault", GRPCCodeOf(Looked(p)) \in ServerFault, "done")

----------------------------------------------------------------------------
(* grpcerr.FromStatus: codeFromStatus goes through the ErrorInfo details.  *)

FromStatus(p, s) == Start(p, "FromStatus", "detail", s)

WireCode(s) == IF s.grpc <= 16 THEN s.grpc ELSE Unknown

\* Look at detail i: pass over it, or find the code its reason names.
NextDetail(p) ==
    LET s == conv[p].input
        i == conv[p].i + 1
    IN  /\ conv[p].pc = "detail"
        /\ \/ /\ i > Len(s.infos)
              /\ conv' = [conv EXCEPT ![p].out["result"] = WireCode(s), ![p].pc = "done"]
           \/ /\ i <= Len(s.infos)
              /\ \/ Trusted # {} /\ s.infos[i].domain \notin Trusted
                 \/ ~Reg!Taken(table, s.infos[i].reason)
              /\ conv' = [conv EXCEPT ![p].i = i]
           \/ /\ i <= Len(s.infos)
              /\ Trusted = {} \/ s.infos[i].domain \in Trusted
              /\ \E c \in Code :
                    /\ table[c] # Absent
                    /\ table[c].name = s.infos[i].reason
                    /\ conv' = [conv EXCEPT ![p].i = i, ![p].pc = "wire",
                                            ![p].out["candidate"] = c]
        /\ UNCHANGED regVars

\* Bug: a reason is believed whatever the status code says.
BugCheckWire(p) ==
    /\ conv[p].pc = "wire"
    /\ conv' = [conv EXCEPT ![p].out["result"] = conv[p].out["candidate"], ![p].pc = "done"]
    /\ UNCHANGED regVars

\* Bug: a detail that does not fit is looked at again.
BugCheckWireAgain(p) ==
    LET c == conv[p].out["candidate"]
    IN  /\ conv[p].pc = "wire"
        /\ conv' = IF GRPCCodeOf(table[c]) = conv[p].input.grpc
                   THEN [conv EXCEPT ![p].out["result"] = c, ![p].pc = "done"]
                   ELSE [conv EXCEPT ![p].i = @ - 1, ![p].pc = "detail"]
        /\ UNCHANGED regVars

\* The code found counts only if it maps to the status's own gRPC code.
CheckWire(p) ==
    LET c == conv[p].out["candidate"]
    IN  /\ conv[p].pc = "wire"
        /\ conv' = IF GRPCCodeOf(table[c]) = conv[p].input.grpc
                   THEN [conv EXCEPT ![p].out["result"] = c, ![p].pc = "done"]
                   ELSE [conv EXCEPT ![p].pc = "detail"]
        /\ UNCHANGED regVars

----------------------------------------------------------------------------
\* The converter returns, and the goroutine may convert something else.
Finish(p) ==
    /\ conv[p].pc = "done"
    /\ conv' = [conv EXCEPT ![p] = NoConversion]
    /\ UNCHANGED regVars

Begin(p) ==
    \/ \E e \in Errors : ToStatus(p, e) \/ From(p, e) \/ PublicMessage(p, e) \/ RecordSpan(p, e)
    \/ \E s \in Statuses : FromStatus(p, s)

Lookup(p) ==
    \/ StatusMessage(p) \/ StatusCode(p) \/ InfoName(p) \/ InfoByName(p)
    \/ InfoReason(p) \/ StatusDelay(p)
    \/ ReadHTTPStatus(p) \/ ReadTitle(p) \/ ReadCodeName(p) \/ ReadFault(p)
    \/ NextDetail(p) \/ CheckWire(p)

Init == Reg!Init /\ conv = [p \in Goroutines |-> NoConversion]

Next ==
    \/ Reg!Next /\ UNCHANGED conv
    \/ \E p \in Goroutines : Begin(p) \/ Lookup(p) \/ Finish(p)

Spec == Init /\ [][Next]_vars

\* A conversion is straight-line code in one goroutine and its lookups take
\* no lock, so it goes on; nothing is assumed of the goroutines that
\* register codes, which may stop anywhere.
FairSpec == Spec /\ \A p \in Goroutines : WF_vars(Lookup(p))

----------------------------------------------------------------------------
(* Properties.                                                             *)

Done(p, kind) == conv[p].pc = "done" /\ conv[p].kind = kind

\* A non-nil error never becomes status OK, however the registry changes
\* during the conversion: ToError would return nil for it.
NeverOK == \A p \in Goroutines :
    Done(p, "ToStatus") => conv[p].out["grpc"] \in 1..16

\* An ErrorInfo carries the registered name of the code it was made for, and
\* never "CODE(n)", although the reason is read in a third lookup after the
\* two that found the code registered.
ReasonIsRegistered == \A p \in Goroutines :
    Done(p, "ToStatus") /\ conv[p].out["reason"] # Unset =>
        /\ Looked(p) # Absent
        /\ conv[p].out["reason"] = Looked(p).name

\* A title and a public message are never empty and never "CODE(n)", even if
\* the fallback to the code's name is taken in the middle of a registration.
TitleIsWorded == \A p \in Goroutines :
    conv[p].pc = "done" => conv[p].out["title"] # Absent

\* What a converter of error x that read the entry e at once would have set.
MemberOf(m, x, e) ==
    CASE m = "msg" -> IF x.public # Absent THEN x.public ELSE StringOf(e)
      [] m = "grpc" -> GRPCCodeOf(e)
      [] m = "reason" -> IF Domain = Absent \/ e = Absent THEN Unset ELSE e.name
      [] m = "delay" -> IF x.delay > 0 THEN x.delay ELSE RetryDelayOf(e)
      [] m = "http" -> HTTPStatusOf(e)
      [] m = "title" -> IF HTTPStatusOf(e) \in DOMAIN StatusText
                       THEN StatusText[HTTPStatusOf(e)] ELSE StringOf(e)
      [] m = "code" -> StringOf(e)
      [] m = "fault" -> GRPCCodeOf(e) \in ServerFault

\* The members each conversion sets, in the order of the lookups that decide
\* them.
Reads == [ToStatus |-> <<"msg", "grpc", "reason", "delay">>,
          From |-> <<"http", "title", "code">>,
          PublicMessage |-> <<"title">>,
          RecordSpan |-> <<"code", "fault">>]

\* "One request in flight during a late registration can mix pre- and post-
\* registration answers ... the window is that single in-flight request":
\* there is one point in the conversion before which every member is as the
\* entry was when it began and after which every member is as the entry is
\* now.  A conversion that began with the code registered mixes nothing.
OneCut == \A p \in Goroutines :
    conv[p].pc = "done" /\ conv[p].kind \in DOMAIN Reads =>
        \/ conv[p].kind = "PublicMessage" /\ conv[p].input.public # Absent
        \/ LET reads == Reads[conv[p].kind]
           IN  \E cut \in 0..Len(reads) : \A i \in 1..Len(reads) :
                  conv[p].out[reads[i]] =
                      MemberOf(reads[i], conv[p].input,
                               IF i <= cut THEN conv[p].born ELSE Looked(p))

\* The code a client recovers is one that its own registry maps back to the
\* gRPC code on the wire, and otherwise the wire code itself; a custom code
\* comes only from a detail of a trusted domain that names it.
RecoveredFits == \A p \in Goroutines :
    Done(p, "FromStatus") =>
        LET s == conv[p].input
            c == conv[p].out["result"]
        IN  /\ s.grpc <= 16 => table[c] # Absent /\ table[c].grpcCode = s.grpc
            /\ s.grpc > 16 => c = Unknown
            /\ c # WireCode(s) => \E i \in 1..Len(s.infos) :
                  /\ s.infos[i].reason = table[c].name
                  /\ Trusted = {} \/ s.infos[i].domain \in Trusted

\* Every conversion returns, however many details a status has, whatever they
\* name, and though codes are registered all the while or a registration
\* stands still: a request never waits for the registry.
ConversionEnds == \A p \in Goroutines :
    conv[p].pc \notin {"idle", "done"} ~> conv[p].pc = "done"

============================================================================
