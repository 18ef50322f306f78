---------------------------- MODULE SpansProofs ----------------------------
(***************************************************************************)
(* A span's status and the events on it agree, and an event shows the      *)
(* error's code and attrs, for every number of goroutines, spans, errors,  *)
(* attrs and registered codes.                                             *)
(***************************************************************************)
EXTENDS Spans, FiniteSetTheorems, WellFoundedInduction, SequenceTheorems, TLAPS

\* A code's gRPC code and its HTTP status are of one sort: true of the
\* built-ins, demanded of custom codes ("register consistently",
\* otelerr.go:91-94).
Consistent == \A c \in DOMAIN Info : Info[c].http >= 500 <=> ServerFault(Info[c].grpc)

Recorded == Errors \cup {Tagged(e, s) : e \in Errors, s \in Span \cup {NoSpan}}
Call == [pc: {"event", "status"}, span: Span, err: Recorded]
Statuses == {"Unset", "Error", "Ok"}

TypeInv ==
    /\ recording \in [Span -> BOOLEAN]
    /\ DOMAIN events = Span
    /\ \A s \in Span : \E S : events[s] \in Seq(S)
    /\ \A s \in Span : \A i \in DOMAIN events[s] : events[s][i].err \in Recorded
    /\ status \in [Span -> Statuses]
    /\ DOMAIN description = Span
    /\ call \in [Goroutines -> Call \cup {Idle}]

\* Who is about to set the status has recorded a failure of the server, on
\* a span that took it unless it had ended.
Announced ==
    \A g \in Goroutines : call[g].pc = "status" =>
        /\ ServersFault(call[g].err)
        /\ recording[call[g].span] =>
              \E i \in DOMAIN events[call[g].span] : events[call[g].span][i].err = call[g].err

IInv == TypeInv /\ Announced /\ FaultsMarked /\ StatusExplained

----------------------------------------------------------------------------
\* What Append does, whatever the elements are.
LEMMA Appended ==
    ASSUME NEW S, NEW q \in Seq(S), NEW e
    PROVE  /\ Append(q, e) \in Seq(S \cup {e})
           /\ \A i \in DOMAIN q : i \in DOMAIN Append(q, e) /\ Append(q, e)[i] = q[i]
           /\ \A i \in DOMAIN Append(q, e) : i \in DOMAIN q \/ Append(q, e)[i] = e
           /\ \E i \in DOMAIN Append(q, e) : Append(q, e)[i] = e
<1>1. q \in Seq(S \cup {e})
  OBVIOUS
<1>2. Append(q, e) \in Seq(S \cup {e})
  BY <1>1
<1>3. /\ DOMAIN q = 1..Len(q)
      /\ DOMAIN Append(q, e) = 1..(Len(q) + 1)
      /\ Len(q) \in Nat
      /\ \A i \in 1..Len(q) : Append(q, e)[i] = q[i]
      /\ Append(q, e)[Len(q) + 1] = e
  BY <1>1
<1> QED BY <1>2, <1>3

\* TraceAttrs changes an error's attrs only.
LEMMA RecordedCode ==
    ASSUME NEW e \in Recorded
    PROVE  e.code \in DOMAIN Info
<1>1. CASE e \in Errors
  BY <1>1, SpansAssumption
<1>2. CASE \E f \in Errors, s \in Span \cup {NoSpan} : e = Tagged(f, s)
  <2>1. PICK f \in Errors, s \in Span \cup {NoSpan} : e = Tagged(f, s)
    BY <1>2
  <2>2. e.code = f.code
    BY <2>1, SpansAssumption DEF Tagged
  <2>3. QED BY <2>2, SpansAssumption
<1>3. QED BY <1>1, <1>2 DEF Recorded

\* Nobody is recording, nothing is recorded.
LEMMA InitIInv == Init => IInv
<1> SUFFICES ASSUME Init PROVE IInv
  OBVIOUS
<1>1. \A s \in Span : events[s] = <<>> /\ DOMAIN events[s] = {}
  <2>1. DOMAIN <<>> = {}
    OBVIOUS
  <2> QED BY <2>1 DEF Init
<1>2. \A s \in Span : \E S : events[s] \in Seq(S)
  <2>1. <<>> \in Seq({})
    OBVIOUS
  <2> QED BY <1>1, <2>1
<1>3. /\ recording \in [Span -> BOOLEAN] /\ status \in [Span -> Statuses]
      /\ DOMAIN events = Span /\ DOMAIN description = Span
      /\ call \in [Goroutines -> Call \cup {Idle}]
  BY DEF Init, Statuses
<1>4. TypeInv
  BY <1>1, <1>2, <1>3 DEF TypeInv
<1>5. Announced
  BY DEF Init, Announced, Idle
<1>6. FaultsMarked
  BY <1>1 DEF FaultsMarked
<1>7. StatusExplained
  BY DEF Init, StatusExplained
<1> QED
  BY <1>4, <1>5, <1>6, <1>7 DEF IInv

\* A call begins.
LEMMA RecordSpanType ==
    ASSUME TypeInv, NEW g \in Goroutines, NEW s \in Span \cup {NoSpan}, NEW e \in Recorded \cup {Nil},
           RecordSpan(g, s, e)
    PROVE  TypeInv'
<1>1. /\ call' = [call EXCEPT ![g] = [pc |-> "event", span |-> s, err |-> e]]
      /\ UNCHANGED <<recording, events, status, description>>
      /\ call[g].pc = "idle" /\ s \in Span /\ e \in Recorded
  BY DEF RecordSpan
<1> QED
  BY <1>1 DEF TypeInv, Call

\* It has recorded nothing yet.
LEMMA RecordSpanIInv ==
    ASSUME IInv, NEW g \in Goroutines, NEW s \in Span \cup {NoSpan}, NEW e \in Recorded \cup {Nil},
           RecordSpan(g, s, e)
    PROVE  IInv'
<1>1. /\ call' = [call EXCEPT ![g] = [pc |-> "event", span |-> s, err |-> e]]
      /\ UNCHANGED <<recording, events, status, description>>
      /\ call[g].pc = "idle" /\ s \in Span /\ e \in Recorded
  BY DEF RecordSpan
<1>2. call \in [Goroutines -> Call \cup {Idle}]
  BY DEF IInv, TypeInv
<1>3. \A h \in Goroutines : call'[h] = IF h = g THEN [pc |-> "event", span |-> s, err |-> e]
                                                ELSE call[h]
  BY <1>1, <1>2
<1>4. TypeInv'
  BY RecordSpanType DEF IInv
<1>5. Announced'
  BY <1>1, <1>3 DEF IInv, Announced, ServersFault
<1>6. FaultsMarked'
  BY <1>1, <1>3 DEF IInv, FaultsMarked, ServersFault
<1>7. StatusExplained'
  BY <1>1 DEF IInv, StatusExplained, ServersFault
<1> QED BY <1>4, <1>5, <1>6, <1>7 DEF IInv

\* What RecordError does to the events: one more, on the one span.
Event(e) == [err |-> e, attributes |-> Kept(Attributes(e) \o Exception)]
LEMMA EventAdded ==
    ASSUME TypeInv, NEW g \in Goroutines, RecordError(g)
    PROVE  LET s == call[g].span
               v == Event(call[g].err)
           IN  /\ s \in Span /\ call[g].err \in Recorded
               /\ \A t \in Span : DOMAIN events[t] \subseteq DOMAIN events'[t]
               /\ \A t \in Span : \A i \in DOMAIN events[t] : events'[t][i] = events[t][i]
               /\ \A t \in Span : \A i \in DOMAIN events'[t] :
                     i \in DOMAIN events[t] \/ (t = s /\ recording[s] /\ events'[t][i] = v)
               /\ recording[s] => \E i \in DOMAIN events'[s] : events'[s][i] = v
               /\ DOMAIN events' = Span
               /\ \A t \in Span : \E T : events'[t] \in Seq(T)
<1> DEFINE s == call[g].span
           v == Event(call[g].err)
<1>1. /\ call[g] \in Call /\ call[g].pc = "event" /\ s \in Span /\ call[g].err \in Recorded
      /\ DOMAIN events = Span /\ recording[s] \in BOOLEAN
  BY DEF TypeInv, RecordError, Call, Idle
<1>2. events' = IF recording[s] THEN [events EXCEPT ![s] = Append(@, v)] ELSE events
  BY DEF RecordError, Event
<1>3. PICK S : events[s] \in Seq(S)
  BY <1>1 DEF TypeInv
<1>4. /\ \A t \in Span : DOMAIN events[t] \subseteq DOMAIN events'[t]
      /\ \A t \in Span : \A i \in DOMAIN events[t] : events'[t][i] = events[t][i]
      /\ \A t \in Span : \A i \in DOMAIN events'[t] :
            i \in DOMAIN events[t] \/ (t = s /\ recording[s] /\ events'[t][i] = v)
      /\ recording[s] => \E i \in DOMAIN events'[s] : events'[s][i] = v
      /\ DOMAIN events' = Span
      /\ \A t \in Span : \E T : events'[t] \in Seq(T)
  <2>1. CASE recording[s]
    <3>1. \A t \in Span : events'[t] = IF t = s THEN Append(events[s], v) ELSE events[t]
      BY <1>1, <1>2, <2>1
    <3> DEFINE x == events[s]
    <3>x. x \in Seq(S)
      BY <1>3
    <3> HIDE DEF v, x
    <3>2. /\ Append(x, v) \in Seq(S \cup {v})
          /\ \A i \in DOMAIN x : i \in DOMAIN Append(x, v) /\ Append(x, v)[i] = x[i]
          /\ \A i \in DOMAIN Append(x, v) : i \in DOMAIN x \/ Append(x, v)[i] = v
          /\ \E i \in DOMAIN Append(x, v) : Append(x, v)[i] = v
      BY <3>x, Appended
    <3> USE DEF x
    <3> DEFINE q == Append(events[s], v)
    <3>3. \A t \in Span : \E T : events'[t] \in Seq(T)
      BY <3>1, <3>2 DEF TypeInv
    <3>4. DOMAIN events' = Span
      BY <1>1, <1>2, <2>1
    <3> HIDE DEF q
    <3> QED BY <1>1, <2>1, <3>1, <3>2, <3>3, <3>4 DEF q
  <2>2. CASE ~recording[s]
    BY <1>1, <1>2, <2>2 DEF TypeInv
  <2> QED BY <2>1, <2>2
<1> QED
  BY <1>1, <1>4

LEMMA RecordErrorType ==
    ASSUME TypeInv, NEW g \in Goroutines, RecordError(g)
    PROVE  TypeInv'
<1> DEFINE s == call[g].span
           e == call[g].err
           fault == ServerFault(Info[e.code].grpc)
<1>1. /\ call[g] \in Call /\ s \in Span /\ e \in Recorded
      /\ call \in [Goroutines -> Call \cup {Idle}]
  BY DEF TypeInv, RecordError, Call, Idle
<1>2. /\ call' = [call EXCEPT ![g] = IF fault THEN [@ EXCEPT !.pc = "status"] ELSE Idle]
      /\ UNCHANGED <<recording, status, description>>
  BY DEF RecordError
<1>3. call' \in [Goroutines -> Call \cup {Idle}]
  BY <1>1, <1>2 DEF Call
<1>4. Event(e).err = e
  BY DEF Event
<1> QED
  BY <1>1, <1>2, <1>3, <1>4, EventAdded DEF TypeInv

\* A failure of the server leaves its status to the next step of the same
\* goroutine.
LEMMA RecordErrorIInv ==
    ASSUME Consistent, IInv, NEW g \in Goroutines, RecordError(g)
    PROVE  IInv'
<1> DEFINE s == call[g].span
           e == call[g].err
           v == Event(e)
           fault == ServerFault(Info[e.code].grpc)
<1>1. /\ call[g] \in Call /\ call[g].pc = "event" /\ s \in Span /\ e \in Recorded
      /\ call \in [Goroutines -> Call \cup {Idle}]
  BY DEF IInv, TypeInv, RecordError, Call, Idle
<1>2. /\ call' = [call EXCEPT ![g] = IF fault THEN [@ EXCEPT !.pc = "status"] ELSE Idle]
      /\ UNCHANGED <<recording, status, description>>
  BY DEF RecordError
<1>3. \A h \in Goroutines :
          call'[h] = IF h # g THEN call[h]
                     ELSE IF fault THEN [pc |-> "status", span |-> s, err |-> e] ELSE Idle
  BY <1>1, <1>2 DEF Call
<1>4. TypeInv
  BY DEF IInv
<1>5. /\ \A t \in Span : DOMAIN events[t] \subseteq DOMAIN events'[t]
      /\ \A t \in Span : \A i \in DOMAIN events[t] : events'[t][i] = events[t][i]
      /\ \A t \in Span : \A i \in DOMAIN events'[t] :
            i \in DOMAIN events[t] \/ (t = s /\ recording[s] /\ events'[t][i] = v)
      /\ recording[s] => \E i \in DOMAIN events'[s] : events'[s][i] = v
  BY <1>4, EventAdded
<1>6. v.err = e
  BY DEF Event
<1>7. fault <=> ServersFault(e)
  <2>1. e.code \in DOMAIN Info
    BY <1>1, RecordedCode
  <2> QED BY <2>1 DEF Consistent, ServersFault
<1> HIDE DEF v, fault
<1>8. TypeInv'
  BY <1>4, RecordErrorType
<1>9. Announced'
  <2> SUFFICES ASSUME NEW h \in Goroutines, call'[h].pc = "status"
               PROVE  /\ ServersFault(call'[h].err)
                      /\ recording[call'[h].span] =>
                            \E i \in DOMAIN events'[call'[h].span] :
                                events'[call'[h].span][i].err = call'[h].err
    BY <1>2 DEF Announced, ServersFault
  <2>1. CASE h = g
    BY <1>3, <1>5, <1>6, <1>7, <2>1 DEF Idle
  <2>2. CASE h # g
    <3>1. call'[h] = call[h] /\ call[h].span \in Span
      BY <1>1, <1>3, <2>2 DEF Call, Idle
    <3> QED
      BY <1>5, <3>1 DEF IInv, Announced
  <2> QED
    BY <2>1, <2>2
<1>10. FaultsMarked'
  <2> SUFFICES ASSUME NEW t \in Span, NEW i \in DOMAIN events'[t],
                      recording'[t], ServersFault(events'[t][i].err),
                      \A h \in Goroutines :
                          call'[h] # [pc |-> "status", span |-> t, err |-> events'[t][i].err]
               PROVE  status'[t] # "Unset"
    BY DEF FaultsMarked, ServersFault
  <2>1. CASE i \in DOMAIN events[t]
    <3>1. events'[t][i] = events[t][i]
      BY <1>5, <2>1
    <3>2. \A h \in Goroutines :
              call[h] # [pc |-> "status", span |-> t, err |-> events[t][i].err]
      BY <1>1, <1>3, <3>1
    <3> QED BY <1>2, <2>1, <3>1, <3>2 DEF IInv, FaultsMarked, ServersFault
  <2>2. CASE t = s /\ events'[t][i] = v
    BY <1>3, <1>6, <1>7, <2>2
  <2> QED BY <1>5, <2>1, <2>2
<1>11. StatusExplained'
  BY <1>2, <1>5 DEF IInv, StatusExplained, ServersFault
<1> QED BY <1>8, <1>9, <1>10, <1>11 DEF IInv

\* The status follows: the span is marked if it still can be.
LEMMA SetStatusType ==
    ASSUME TypeInv, NEW g \in Goroutines, SetStatus(g)
    PROVE  TypeInv'
BY DEF TypeInv, SetStatus, Statuses

LEMMA SetStatusIInv ==
    ASSUME IInv, NEW g \in Goroutines, SetStatus(g)
    PROVE  IInv'
<1> DEFINE s == call[g].span
           e == call[g].err
           takes == recording[s] /\ status[s] # "Ok"
<1>1. /\ call[g] \in Call /\ call[g].pc = "status" /\ s \in Span /\ e \in Recorded
      /\ call \in [Goroutines -> Call \cup {Idle}]
      /\ status \in [Span -> Statuses] /\ DOMAIN description = Span
  BY DEF IInv, TypeInv, SetStatus, Call, Idle
<1>2. /\ \A t \in Span : status'[t] = IF t = s /\ takes THEN "Error" ELSE status[t]
      /\ \A t \in Span : description'[t] = IF t = s /\ takes THEN e.text ELSE description[t]
      /\ \A h \in Goroutines : call'[h] = IF h = g THEN Idle ELSE call[h]
      /\ UNCHANGED <<recording, events>>
  BY <1>1 DEF SetStatus
<1>4. TypeInv'
  BY SetStatusType DEF IInv
<1>5. Announced'
  BY <1>2 DEF IInv, Announced, ServersFault, Idle
<1>6. FaultsMarked'
  <2> SUFFICES ASSUME NEW t \in Span, NEW i \in DOMAIN events[t],
                      recording[t], ServersFault(events[t][i].err),
                      \A h \in Goroutines :
                          call'[h] # [pc |-> "status", span |-> t, err |-> events[t][i].err]
               PROVE  status'[t] # "Unset"
    BY <1>2 DEF FaultsMarked, ServersFault
  <2>1. CASE t = s
    BY <1>1, <1>2, <2>1 DEF Statuses
  <2>2. CASE t # s
    <3>1. \A h \in Goroutines :
              call[h] # [pc |-> "status", span |-> t, err |-> events[t][i].err]
      BY <1>2, <2>2
    <3> QED BY <1>2, <2>2, <3>1 DEF IInv, FaultsMarked, ServersFault
  <2> QED BY <2>1, <2>2
<1>7. StatusExplained'
  <2> SUFFICES ASSUME NEW t \in Span, status'[t] = "Error"
               PROVE  \E i \in DOMAIN events[t] : /\ ServersFault(events[t][i].err)
                                                  /\ description'[t] = events[t][i].err.text
    BY <1>2 DEF StatusExplained, ServersFault
  <2>1. CASE t = s /\ takes
    BY <1>1, <1>2, <2>1 DEF IInv, Announced
  <2>2. CASE ~(t = s /\ takes)
    BY <1>2, <2>2 DEF IInv, StatusExplained
  <2> QED BY <2>1, <2>2
<1> QED BY <1>4, <1>5, <1>6, <1>7 DEF IInv

\* The owner's steps.
LEMMA OwnerType ==
    ASSUME TypeInv, NEW s \in Span, SetOk(s) \/ End(s)
    PROVE  TypeInv'
BY DEF TypeInv, SetOk, End, Statuses

LEMMA OwnerIInv ==
    ASSUME IInv, NEW s \in Span, SetOk(s) \/ End(s)
    PROVE  IInv'
<1>1. /\ status \in [Span -> Statuses] /\ DOMAIN description = Span
      /\ recording \in [Span -> BOOLEAN]
  BY DEF IInv, TypeInv
<1>2. CASE SetOk(s)
  <2>1. /\ status' \in [Span -> Statuses] /\ DOMAIN description' = Span
        /\ \A t \in Span : status'[t] = IF t = s THEN "Ok" ELSE status[t]
        /\ \A t \in Span : t # s => description'[t] = description[t]
        /\ UNCHANGED <<recording, events, call>>
    BY <1>1, <1>2 DEF SetOk, Statuses
  <2>2. TypeInv' /\ Announced'
    <3>1. Announced'
      BY <2>1 DEF IInv, Announced, ServersFault
    <3> QED
      BY <3>1, OwnerType DEF IInv
  <2>3. FaultsMarked'
    BY <2>1 DEF IInv, FaultsMarked, ServersFault
  <2>4. StatusExplained'
    BY <2>1 DEF IInv, StatusExplained, ServersFault
  <2> QED BY <2>2, <2>3, <2>4 DEF IInv
<1>3. CASE End(s)
  <2>1. /\ recording' \in [Span -> BOOLEAN]
        /\ \A t \in Span : recording'[t] => recording[t]
        /\ UNCHANGED <<events, status, description, call>>
    BY <1>1, <1>3 DEF End
  <2>2. TypeInv' /\ Announced'
    <3>1. TypeInv'
      BY OwnerType DEF IInv
    <3>2. \A g \in Goroutines : call[g].pc = "status" => call[g].span \in Span
      BY DEF IInv, TypeInv, Call, Idle
    <3>3. Announced'
      BY <2>1, <3>2 DEF IInv, Announced, ServersFault
    <3> QED BY <3>1, <3>3
  <2>3. FaultsMarked'
    BY <2>1 DEF IInv, FaultsMarked, ServersFault
  <2>4. StatusExplained'
    BY <2>1 DEF IInv, StatusExplained, ServersFault
  <2> QED BY <2>2, <2>3, <2>4 DEF IInv
<1> QED BY <1>2, <1>3

LEMMA TaggedType ==
    ASSUME NEW s \in Span \cup {NoSpan}, NEW e \in Errors \cup {Nil}, NEW t \in {NoSpan, s}
    PROVE  Tagged(e, t) \in Recorded \cup {Nil}
<1>1. Tagged(Nil, t) = Nil
  BY DEF Tagged
<1>2. t \in Span \cup {NoSpan}
  OBVIOUS
<1> QED BY <1>1, <1>2 DEF Recorded

LEMMA NextIInv == Consistent /\ IInv /\ [Next]_vars => IInv'
<1> SUFFICES ASSUME Consistent, IInv, [Next]_vars PROVE IInv'
  OBVIOUS
<1>1. ASSUME NEW g \in Goroutines, NEW s \in Span \cup {NoSpan}, NEW e \in Errors \cup {Nil},
             NEW t \in {NoSpan, s}, RecordSpan(g, s, Tagged(e, t))
      PROVE  IInv'
  <2>1. Tagged(e, t) \in Recorded \cup {Nil}
    BY TaggedType
  <2> QED BY <1>1, <2>1, RecordSpanIInv
<1>2. ASSUME NEW g \in Goroutines, RecordError(g) PROVE IInv'
  BY <1>2, RecordErrorIInv
<1>3. ASSUME NEW g \in Goroutines, SetStatus(g) PROVE IInv'
  BY <1>3, SetStatusIInv
<1>4. ASSUME NEW s \in Span, SetOk(s) \/ End(s) PROVE IInv'
  BY <1>4, OwnerIInv
<1>5. CASE UNCHANGED vars
  <2>1. TypeInv' /\ Announced'
    BY <1>5 DEF vars, IInv, TypeInv, Announced, ServersFault
  <2>2. FaultsMarked' /\ StatusExplained'
    BY <1>5 DEF vars, IInv, FaultsMarked, StatusExplained, ServersFault
  <2> QED BY <2>1, <2>2 DEF IInv
<1> QED BY <1>1, <1>2, <1>3, <1>4, <1>5 DEF Next

\* On a live span a failure of the server is never left unmarked, whatever is
\* recorded beside it (RecordSpan's last step).
THEOREM FaultsMarkedCorrect == Consistent => (Spec => []FaultsMarked)
<1> SUFFICES ASSUME Consistent PROVE Spec => []FaultsMarked
  OBVIOUS
<1>1. IInv => FaultsMarked
  BY DEF IInv
<1>2. IInv /\ [Next]_vars => IInv'
  BY NextIInv
<1> QED BY <1>1, <1>2, InitIInv, PTL DEF Spec

\* A span is an Error for nothing but a failure of the server that is on it,
\* and says which (serverFault, and the order of RecordSpan's two calls).
THEOREM StatusExplainedCorrect == Consistent => (Spec => []StatusExplained)
<1> SUFFICES ASSUME Consistent PROVE Spec => []StatusExplained
  OBVIOUS
<1>1. IInv => StatusExplained
  BY DEF IInv
<1>2. IInv /\ [Next]_vars => IInv'
  BY NextIInv
<1> QED BY <1>1, <1>2, InitIInv, PTL DEF Spec

----------------------------------------------------------------------------
(* What is on an event.                                                    *)

\* A non-empty set of naturals has a least element.
LEMMA LeastNat ==
    ASSUME NEW T, T \subseteq Nat, T # {}
    PROVE  \E x \in T : \A y \in T : x <= y
<1> DEFINE R == OpToRel(<, Nat)
<1>1. IsWellFoundedOn(R, Nat)
  BY NatLessThanWellFounded
<1>2. \A x, y \in Nat : y < x => <<y, x>> \in R
  BY DEF OpToRel
<1> HIDE DEF R
<1>3. PICK x \in T : \A y \in T : ~ (<<y, x>> \in R)
  BY <1>1, WFMin
<1>4. \A y \in T : ~ (y < x)
  BY <1>2, <1>3
<1> QED
  BY <1>3, <1>4

\* The first attribute, and what the loop makes of what it has when it sees
\* the n-th attr.
First(e) == Attribute(CodeKey, "String", Info[e.code].name)
Added(e, n, q) == IF Reserved(e.attrs[n]) THEN q ELSE Append(q, otelAttr(e.attrs[n]))
Stage(e, n, q) == IF n = 0 THEN <<First(e)>> ELSE Added(e, n, q)

\* The loop does what its recursive definition says.
LEMMA AttributesBuilt ==
    ASSUME NEW e, Len(e.attrs) \in Nat
    PROVE  \E f : /\ \A n \in 0..Len(e.attrs) : f[n] = Stage(e, n, f[n - 1])
                  /\ Attributes(e) = f[Len(e.attrs)]
<1> DEFINE N == Len(e.attrs)
           Upto(n, f) == f = [i \in 0..n |-> Stage(e, i, f[i - 1])]
           T == {n \in 0..N : ~ \E f : Upto(n, f)}
<1>1. T = {}
  <2> SUFFICES ASSUME T # {} PROVE FALSE
    OBVIOUS
  <2>1. T \subseteq Nat
    OBVIOUS
  <2> HIDE DEF T
  <2>2. PICK m \in T : \A y \in T : m <= y
    BY <2>1, LeastNat
  <2> USE DEF T
  <2>3. CASE m = 0
    <3> DEFINE f == [i \in 0..0 |-> <<First(e)>>]
    <3>1. \A i \in 0..0 : Stage(e, i, f[i - 1]) = <<First(e)>>
      BY DEF Stage
    <3>2. Upto(0, f)
      BY <3>1
    <3> QED
      BY <2>2, <2>3, <3>2
  <2>4. CASE m # 0
    <3>1. m - 1 \in 0..N /\ m - 1 \notin T
      <4>1. m \in 0..N
        BY <2>2
      <4> HIDE DEF T
      <4> QED
        BY <2>2, <2>4, <4>1
    <3>2. PICK f : Upto(m - 1, f)
      BY <3>1
    <3> DEFINE g == [i \in 0..m |-> IF i = m THEN Stage(e, m, f[m - 1]) ELSE f[i]]
    <3>3. m \in Nat /\ \A i \in 0..m - 1 : f[i] = Stage(e, i, f[i - 1])
      BY <2>2, <3>2
    <3>4. ASSUME NEW i \in 0..m PROVE g[i] = Stage(e, i, g[i - 1])
      <4>1. CASE i = 0
        BY <2>4, <3>3, <4>1 DEF Stage
      <4>2. CASE i # 0
        <5>1. i - 1 \in 0..m /\ i - 1 # m /\ g[i - 1] = f[i - 1]
          BY <3>3, <4>2
        <5>2. g[i] = Stage(e, i, f[i - 1])
          BY <3>3
        <5> HIDE DEF g
        <5> QED
          BY <5>1, <5>2
      <4> QED
        BY <4>1, <4>2
    <3>5. g = [i \in 0..m |-> g[i]]
      OBVIOUS
    <3> HIDE DEF g
    <3>6. Upto(m, g)
      BY <3>4, <3>5
    <3> QED
      BY <2>2, <3>6
  <2> QED
    BY <2>3, <2>4
<1> DEFINE f == CHOOSE g : Upto(N, g)
<1>2. N \in 0..N
  OBVIOUS
<1>3. \E g : Upto(N, g)
  BY <1>1, <1>2
<1>4. Upto(N, f)
  BY <1>3, Zenon
<1>5. Attributes(e) = f[N]
  BY DEF Attributes, Stage, Added, First
<1> HIDE DEF f
<1>6. \A n \in 0..N : f[n] = Stage(e, n, f[n - 1])
  BY <1>4
<1> QED
  BY <1>5, <1>6

Key == STRING \cup {"trace_id", "span_id"}
Attr == [key: Key, value: Value]

LEMMA otelAttrShows ==
    ASSUME NEW a \in Attr
    PROVE  Shows(otelAttr(a), a)
<1>1. a.value \in Value
  BY DEF Attr
<1>2. [a.value EXCEPT !.valuer = FALSE].x = a.value.x
  BY <1>1 DEF Value
<1> QED
  BY <1>2, Zenon DEF otelAttr, Shows, Attribute

\* q is what the loop has when it has seen the attrs up to the n-th.
Showing(e, n, q) ==
    /\ \E S : q \in Seq(S)
    /\ Len(q) >= 1 /\ q[1] = First(e)
    /\ \A j \in 2..Len(q) : \E i \in 1..n : ~Reserved(e.attrs[i]) /\ Shows(q[j], e.attrs[i])
    /\ Len(q) = Place(e, n)
    /\ \A i \in Exported(e, n) : /\ Place(e, i) \in 2..Len(q)
                                 /\ Shows(q[Place(e, i)], e.attrs[i])

\* One attr more moves the place by one, unless its key is reserved.
LEMMA PlaceIs ==
    ASSUME NEW e
    PROVE  /\ Place(e, 0) = 1
           /\ \A n \in Nat : Place(e, n) \in Nat \ {0}
           /\ \A n \in Nat \ {0} : Place(e, n) = IF Reserved(e.attrs[n]) THEN Place(e, n - 1)
                                                                      ELSE Place(e, n - 1) + 1
           /\ \A n \in Nat \ {0} : Exported(e, n) = IF Reserved(e.attrs[n]) THEN Exported(e, n - 1)
                                                       ELSE Exported(e, n - 1) \cup {n}
<1>1. ASSUME NEW n \in Nat PROVE IsFiniteSet(Exported(e, n)) /\ Cardinality(Exported(e, n)) \in Nat
  <2>1. IsFiniteSet(1..n)
    BY FS_Interval
  <2>2. Exported(e, n) \in SUBSET (1..n)
    BY DEF Exported
  <2> QED
    BY <2>1, <2>2, FS_Subset, FS_CardinalityType
<1>2. Exported(e, 0) = {}
  BY DEF Exported
<1>3. ASSUME NEW n \in Nat \ {0}
      PROVE  /\ Exported(e, n) = IF Reserved(e.attrs[n]) THEN Exported(e, n - 1)
                                                         ELSE Exported(e, n - 1) \cup {n}
             /\ Place(e, n) = IF Reserved(e.attrs[n]) THEN Place(e, n - 1) ELSE Place(e, n - 1) + 1
  <2>1. /\ n - 1 \in Nat /\ n \in 1..n /\ n \notin 1..(n - 1)
        /\ \A i : i \in 1..n <=> i = n \/ i \in 1..(n - 1)
    OBVIOUS
  <2>2. Exported(e, n) = IF Reserved(e.attrs[n]) THEN Exported(e, n - 1)
                                                 ELSE Exported(e, n - 1) \cup {n}
    BY <2>1 DEF Exported, Reserved
  <2>3. n \notin Exported(e, n - 1)
    BY <2>1 DEF Exported
  <2>4. /\ IsFiniteSet(Exported(e, n - 1)) /\ Cardinality(Exported(e, n - 1)) \in Nat
        /\ Cardinality(Exported(e, n - 1) \cup {n}) = Cardinality(Exported(e, n - 1)) + 1
    BY <1>1, <2>1, <2>3, FS_AddElement
  <2> QED
    BY <2>2, <2>4 DEF Place
<1>4. Place(e, 0) = 1
  BY <1>2, FS_EmptySet DEF Place
<1>5. \A n \in Nat : Place(e, n) \in Nat \ {0}
  BY <1>1 DEF Place
<1> QED
  BY <1>3, <1>4, <1>5

LEMMA AddedShows ==
    ASSUME NEW e, e.attrs \in Seq(Attr), NEW n \in 1..Len(e.attrs), NEW q, Showing(e, n - 1, q)
    PROVE  Showing(e, n, Added(e, n, q))
<1>1. /\ \A i \in 1..n : i = n \/ i \in 1..(n - 1)
      /\ n \in Nat \ {0} /\ 1..(n - 1) \subseteq 1..n
  OBVIOUS
<1>2. CASE Reserved(e.attrs[n])
  <2>1. Place(e, n) = Place(e, n - 1) /\ Exported(e, n) = Exported(e, n - 1)
    BY <1>1, <1>2, PlaceIs
  <2>2. Added(e, n, q) = q
    BY <1>2 DEF Added
  <2> QED
    BY <1>1, <2>1, <2>2 DEF Showing
<1>3. CASE ~Reserved(e.attrs[n])
  <2>1. PICK a : a = e.attrs[n] /\ a \in Attr /\ ~Reserved(a)
    BY <1>3
  <2>2. PICK x : x = otelAttr(a) /\ Shows(x, a)
    BY <2>1, otelAttrShows
  <2>3. PICK S : q \in Seq(S)
    BY DEF Showing
  <2>4. PICK p : p = Append(q, x)
    OBVIOUS
  <2>5. /\ p \in Seq(S \cup {x}) /\ Len(p) = Len(q) + 1 /\ Len(q) \in Nat
        /\ \A j \in 1..Len(q) : p[j] = q[j]
        /\ p[Len(q) + 1] = x
    <3>1. q \in Seq(S \cup {x}) /\ x \in S \cup {x}
      BY <2>3
    <3> QED
      BY <2>4, <3>1, AppendProperties
  <2>6. Added(e, n, q) = p
    BY <2>1, <2>2, <2>4 DEF Added
  <2>7. Len(p) >= 1 /\ p[1] = First(e)
    BY <2>5 DEF Showing
  <2>8. ASSUME NEW j \in 2..Len(p)
        PROVE  \E i \in 1..n : ~Reserved(e.attrs[i]) /\ Shows(p[j], e.attrs[i])
    <3>1. CASE j = Len(q) + 1
      BY <2>1, <2>2, <2>5, <3>1
    <3>2. CASE j \in 2..Len(q)
      <4>1. \E i \in 1..(n - 1) : ~Reserved(e.attrs[i]) /\ Shows(q[j], e.attrs[i])
        BY <3>2 DEF Showing
      <4> QED
        BY <2>5, <3>2, <4>1
    <3> QED
      BY <2>5, <3>1, <3>2
  <2>9. Place(e, n) = Len(p)
    BY <1>1, <1>3, <2>5, PlaceIs DEF Showing
  <2>10. ASSUME NEW i \in Exported(e, n)
         PROVE  Place(e, i) \in 2..Len(p) /\ Shows(p[Place(e, i)], e.attrs[i])
    <3>1. CASE i = n
      <4>1. Place(e, n) = Len(q) + 1 /\ Len(q) + 1 \in 2..Len(p)
        BY <2>5, <2>9 DEF Showing
      <4> QED
        BY <2>1, <2>2, <2>5, <3>1, <4>1
    <3>2. CASE i \in Exported(e, n - 1)
      <4>1. PICK j \in 2..Len(q) : j = Place(e, i) /\ Shows(q[j], e.attrs[i])
        BY <3>2 DEF Showing
      <4> QED
        BY <2>5, <4>1
    <3>3. Exported(e, n) = Exported(e, n - 1) \cup {n}
      BY <1>1, <1>3, PlaceIs
    <3> QED
      BY <3>1, <3>2, <3>3
  <2> QED
    BY <2>5, <2>6, <2>7, <2>8, <2>9, <2>10 DEF Showing
<1> QED
  BY <1>2, <1>3

LEMMA AttributesShow ==
    ASSUME NEW e, e.attrs \in Seq(Attr)
    PROVE  Showing(e, Len(e.attrs), Attributes(e))
<1> DEFINE N == Len(e.attrs)
<1>1. N \in Nat
  OBVIOUS
<1>2. PICK f : /\ \A n \in 0..N : f[n] = Stage(e, n, f[n - 1])
               /\ Attributes(e) = f[N]
  BY <1>1, AttributesBuilt
<1> DEFINE T == {n \in 0..N : ~Showing(e, n, f[n])}
<1>3. T = {}
  <2> SUFFICES ASSUME T # {} PROVE FALSE
    OBVIOUS
  <2>1. T \subseteq Nat
    OBVIOUS
  <2> HIDE DEF T
  <2>2. PICK m \in T : \A y \in T : m <= y
    BY <2>1, LeastNat
  <2> USE DEF T
  <2>3. CASE m = 0
    <3>1. PICK q : q = <<First(e)>>
      OBVIOUS
    <3>2. q \in Seq({First(e)}) /\ Len(q) = 1 /\ q[1] = First(e)
      BY <3>1
    <3>3. Showing(e, 0, q)
      <4>1. Place(e, 0) = 1 /\ Exported(e, 0) = {}
        BY PlaceIs DEF Exported
      <4> QED
        BY <3>2, <4>1 DEF Showing
    <3>4. f[0] = q
      BY <1>1, <1>2, <3>1 DEF Stage
    <3> QED
      BY <2>2, <2>3, <3>3, <3>4
  <2>4. CASE m # 0
    <3>1. m \in 1..N /\ m - 1 \in 0..N /\ m - 1 \notin T
      BY <1>1, <2>2, <2>4
    <3>2. Showing(e, m - 1, f[m - 1])
      BY <3>1
    <3>3. f[m] = Added(e, m, f[m - 1])
      BY <1>2, <2>2, <2>4 DEF Stage
    <3> QED
      BY <2>2, <3>1, <3>2, <3>3, AddedShows
  <2> QED
    BY <2>3, <2>4
<1> QED
  BY <1>1, <1>2, <1>3

\* What an event shows, to its last attribute.
LEMMA EventShows ==
    ASSUME NEW e, e.attrs \in Seq(Attr)
    PROVE  LET shown == Event(e).attributes
           IN  /\ Limit > 0 => shown[1] = First(e)
               /\ \A j \in 2..Len(shown) :
                     \/ \E k \in 1..2 : shown[j] = Exception[k]
                     \/ \E i \in DOMAIN e.attrs : /\ e.attrs[i].key # CodeKey
                                                  /\ Shows(shown[j], e.attrs[i])
               /\ LET all == Place(e, Len(e.attrs)) + 2
                  IN  Len(shown) = IF all < Limit THEN all ELSE Limit
               /\ \A i \in Exported(e, Len(e.attrs)) :
                     Place(e, i) <= Len(shown) => Shows(shown[Place(e, i)], e.attrs[i])
<1>1. PICK q : q = Attributes(e) /\ Showing(e, Len(e.attrs), q)
  BY AttributesShow
<1>2. /\ \E S : q \in Seq(S)
      /\ Len(q) >= 1 /\ q[1] = First(e)
      /\ DOMAIN e.attrs = 1..Len(e.attrs)
      /\ \A j \in 2..Len(q) : \E i \in DOMAIN e.attrs : e.attrs[i].key # CodeKey /\ Shows(q[j], e.attrs[i])
      /\ Len(q) = Place(e, Len(e.attrs))
      /\ \A i \in Exported(e, Len(e.attrs)) : Place(e, i) \in 2..Len(q) /\ Shows(q[Place(e, i)], e.attrs[i])
  <2>1. DOMAIN e.attrs = 1..Len(e.attrs)
    OBVIOUS
  <2>2. \A i : ~Reserved(e.attrs[i]) <=> e.attrs[i].key # CodeKey
    BY DEF Reserved
  <2> QED
    BY <1>1, <2>1, <2>2 DEF Showing
<1>3. PICK S : q \in Seq(S)
  BY <1>2
<1> DEFINE A == S \cup {Exception[k] : k \in 1..2}
           r == q \o Exception
           n == IF Len(r) < Limit THEN Len(r) ELSE Limit
           shown == SubSeq(r, 1, n)
<1>4. q \in Seq(A) /\ Exception \in Seq(A) /\ Len(Exception) = 2 /\ Len(q) \in Nat
  BY <1>3 DEF Exception
<1>5. /\ r \in Seq(A) /\ Len(r) = Len(q) + 2
      /\ \A i \in 1..Len(q) + 2 : r[i] = IF i <= Len(q) THEN q[i] ELSE Exception[i - Len(q)]
  <2> HIDE DEF A
  <2>1. PICK x : x = Exception /\ x \in Seq(A) /\ Len(x) = 2
    BY <1>4
  <2>2. /\ q \o x \in Seq(A) /\ Len(q \o x) = Len(q) + Len(x)
        /\ \A i \in 1..Len(q) + Len(x) : (q \o x)[i] = IF i <= Len(q) THEN q[i] ELSE x[i - Len(q)]
    BY <1>4, <2>1, ConcatProperties, Zenon
  <2> QED
    BY <2>1, <2>2
<1> HIDE DEF r
<1>6. n \in Nat /\ n <= Len(r) /\ n <= Limit /\ (n < Limit => n = Len(r)) /\ (Limit > 0 => n >= 1)
  BY <1>4, <1>5, SpansAssumption
<1> HIDE DEF n
<1>7. Len(shown) = n /\ \A i \in 1..n : shown[i] = r[i]
  <2>1. \A i \in 1..n : r[i] \in A
    <3> HIDE DEF A
    <3> QED
      BY <1>5, <1>6
  <2> HIDE DEF A
  <2>2. 1 \in Int /\ n \in Int
    BY <1>6
  <2> QED
    BY <1>6, <2>1, <2>2, SubSeqProperties
<1>8. Event(e).attributes = shown
  BY <1>1 DEF Event, Kept, n, r
<1> HIDE DEF shown, A
<1>9. Limit > 0 => shown[1] = First(e)
  BY <1>2, <1>4, <1>5, <1>6, <1>7
<1>10. ASSUME NEW j \in 2..Len(shown)
       PROVE  \/ \E k \in 1..2 : shown[j] = Exception[k]
              \/ \E i \in DOMAIN e.attrs : e.attrs[i].key # CodeKey /\ Shows(shown[j], e.attrs[i])
  <2>1. j \in 1..n /\ j \in 1..Len(q) + 2 /\ j >= 2 /\ shown[j] = r[j]
    BY <1>4, <1>5, <1>6, <1>7
  <2>2. CASE j <= Len(q)
    <3>1. j \in 2..Len(q) /\ shown[j] = q[j]
      BY <1>4, <1>5, <2>1, <2>2
    <3> QED
      BY <1>2, <3>1
  <2>3. CASE ~ (j <= Len(q))
    <3>1. j - Len(q) \in 1..2 /\ shown[j] = Exception[j - Len(q)]
      BY <1>4, <1>5, <2>1, <2>3
    <3> QED
      BY <3>1
  <2> QED
    BY <2>2, <2>3
<1>11. ASSUME NEW i \in Exported(e, Len(e.attrs)), Place(e, i) <= Len(shown)
       PROVE  Shows(shown[Place(e, i)], e.attrs[i])
  <2>1. PICK j \in 2..Len(q) : j = Place(e, i) /\ Shows(q[j], e.attrs[i])
    BY <1>2
  <2>2. j \in 1..n /\ j \in 1..Len(q) + 2 /\ j <= Len(q)
    BY <1>4, <1>6, <1>7, <1>11, <2>1
  <2>3. shown[j] = q[j]
    BY <1>5, <1>7, <2>2
  <2> QED
    BY <2>1, <2>3
<1>12. Len(shown) = IF Place(e, Len(e.attrs)) + 2 < Limit THEN Place(e, Len(e.attrs)) + 2 ELSE Limit
  BY <1>2, <1>5, <1>7 DEF n
<1> QED
  BY <1>8, <1>9, <1>10, <1>11, <1>12

\* An error keeps the shape of its attrs when TraceAttrs adds to them.
LEMMA RecordedAttrs ==
    ASSUME NEW e \in Recorded
    PROVE  e.attrs \in Seq(Attr)
<1>1. ASSUME NEW f \in Errors PROVE f.attrs \in Seq(Attr)
  <2> DEFINE A == [key: STRING, value: Value]
  <2>1. f.attrs \in Seq(A)
    BY SpansAssumption
  <2>2. A \subseteq Attr
    BY DEF Attr, Key
  <2> HIDE DEF A
  <2> QED
    BY <2>1, <2>2
<1>2. CASE e \in Errors
  BY <1>1, <1>2
<1>3. ASSUME NEW f \in Errors, NEW s \in Span \cup {NoSpan}, e = Tagged(f, s)
      PROVE  e.attrs \in Seq(Attr)
  <2>1. CASE f = Nil \/ f.typedNil
    BY <1>1, <1>3, <2>1 DEF Tagged
  <2>2. CASE ~ (f = Nil \/ f.typedNil)
    <3>1. e.attrs = f.attrs \o TraceAttrs(s)
      <4>1. e = [f EXCEPT !.attrs = f.attrs \o TraceAttrs(s)]
        BY <1>3, <2>2 DEF Tagged
      <4> DEFINE added == f.attrs \o TraceAttrs(s)
      <4> HIDE DEF added
      <4> QED
        BY <4>1, SpansAssumption DEF added
    <3>2. TraceAttrs(s) \in Seq(Attr)
      <4>1. CASE s = NoSpan
        BY <4>1 DEF TraceAttrs
      <4>2. CASE s # NoSpan
        <5> DEFINE a == [key |-> "trace_id", value |-> [kind |-> "String", x |-> 0, valuer |-> FALSE]]
                   b == [key |-> "span_id", value |-> [kind |-> "String", x |-> s, valuer |-> FALSE]]
        <5>1. s \in Int /\ 0 \in Int /\ "String" \in Kind /\ FALSE \in BOOLEAN
          BY <4>2, SpansAssumption DEF Kind
        <5>2. \A x \in Int : [kind |-> "String", x |-> x, valuer |-> FALSE] \in Value
          BY <5>1 DEF Value
        <5>3. a \in Attr /\ b \in Attr
          <6>1. \A k \in Key, v \in Value : [key |-> k, value |-> v] \in Attr
            BY DEF Attr
          <6>2. "trace_id" \in Key /\ "span_id" \in Key
            BY DEF Key
          <6> QED
            BY <5>1, <5>2, <6>1, <6>2, Zenon
        <5>4. TraceAttrs(s) = <<a, b>>
          BY <4>2 DEF TraceAttrs
        <5> HIDE DEF a, b
        <5> QED
          BY <5>3, <5>4
      <4> QED
        BY <4>1, <4>2
    <3> QED
      BY <1>1, <3>1, <3>2
  <2> QED
    BY <2>1, <2>2
<1> QED
  BY <1>2, <1>3 DEF Recorded

\* Every event is what RecordSpan made of its error.
Attached == \A s \in Span : \A i \in DOMAIN events[s] : events[s][i] = Event(events[s][i].err)

LEMMA AttachedStep == TypeInv /\ Attached /\ [Next]_vars => TypeInv' /\ Attached'
<1> SUFFICES ASSUME TypeInv, Attached, [Next]_vars PROVE TypeInv' /\ Attached'
  OBVIOUS
<1>1. ASSUME UNCHANGED events PROVE Attached'
  BY <1>1 DEF Attached
<1>2. ASSUME NEW g \in Goroutines, NEW s \in Span \cup {NoSpan}, NEW e \in Errors \cup {Nil},
             NEW t \in {NoSpan, s}, RecordSpan(g, s, Tagged(e, t))
      PROVE  TypeInv' /\ Attached'
  <2>1. Tagged(e, t) \in Recorded \cup {Nil}
    BY TaggedType
  <2> QED
    BY <1>1, <1>2, <2>1, RecordSpanType DEF RecordSpan
<1>3. ASSUME NEW g \in Goroutines, RecordError(g) PROVE TypeInv' /\ Attached'
  <2> DEFINE v == Event(call[g].err)
  <2>1. v.err = call[g].err
    BY DEF Event
  <2>2. \A t \in Span : \A i \in DOMAIN events'[t] :
           events'[t][i] = v \/ (i \in DOMAIN events[t] /\ events'[t][i] = events[t][i])
    BY <1>3, EventAdded
  <2> HIDE DEF v
  <2>3. ASSUME NEW t \in Span, NEW i \in DOMAIN events'[t]
        PROVE  events'[t][i] = Event(events'[t][i].err)
    <3>1. CASE events'[t][i] = v
      BY <2>1, <3>1 DEF v
    <3>2. CASE i \in DOMAIN events[t] /\ events'[t][i] = events[t][i]
      BY <3>2 DEF Attached
    <3> QED
      BY <2>2, <3>1, <3>2
  <2>4. Attached'
    BY <2>3 DEF Attached, Event, Kept, Attributes, Exception
  <2> QED
    BY <1>3, <2>4, RecordErrorType
<1>4. ASSUME NEW g \in Goroutines, SetStatus(g) PROVE TypeInv' /\ Attached'
  BY <1>1, <1>4, SetStatusType DEF SetStatus
<1>5. ASSUME NEW s \in Span, SetOk(s) \/ End(s) PROVE TypeInv' /\ Attached'
  BY <1>1, <1>5, OwnerType DEF SetOk, End
<1>6. CASE UNCHANGED vars
  BY <1>1, <1>6 DEF vars, TypeInv
<1> QED
  BY <1>2, <1>3, <1>4, <1>5, <1>6 DEF Next

LEMMA AttachedInvariant == Spec => [](TypeInv /\ Attached)
<1>1. Init => TypeInv /\ Attached
  <2> SUFFICES ASSUME Init PROVE TypeInv /\ Attached
    OBVIOUS
  <2>1. \A s \in Span : DOMAIN events[s] = {}
    <3>1. DOMAIN <<>> = {}
      OBVIOUS
    <3>2. events = [s \in Span |-> <<>>]
      BY DEF Init
    <3> QED
      BY <3>1, <3>2
  <2> QED
    BY <2>1, InitIInv DEF IInv, Attached
<1> QED
  BY <1>1, AttachedStep, PTL DEF Spec

\* What the proofs use of an event.
LEMMA EventOf ==
    ASSUME TypeInv, Attached, NEW s \in Span, NEW i \in DOMAIN events[s]
    PROVE  LET v == events[s][i]
           IN  /\ v = Event(v.err) /\ v.err.attrs \in Seq(Attr)
BY RecordedAttrs DEF TypeInv, Attached

\* Every event has the name of the error's code, once, under the key that
\* alerts go by, whatever attrs the error carries (RecordSpan's loop).
THEOREM CodeOnEventsCorrect == Spec => []CodeOnEvents
<1>1. TypeInv /\ Attached => CodeOnEvents
  <2> SUFFICES ASSUME TypeInv, Attached, Limit > 0, NEW s \in Span, NEW i \in DOMAIN events[s]
               PROVE  LET v == events[s][i]
                      IN  /\ v.attributes[1].key = CodeKey
                          /\ v.attributes[1].x = Info[v.err.code].name
                          /\ \A j \in 2..Len(v.attributes) : v.attributes[j].key # CodeKey
    BY DEF CodeOnEvents
  <2>1. PICK e, shown : /\ events[s][i].err = e /\ events[s][i].attributes = shown
                        /\ Event(e).attributes = shown /\ e.attrs \in Seq(Attr)
    BY EventOf
  <2>2. shown[1] = First(e)
    BY <2>1, EventShows
  <2>3. \A j \in 2..Len(shown) :
           \/ \E k \in 1..2 : shown[j] = Exception[k]
           \/ \E k \in DOMAIN e.attrs : e.attrs[k].key # CodeKey /\ Shows(shown[j], e.attrs[k])
    BY <2>1, EventShows
  <2>4. \A k \in 1..2 : Exception[k].key # CodeKey
    BY DEF Exception, Attribute, CodeKey
  <2>5. \A j \in 2..Len(shown) : shown[j].key # CodeKey
    BY <2>3, <2>4 DEF Shows
  <2>6. First(e).key = CodeKey /\ First(e).x = Info[e.code].name
    BY DEF First, Attribute
  <2> QED
    BY <2>1, <2>2, <2>5, <2>6
<1> QED
  BY <1>1, AttachedInvariant, PTL

\* Behind the code an event shows the error's other attrs in their order, each
\* as often as the error has it and with the value that the log shows, as far
\* as the SDK's limit lets it, and nothing but the exception's own attributes
\* after them (otelAttr, and the loop).
THEOREM AttrsAsLoggedCorrect == Spec => []AttrsAsLogged
<1>1. TypeInv /\ Attached => AttrsAsLogged
  <2> SUFFICES ASSUME TypeInv, Attached, NEW s \in Span, NEW i \in DOMAIN events[s]
               PROVE  LET e == events[s][i].err
                          shown == events[s][i].attributes
                          all == Place(e, Len(e.attrs)) + 2
                      IN  /\ Len(shown) = IF all < Limit THEN all ELSE Limit
                          /\ \A j \in Exported(e, Len(e.attrs)) :
                                Place(e, j) <= Len(shown) => Shows(shown[Place(e, j)], e.attrs[j])
    BY DEF AttrsAsLogged
  <2>1. PICK e, q : /\ events[s][i].err = e /\ events[s][i].attributes = q
                    /\ Event(e).attributes = q /\ e.attrs \in Seq(Attr)
    BY EventOf
  <2> QED
    BY <2>1, EventShows
<1> QED
  BY <1>1, AttachedInvariant, PTL

=============================================================================
