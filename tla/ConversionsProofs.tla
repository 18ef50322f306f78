-------------------------- MODULE ConversionsProofs --------------------------
(***************************************************************************)
(* What no conversion ever makes, for every set of codes, errors, statuses *)
(* and goroutines and however the registry grows meanwhile.                *)
(*                                                                         *)
(* A conversion depends on the registry through facts that, once true of   *)
(* the table, stay true: an entry never changes.  Fits(t, v) states them   *)
(* of a table t and a conversion v; FitsGrows is the whole of what there   *)
(* is to say about interference.                                           *)
(*                                                                         *)
(* Mixes(t, v) states in the same way where a conversion is cut between    *)
(* the entry it began with and the one that has been registered since.     *)
(***************************************************************************)
EXTENDS Conversions, WellFoundedInduction, TLAPS

Kinds == [msg |-> {"ToStatus"}, grpc |-> {"ToStatus"}, name |-> {"ToStatus"},
          byName |-> {"ToStatus"}, reason |-> {"ToStatus"}, delay |-> {"ToStatus"},
          http |-> {"From", "PublicMessage"}, title |-> {"From", "PublicMessage"},
          code |-> {"From", "RecordSpan"}, fault |-> {"RecordSpan"},
          detail |-> {"FromStatus"}, wire |-> {"FromStatus"}]

\* A table made by Register: only the code 0 has the gRPC code 0.
Sound(t) ==
    /\ t \in CodeMap
    /\ \A c \in Code : t[c] # Absent => t[c].grpcCode \in 0..16 /\ (c # 0 => t[c].grpcCode # 0)
    /\ \A c \in Code : Builtins[c] # Absent => t[c] = Builtins[c]

Grows(t, u) == \A c \in Code : t[c] # Absent => u[c] = t[c]

Shape(v) ==
    /\ v = [pc |-> v.pc, kind |-> v.kind, input |-> v.input, born |-> v.born, i |-> v.i,
            out |-> v.out]
    /\ v.out = [m \in Member |-> v.out[m]]

\* A trusted detail of status s names the registered code c.
Names(t, s, c) ==
    /\ c \in Code /\ t[c] # Absent
    /\ \E i \in 1..Len(s.infos) : /\ s.infos[i].reason = t[c].name
                                  /\ Trusted = {} \/ s.infos[i].domain \in Trusted

FitsStatus(t, v) ==
    /\ v.pc \in {"name", "byName", "reason", "delay", "done"} => v.out["grpc"] \in 1..16
    /\ v.pc = "byName" /\ v.out["name"] # Absent => t[v.input.code] # Absent
    /\ v.pc = "reason" => t[v.input.code] # Absent
    /\ v.out["reason"] # Unset =>
          t[v.input.code] # Absent /\ v.out["reason"] = t[v.input.code].name

FitsRecovery(t, v) ==
    /\ v.pc = "wire" => Names(t, v.input, v.out["candidate"])
    /\ v.pc = "done" =>
          \/ v.out["result"] = WireCode(v.input)
          \/ /\ Names(t, v.input, v.out["result"])
             /\ t[v.out["result"]].grpcCode = v.input.grpc

Fits(t, v) ==
    /\ Shape(v)
    /\ v.i \in Nat
    /\ v.pc \in {"idle", "done"} \cup DOMAIN Kinds
    /\ v.pc \in DOMAIN Kinds => v.kind \in Kinds[v.pc]
    /\ v.pc = "idle" => v = NoConversion
    /\ v.pc # "idle" => /\ v.kind = "FromStatus" => v.input \in Statuses
                        /\ v.kind # "FromStatus" => v.input \in Errors
    /\ v.kind = "ToStatus" => FitsStatus(t, v)
    /\ v.pc = "title" => v.out["http"] \in DOMAIN StatusText \/ t[v.input.code] # Absent
    /\ v.out["title"] # Absent
    /\ v.kind = "FromStatus" => FitsRecovery(t, v)

Pending == \A w \in Writers : op[w].state = "pending" => op[w].call \in Calls

IInv ==
    /\ Sound(table)
    /\ op = [w \in Writers |-> op[w]] /\ Pending
    /\ conv = [p \in Goroutines |-> conv[p]]
    /\ \A p \in Goroutines : Fits(table, conv[p])

----------------------------------------------------------------------------
(* The registry.                                                           *)

LEMMA SoundBuiltins == Sound(Builtins)
<1>1. \A c \in Code : Builtins[c] # Absent => Builtins[c].grpcCode = c /\ c \in 0..16
  BY CodesAssumption, ConversionsAssumption
<1> QED
  BY <1>1, BuiltinsAssumption DEF Sound

\* A non-empty set of naturals has a least element ...
LEMMA LeastNat ==
    ASSUME NEW T, T \subseteq Nat, T # {}
    PROVE  \E x \in T : \A y \in T : x <= y
<1> DEFINE R == OpToRel(<, Nat)
<1>1. IsWellFoundedOn(R, Nat)
  BY NatLessThanWellFounded
<1>2. \A x, y \in Nat : y < x => <<y, x>> \in R
  BY DEF OpToRel
<1> HIDE DEF R
<1>3. PICK x \in T : \A y \in T : ~ (<<y, x>> \in R)
  BY <1>1, WFMin
<1>4. \A y \in T : ~ (y < x)
  BY <1>2, <1>3
<1> QED
  BY <1>3, <1>4

\* ... so a non-empty set of positions has a last one.
LEMMA LastPosition ==
    ASSUME NEW n \in Nat, NEW S, S \subseteq 1..n, S # {}
    PROVE  \E x \in S : \A y \in S : y <= x
<1> DEFINE T == {n - i : i \in S}
<1>1. \A i \in S : n - i \in T /\ n - i \in Nat
  OBVIOUS
<1>2. T \subseteq Nat /\ T # {}
  BY <1>1
<1>3. PICK x \in T : \A y \in T : x <= y
  BY <1>2, LeastNat, Zenon
<1>4. PICK i \in S : x = n - i
  OBVIOUS
<1>5. \A j \in S : n - i <= n - j
  BY <1>1, <1>3, <1>4
<1> QED
  BY <1>5

\* The delay that options which are not refused leave behind.
LEMMA LastDelayType ==
    ASSUME NEW k \in RegisterCall, \A i \in 1..Len(k.opts) : ~Reg!BadOption(k.opts[i])
    PROVE  Reg!LastDelay(k, Len(k.opts)) \in Nat
<1> DEFINE n == Len(k.opts)
           S == Reg!RetryAfters(k, n)
           last == CHOOSE i \in S : \A j \in S : j <= i
<1>1. n \in Nat /\ S \subseteq 1..n
  BY DEF RegisterCall, Reg!RetryAfters
<1>2. CASE S = {}
  BY <1>2 DEF Reg!LastDelay
<1>3. CASE S # {}
  <2>1. \E i \in S : \A j \in S : j <= i
    BY <1>1, <1>3, LastPosition
  <2>2. last \in S
    BY <2>1
  <2>3. last \in 1..n /\ k.opts[last].kind = "RetryAfter"
    BY <2>2 DEF Reg!RetryAfters
  <2>4. k.opts[last] \in Option
    BY <2>3 DEF RegisterCall
  <2>5. ~Reg!BadOption(k.opts[last])
    BY <2>3
  <2> HIDE DEF last
  <2>6. k.opts[last].d \in Nat
    BY <2>3, <2>4, <2>5 DEF Reg!BadOption, Option
  <2> QED
    BY <1>3, <2>6 DEF Reg!LastDelay, last
<1> QED
  BY <1>2, <1>3

\* The entry of a call whose arguments are accepted.
LEMMA EntrySound ==
    ASSUME NEW t, NEW k \in RegisterCall, Reg!Outcome(k, t) = "ok"
    PROVE  /\ Reg!Entry(k) \in CodeInfo /\ Reg!Entry(k).grpcCode \in 1..16
           /\ t[k.code] = Absent /\ k.code \in Code
<1>1. Reg!ArgVerdict(k) = "ok"
  BY DEF Reg!Outcome
<1>2. t[k.code] = Absent /\ \A i \in 1..Len(k.opts) : ~Reg!BadOption(k.opts[i])
  BY <1>1 DEF Reg!Outcome
<1>3. k.grpcCode \in 1..16
  BY <1>1 DEF Reg!ArgVerdict, Reg!BadCode, Reg!BadName, Reg!BadHTTP, Reg!BadGRPC, RegisterCall
<1>4. Reg!LastDelay(k, Len(k.opts)) \in Nat
  BY <1>2, LastDelayType
<1>5. (Len(k.opts) > 0) \in BOOLEAN
  OBVIOUS
<1> QED
  BY <1>2, <1>3, <1>4, <1>5 DEF Reg!Entry, Reg!EntryAfter, CodeInfo, RegisterCall

\* A step of the registry keeps its table sound, and entries as they are.
LEMMA RegistryStep ==
    ASSUME IInv, Reg!Next
    PROVE  /\ Sound(table') /\ Grows(table, table')
           /\ op' = [w \in Writers |-> op'[w]] /\ Pending'
<1> USE DEF IInv
<1>1. CASE \E w \in Writers, k \in Calls : Reg!Invoke(w, k)
  BY <1>1 DEF Reg!Invoke, Grows, Pending
<1>2. CASE \E w \in Writers : Reg!Respond(w)
  BY <1>2 DEF Reg!Respond, Reg!Idle, Grows, Pending
<1>3. CASE \E w \in Writers : Reg!TakeEffect(w)
  <2>1. PICK w \in Writers : Reg!TakeEffect(w)
    BY <1>3
  <2> DEFINE k == op[w].call
  <2>2. k \in RegisterCall
    BY <2>1, ConversionsAssumption DEF Reg!TakeEffect, Pending
  <2>3. op' = [v \in Writers |-> op'[v]] /\ Pending'
    BY <2>1 DEF Reg!TakeEffect, Pending
  <2>4. CASE Reg!Outcome(k, table) = "ok"
    <3>1. table' = [table EXCEPT ![k.code] = Reg!Entry(k)]
      BY <2>1, <2>4 DEF Reg!TakeEffect
    <3>2. /\ Reg!Entry(k) \in CodeInfo /\ Reg!Entry(k).grpcCode \in 1..16
          /\ table[k.code] = Absent /\ k.code \in Code
      BY <2>2, <2>4, EntrySound
    <3> HIDE DEF k
    <3>3. \A c \in Code : table'[c] = IF c = k.code THEN Reg!Entry(k) ELSE table[c]
      BY <3>1 DEF Sound, CodeMap
    <3>4. table' \in CodeMap
      BY <3>1, <3>2 DEF Sound, CodeMap
    <3> QED
      BY <2>3, <3>2, <3>3, <3>4 DEF Sound, Grows
  <2>5. CASE Reg!Outcome(k, table) # "ok"
    BY <2>1, <2>3, <2>5 DEF Reg!TakeEffect, Grows
  <2> QED
    BY <2>4, <2>5
<1> QED
  BY <1>1, <1>2, <1>3 DEF Reg!Next

\* What a conversion relies on stays true while the registry grows.
LEMMA FitsGrows ==
    ASSUME NEW t, NEW u, Grows(t, u), NEW v, Fits(t, v)
    PROVE  Fits(u, v)
<1>1. v.pc # "idle" /\ v.kind # "FromStatus" => v.input.code \in Code
  BY ConversionsAssumption DEF Fits, Err
<1>2. v.kind = "ToStatus" => FitsStatus(u, v)
  BY <1>1 DEF Fits, FitsStatus, Grows, NoConversion
<1>3. v.pc = "title" => v.out["http"] \in DOMAIN StatusText \/ u[v.input.code] # Absent
  BY <1>1 DEF Fits, Grows, Kinds
<1>4. \A s, c : Names(t, s, c) => Names(u, s, c) /\ u[c] = t[c]
  BY DEF Names, Grows
<1>5. v.kind = "FromStatus" => FitsRecovery(u, v)
  BY <1>4 DEF Fits, FitsRecovery
<1> QED
  BY <1>2, <1>3, <1>5 DEF Fits

----------------------------------------------------------------------------
(* The conversions.  Turned is what every lookup comes to: goroutine p     *)
(* goes on at "to", everyone else stays where it was.                      *)

Turned(p, to) ==
    /\ UNCHANGED regVars
    /\ conv' = [q \in Goroutines |-> conv'[q]]
    /\ \A q \in Goroutines \ {p} : conv'[q] = conv[q]
    /\ Shape(conv'[p])
    /\ conv'[p].pc = to
    /\ conv'[p].kind = conv[p].kind
    /\ conv'[p].input = conv[p].input
    /\ conv'[p].born = conv[p].born

LEMMA ReadStep ==
    ASSUME IInv, NEW p \in Goroutines, NEW from, NEW m \in Member, NEW x, NEW to,
           Read(p, from, m, x, to)
    PROVE  /\ conv[p].pc = from
           /\ Turned(p, to)
           /\ conv'[p].i = conv[p].i
           /\ conv'[p].out[m] = x
           /\ \A n \in Member \ {m} : conv'[p].out[n] = conv[p].out[n]
<1>1. Shape(conv[p]) /\ conv = [q \in Goroutines |-> conv[q]]
  BY DEF IInv, Fits
<1>2. /\ UNCHANGED regVars /\ conv[p].pc = from
      /\ conv' = [conv EXCEPT ![p].out[m] = x, ![p].pc = to]
  BY DEF Read
<1> DEFINE o == [conv[p].out EXCEPT ![m] = x]
           v == [pc |-> to, kind |-> conv[p].kind, input |-> conv[p].input,
                 born |-> conv[p].born, i |-> conv[p].i, out |-> o]
<1>3. conv'[p] = v
  BY <1>1, <1>2 DEF Shape
<1>4. o = [n \in Member |-> IF n = m THEN x ELSE conv[p].out[n]]
  BY <1>1 DEF Shape
<1>5. /\ conv' = [q \in Goroutines |-> conv'[q]]
      /\ \A q \in Goroutines \ {p} : conv'[q] = conv[q]
  BY <1>1, <1>2
<1> HIDE DEF o
<1>6. Shape(v)
  BY <1>4 DEF Shape
<1>7. /\ conv'[p].pc = to /\ conv'[p].kind = conv[p].kind /\ conv'[p].input = conv[p].input
      /\ conv'[p].born = conv[p].born
      /\ conv'[p].i = conv[p].i /\ conv'[p].out = o
  BY <1>3
<1>8. Turned(p, to)
  <2>1. Shape(conv'[p])
    BY <1>3, <1>6
  <2> HIDE DEF v
  <2> QED
    BY <1>2, <1>5, <1>7, <2>1, Zenon DEF Turned
<1>9. o[m] = x /\ \A n \in Member \ {m} : o[n] = conv[p].out[n]
  BY <1>4
<1> QED
  BY <1>2, <1>7, <1>8, <1>9

LEMMA GotoStep ==
    ASSUME IInv, NEW p \in Goroutines, NEW from, NEW to, Goto(p, from, to)
    PROVE  conv[p].pc = from /\ Turned(p, to)
           /\ conv'[p].i = conv[p].i /\ conv'[p].out = conv[p].out
<1>1. Shape(conv[p]) /\ conv = [q \in Goroutines |-> conv[q]]
  BY DEF IInv, Fits
<1>2. /\ UNCHANGED regVars /\ conv[p].pc = from
      /\ conv' = [conv EXCEPT ![p].pc = to]
  BY DEF Goto
<1> QED
  BY <1>1, <1>2 DEF Turned, Shape

\* A step of one goroutine leaves the others what they rely on.
LEMMA TurnKeeps ==
    ASSUME IInv, NEW p \in Goroutines, UNCHANGED regVars,
           conv' = [q \in Goroutines |-> conv'[q]],
           \A q \in Goroutines \ {p} : conv'[q] = conv[q],
           Fits(table, conv'[p])
    PROVE  IInv'
<1>1. table' = table /\ op' = op
  BY DEF regVars
<1>2. \A q \in Goroutines : Fits(table', conv'[q])
  BY <1>1 DEF IInv
<1> QED
  BY <1>1, <1>2 DEF IInv, Pending

\* The lookups of ToStatus.
Statusing == {"msg", "grpc", "name", "byName", "reason", "delay"}

LEMMA StatusSteps ==
    ASSUME IInv, NEW p \in Goroutines,
           \/ StatusMessage(p) \/ StatusCode(p) \/ InfoName(p) \/ InfoByName(p)
           \/ InfoReason(p) \/ StatusDelay(p)
    PROVE  IInv'
<1> DEFINE v == conv[p]
           w == conv'[p]
           e == table[v.input.code]
<1>1. Fits(table, v) /\ Sound(table)
  BY DEF IInv
<1>2. v.kind = "ToStatus" => v.input \in Errors /\ v.input.code \in Code \ {0}
  <2>1. v.kind = "ToStatus" => v.pc # "idle"
    BY <1>1 DEF Fits, NoConversion
  <2> QED
    BY <1>1, <2>1, ConversionsAssumption DEF Fits, Err
<1> USE DEF Looked
<1>3. ASSUME NEW to, Turned(p, to), w.i = v.i, v.kind = "ToStatus",
             to \in {"done"} \cup DOMAIN Kinds, to \in DOMAIN Kinds => "ToStatus" \in Kinds[to],
             w.out["title"] = v.out["title"], FitsStatus(table, w)
      PROVE  IInv'
  <2>1. w.pc = to /\ w.kind = "ToStatus" /\ w.input = v.input /\ Shape(w)
    BY <1>3 DEF Turned
  <2>2. to # "idle" /\ to # "title"
    BY <1>3 DEF Kinds
  <2>3. v.pc # "idle" /\ w.out["title"] # Absent /\ w.i \in Nat
    BY <1>1, <1>3 DEF Fits, NoConversion
  <2>4. v.input \in Errors
    BY <1>2, <1>3
  <2>5. Fits(table, w)
    BY <1>3, <2>1, <2>2, <2>3, <2>4 DEF Fits
  <2> QED
    BY <1>3, <2>5, TurnKeeps DEF Turned
<1>4. ASSUME NEW from \in Statusing, NEW m \in Member \ {"title"}, NEW x, NEW to,
             Read(p, from, m, x, to)
      PROVE  /\ v.pc = from /\ v.kind = "ToStatus" /\ Turned(p, to) /\ w.i = v.i
             /\ w.pc = to /\ w.kind = "ToStatus" /\ w.input = v.input
             /\ w.out[m] = x /\ w.out["title"] = v.out["title"]
             /\ \A n \in Member \ {m} : w.out[n] = v.out[n]
             /\ FitsStatus(table, v)
  <2>1. /\ v.pc = from /\ Turned(p, to) /\ w.i = v.i /\ w.out[m] = x
        /\ \A n \in Member \ {m} : w.out[n] = v.out[n]
    <3>1. m \in Member
      OBVIOUS
    <3> QED
      BY <1>4, <3>1, ReadStep
  <2>2. v.kind = "ToStatus"
    BY <1>1, <1>4, <2>1 DEF Fits, Kinds, Statusing
  <2>3. "title" \in Member \ {m}
    BY <1>4 DEF Member
  <2> QED
    BY <1>1, <2>1, <2>2, <2>3 DEF Fits, Turned
<1>5. CASE StatusMessage(p)
  <2>1. PICK x : Read(p, "msg", "msg", x, "grpc")
    BY <1>5 DEF StatusMessage
  <2>2. "msg" \in Member \ {"title"} /\ "msg" \in Statusing /\ "reason" \in Member \ {"msg"}
    BY DEF Member, Statusing
  <2>3. FitsStatus(table, w)
    BY <1>4, <2>1, <2>2 DEF FitsStatus
  <2> QED
    BY <1>3, <1>4, <2>1, <2>2, <2>3 DEF Kinds
<1>6. CASE StatusCode(p)
  <2>1. PICK to \in {"delay", "name"} : Read(p, "grpc", "grpc", GRPCCodeOf(e), to)
    BY <1>6 DEF StatusCode
  <2>2. /\ "grpc" \in Member \ {"title"} /\ "grpc" \in Statusing
        /\ "reason" \in Member \ {"grpc"}
    BY DEF Member, Statusing
  <2>3. w.kind = "ToStatus" /\ v.kind = "ToStatus" /\ w.pc = to /\ w.input = v.input
        /\ w.out["grpc"] = GRPCCodeOf(e) /\ w.out["reason"] = v.out["reason"]
        /\ FitsStatus(table, v)
    BY <1>4, <2>1, <2>2
  <2>4. GRPCCodeOf(e) \in 1..16
    BY <1>1, <1>2, <2>3 DEF GRPCCodeOf, Sound
  <2>5. FitsStatus(table, w)
    BY <2>3, <2>4 DEF FitsStatus
  <2> QED
    BY <1>3, <1>4, <2>1, <2>2, <2>5 DEF Kinds
<1>7. CASE InfoName(p)
  <2>1. Read(p, "name", "name", StringOf(e), "byName")
    BY <1>7 DEF InfoName
  <2>2. /\ "name" \in Member \ {"title"} /\ "name" \in Statusing
        /\ "reason" \in Member \ {"name"} /\ "grpc" \in Member \ {"name"}
    BY DEF Member, Statusing
  <2>3. FitsStatus(table, w)
    BY <1>4, <2>1, <2>2 DEF FitsStatus, StringOf
  <2> QED
    BY <1>3, <1>4, <2>1, <2>2, <2>3 DEF Kinds
<1>8. CASE InfoByName(p)
  <2>1. PICK to \in {"reason", "delay"} :
            Goto(p, "byName", to) /\ (to = "reason" => v.out["name"] # Absent)
    BY <1>8, Zenon DEF InfoByName
  <2>2. v.pc = "byName" /\ Turned(p, to) /\ w.i = v.i /\ w.out = v.out
    BY <2>1, GotoStep
  <2>3. v.kind = "ToStatus"
    BY <1>1, <2>2 DEF Fits, Kinds
  <2>4. FitsStatus(table, v)
    BY <1>1, <2>3 DEF Fits
  <2>5. w.pc = to /\ w.input = v.input
    BY <2>2 DEF Turned
  <2>6. FitsStatus(table, w)
    BY <2>1, <2>2, <2>4, <2>5 DEF FitsStatus
  <2> QED
    BY <1>3, <2>1, <2>2, <2>3, <2>6 DEF Kinds
<1>9. CASE InfoReason(p)
  <2>1. Read(p, "reason", "reason", StringOf(e), "delay")
    BY <1>9 DEF InfoReason
  <2>2. /\ "reason" \in Member \ {"title"} /\ "reason" \in Statusing
        /\ "grpc" \in Member \ {"reason"}
    BY DEF Member, Statusing
  <2>3. FitsStatus(table, w)
    BY <1>4, <2>1, <2>2 DEF FitsStatus, StringOf
  <2> QED
    BY <1>3, <1>4, <2>1, <2>2, <2>3 DEF Kinds
<1>10. CASE StatusDelay(p)
  <2>1. PICK x : Read(p, "delay", "delay", x, "done")
    BY <1>10 DEF StatusDelay
  <2>2. /\ "delay" \in Member \ {"title"} /\ "delay" \in Statusing
        /\ "reason" \in Member \ {"delay"} /\ "grpc" \in Member \ {"delay"}
    BY DEF Member, Statusing
  <2>3. FitsStatus(table, w)
    BY <1>4, <2>1, <2>2 DEF FitsStatus
  <2> QED
    BY <1>3, <1>4, <2>1, <2>2, <2>3 DEF Kinds
<1> QED
  BY <1>5, <1>6, <1>7, <1>8, <1>9, <1>10

\* The lookups of problem.From, of PublicMessage and of RecordSpan.
Answering == {"From", "PublicMessage", "RecordSpan"}

LEMMA AnswerSteps ==
    ASSUME IInv, NEW p \in Goroutines,
           ReadHTTPStatus(p) \/ ReadTitle(p) \/ ReadCodeName(p) \/ ReadFault(p)
    PROVE  IInv'
<1> DEFINE v == conv[p]
           w == conv'[p]
           e == table[v.input.code]
<1>1. Fits(table, v) /\ Sound(table)
  BY DEF IInv
<1>2. v.kind \in Answering => v.input \in Errors /\ v.input.code \in Code \ {0}
  <2>1. v.kind \in Answering => v.pc # "idle"
    BY <1>1 DEF Fits, NoConversion, Answering
  <2> QED
    BY <1>1, <2>1, ConversionsAssumption DEF Fits, Err, Answering
<1> USE DEF Looked
<1>3. ASSUME NEW from \in {"http", "title", "code", "fault"}, NEW m \in Member, NEW x,
             NEW to \in {"title", "code", "fault", "done"}, Read(p, from, m, x, to),
             m = "title" => x # Absent,
             to \in DOMAIN Kinds => v.kind \in Kinds[to],
             to = "title" => w.out["http"] \in DOMAIN StatusText \/ e # Absent
      PROVE  IInv'
  <2>1. /\ v.pc = from /\ Turned(p, to) /\ w.i = v.i /\ w.out[m] = x
        /\ \A n \in Member \ {m} : w.out[n] = v.out[n]
    BY <1>3, ReadStep
  <2>2. v.kind \in Answering
    BY <1>1, <2>1 DEF Fits, Kinds, Answering
  <2>3. w.pc = to /\ w.kind = v.kind /\ w.input = v.input /\ Shape(w)
    BY <2>1 DEF Turned
  <2>4. "title" \in Member
    BY DEF Member
  <2>5. w.out["title"] # Absent /\ w.i \in Nat
    BY <1>1, <1>3, <2>1, <2>4 DEF Fits
  <2>6. w.kind # "ToStatus" /\ w.kind # "FromStatus" /\ w.input \in Errors
    BY <1>2, <2>2, <2>3 DEF Answering
  <2>7. w.pc # "idle" /\ w.pc \in {"idle", "done"} \cup DOMAIN Kinds
    BY <2>3 DEF Kinds
  <2>8. Fits(table, w)
    BY <1>3, <2>3, <2>5, <2>6, <2>7 DEF Fits
  <2> QED
    BY <2>1, <2>8, TurnKeeps DEF Turned
<1>4. CASE ReadHTTPStatus(p)
  <2>1. Read(p, "http", "http", HTTPStatusOf(e), "title")
    BY <1>4 DEF ReadHTTPStatus
  <2>2. "http" \in Member
    BY DEF Member
  <2>3. v.pc = "http" /\ w.out["http"] = HTTPStatusOf(e)
    BY <2>1, <2>2, ReadStep
  <2>4. v.kind \in Kinds["title"]
    BY <1>1, <2>3 DEF Fits, Kinds
  <2>5. w.out["http"] \in DOMAIN StatusText \/ e # Absent
    BY <2>3, ConversionsAssumption DEF HTTPStatusOf
  <2> QED
    BY <1>3, <2>1, <2>2, <2>4, <2>5
<1>5. CASE ReadTitle(p)
  <2> DEFINE x == IF v.out["http"] \in DOMAIN StatusText THEN StatusText[v.out["http"]]
                                                         ELSE StringOf(e)
             to == IF v.kind = "From" THEN "code" ELSE "done"
  <2>1. Read(p, "title", "title", x, to)
    BY <1>5 DEF ReadTitle
  <2>2. "title" \in Member
    BY DEF Member
  <2>3. v.pc = "title"
    BY <2>1 DEF Read
  <2>4. v.kind \in Answering
    BY <1>1, <2>3 DEF Fits, Kinds, Answering
  <2>5. x # Absent
    <3>1. CASE v.out["http"] \in DOMAIN StatusText
      BY <3>1, ConversionsAssumption
    <3>2. CASE v.out["http"] \notin DOMAIN StatusText
      <4>1. e # Absent /\ e \in CodeInfo
        BY <1>1, <1>2, <2>3, <2>4, <3>2 DEF Fits, Sound, CodeMap
      <4> QED
        BY <3>2, <4>1, CodesAssumption DEF StringOf, CodeInfo
    <3> QED
      BY <3>1, <3>2
  <2>6. to = "code" \/ to = "done"
    OBVIOUS
  <2>7. to = "code" => v.kind = "From"
    OBVIOUS
  <2> HIDE DEF to, x
  <2> QED
    BY <1>3, <2>1, <2>2, <2>5, <2>6, <2>7 DEF Kinds
<1>6. CASE ReadCodeName(p)
  <2> DEFINE to == IF v.kind = "RecordSpan" THEN "fault" ELSE "done"
  <2>1. Read(p, "code", "code", StringOf(e), to)
    BY <1>6 DEF ReadCodeName
  <2>2. "code" \in Member
    BY DEF Member
  <2>3. to = "fault" \/ to = "done"
    OBVIOUS
  <2>4. to = "fault" => v.kind = "RecordSpan"
    OBVIOUS
  <2> HIDE DEF to
  <2> QED
    BY <1>3, <2>1, <2>2, <2>3, <2>4 DEF Kinds
<1>7. CASE ReadFault(p)
  <2>1. PICK x : Read(p, "fault", "fault", x, "done")
    BY <1>7 DEF ReadFault
  <2>2. "fault" \in Member
    BY DEF Member
  <2> QED
    BY <1>3, <2>1, <2>2 DEF Kinds
<1> QED
  BY <1>4, <1>5, <1>6, <1>7

\* The steps of FromStatus.
LEMMA RecoverySteps ==
    ASSUME IInv, NEW p \in Goroutines, NextDetail(p) \/ CheckWire(p)
    PROVE  IInv'
<1> DEFINE v == conv[p]
           w == conv'[p]
           s == v.input
           Others == /\ conv' = [q \in Goroutines |-> conv'[q]]
                     /\ \A q \in Goroutines \ {p} : conv'[q] = conv[q]
<1>1. Fits(table, v) /\ Sound(table) /\ Shape(v) /\ conv = [q \in Goroutines |-> conv[q]]
  BY DEF IInv, Fits
<1>2. v.pc \in {"detail", "wire"} /\ UNCHANGED regVars
  BY DEF NextDetail, CheckWire
<1>3. v.kind = "FromStatus" /\ s \in Statuses /\ v.i \in Nat /\ v.out["title"] # Absent
  BY <1>1, <1>2 DEF Fits, Kinds
<1>4. s.infos \in Seq(ErrorInfo) /\ Len(s.infos) \in Nat
  BY <1>3, ConversionsAssumption
\* Wherever it goes on, with whatever members but the title.
<1>5. ASSUME NEW to \in {"detail", "wire", "done"}, NEW j \in Nat, NEW o,
             Others,
             w = [pc |-> to, kind |-> v.kind, input |-> v.input, born |-> v.born,
                  i |-> j, out |-> o],
             o = [m \in Member |-> o[m]], o["title"] = v.out["title"],
             to = "wire" => Names(table, s, o["candidate"]),
             to = "done" => \/ o["result"] = WireCode(s)
                            \/ /\ Names(table, s, o["result"])
                               /\ table[o["result"]].grpcCode = s.grpc
      PROVE  IInv'
  <2>1. /\ w.pc = to /\ w.kind = "FromStatus" /\ w.input = s /\ w.i = j /\ w.out = o
        /\ w = [pc |-> w.pc, kind |-> w.kind, input |-> w.input, born |-> w.born,
                i |-> w.i, out |-> w.out]
    BY <1>3, <1>5
  <2>2. Shape(w)
    BY <1>5, <2>1 DEF Shape
  <2>3. FitsRecovery(table, w)
    BY <1>5, <2>1 DEF FitsRecovery
  <2>4. Fits(table, w)
    BY <1>3, <1>5, <2>1, <2>2, <2>3 DEF Fits, Kinds
  <2> QED
    BY <1>2, <1>5, <2>4, TurnKeeps
\* Setting one member.
<1>6. ASSUME NEW m \in Member, NEW x
      PROVE  LET o == [v.out EXCEPT ![m] = x]
             IN  /\ o = [n \in Member |-> o[n]] /\ o[m] = x
                 /\ m # "title" => o["title"] = v.out["title"]
  BY <1>1 DEF Shape, Member
<1>7. {"candidate", "result"} \subseteq Member
  BY DEF Member
<1>8. CASE NextDetail(p)
  <2> DEFINE i == v.i + 1
  <2>1. v.pc = "detail" /\ i \in Nat
    <3>1. v.pc = "detail"
      BY <1>8 DEF NextDetail
    <3> QED
      BY <1>3, <3>1
  <2>2. CASE conv' = [conv EXCEPT ![p].out["result"] = WireCode(s), ![p].pc = "done"]
    <3> DEFINE o == [v.out EXCEPT !["result"] = WireCode(s)]
    <3>1. w = [pc |-> "done", kind |-> v.kind, input |-> v.input, born |-> v.born,
              i |-> v.i, out |-> o]
      BY <1>1, <2>2 DEF Shape
    <3>2. o = [n \in Member |-> o[n]] /\ o["result"] = WireCode(s) /\ o["title"] = v.out["title"]
      BY <1>6, <1>7
    <3> HIDE DEF o
    <3>3. Others
      BY <1>1, <2>2
    <3> QED
      BY <1>3, <1>5, <3>1, <3>2, <3>3
  <2>3. CASE conv' = [conv EXCEPT ![p].i = i]
    <3>1. w = [pc |-> "detail", kind |-> v.kind, input |-> v.input, born |-> v.born,
              i |-> i, out |-> v.out]
      BY <1>1, <2>1, <2>3 DEF Shape
    <3>2. v.out = [n \in Member |-> v.out[n]]
      BY <1>1 DEF Shape
    <3>3. Others
      BY <1>1, <2>3
    <3> QED
      BY <1>5, <2>1, <3>1, <3>2, <3>3
  <2>4. ASSUME i <= Len(s.infos), Trusted = {} \/ s.infos[i].domain \in Trusted,
               NEW c \in Code, table[c] # Absent, table[c].name = s.infos[i].reason,
               conv' = [conv EXCEPT ![p].i = i, ![p].pc = "wire", ![p].out["candidate"] = c]
        PROVE  IInv'
    <3> DEFINE o == [v.out EXCEPT !["candidate"] = c]
    <3>1. w = [pc |-> "wire", kind |-> v.kind, input |-> v.input, born |-> v.born,
              i |-> i, out |-> o]
      BY <1>1, <2>4 DEF Shape
    <3>2. o = [n \in Member |-> o[n]] /\ o["candidate"] = c /\ o["title"] = v.out["title"]
      BY <1>6, <1>7
    <3> HIDE DEF o
    <3>3. i \in 1..Len(s.infos)
      BY <1>3, <1>4, <2>4
    <3>4. Names(table, s, c)
      BY <2>4, <3>3 DEF Names
    <3>5. Others
      BY <1>1, <2>4
    <3> QED
      BY <1>5, <2>1, <3>1, <3>2, <3>4, <3>5
  <2> QED
    BY <1>8, <2>2, <2>3, <2>4 DEF NextDetail
<1>9. CASE CheckWire(p)
  <2> DEFINE c == v.out["candidate"]
  <2>1. v.pc = "wire" /\ Names(table, s, c)
    BY <1>1, <1>3, <1>9 DEF CheckWire, Fits, FitsRecovery
  <2>2. CASE GRPCCodeOf(table[c]) = s.grpc
    <3> DEFINE o == [v.out EXCEPT !["result"] = c]
    <3>1. conv' = [conv EXCEPT ![p].out["result"] = c, ![p].pc = "done"]
      BY <1>9, <2>2 DEF CheckWire
    <3>2. w = [pc |-> "done", kind |-> v.kind, input |-> v.input, born |-> v.born,
              i |-> v.i, out |-> o]
      BY <1>1, <3>1 DEF Shape
    <3>3. o = [n \in Member |-> o[n]] /\ o["result"] = c /\ o["title"] = v.out["title"]
      BY <1>6, <1>7
    <3>4. table[c].grpcCode = s.grpc
      BY <2>1, <2>2 DEF Names, GRPCCodeOf
    <3>5. Others
      BY <1>1, <3>1
    <3> HIDE DEF o, c
    <3> QED
      BY <1>3, <1>5, <2>1, <3>2, <3>3, <3>4, <3>5
  <2>3. CASE GRPCCodeOf(table[c]) # s.grpc
    <3>1. conv' = [conv EXCEPT ![p].pc = "detail"]
      BY <1>9, <2>3 DEF CheckWire
    <3>2. w = [pc |-> "detail", kind |-> v.kind, input |-> v.input, born |-> v.born,
              i |-> v.i, out |-> v.out]
      BY <1>1, <3>1 DEF Shape
    <3>3. v.out = [n \in Member |-> v.out[n]]
      BY <1>1 DEF Shape
    <3>4. Others
      BY <1>1, <3>1
    <3> QED
      BY <1>3, <1>5, <3>2, <3>3, <3>4
  <2> QED
    BY <2>2, <2>3
<1> QED
  BY <1>8, <1>9

\* A conversion begins, or has returned.
LEMMA EndSteps ==
    ASSUME IInv, NEW p \in Goroutines, Begin(p) \/ Finish(p)
    PROVE  IInv'
<1> DEFINE w == conv'[p]
           Others == /\ conv' = [q \in Goroutines |-> conv'[q]]
                     /\ \A q \in Goroutines \ {p} : conv'[q] = conv[q]
<1>1. conv = [q \in Goroutines |-> conv[q]] /\ Unset # Absent
  BY ConversionsAssumption DEF IInv
\* A fresh conversion, about to read "pc" - or over, with a public message.
<1>2. ASSUME NEW kind, NEW pc, NEW x, NEW b, NEW o, UNCHANGED regVars,
             Others,
             w = [pc |-> pc, kind |-> kind, input |-> x, born |-> b, i |-> 0, out |-> o],
             o = [m \in Member |-> o[m]], o["title"] # Absent, o["reason"] = Unset,
             IF kind = "FromStatus" THEN x \in Statuses ELSE x \in Errors,
             \/ pc = "msg" /\ kind = "ToStatus"
             \/ pc = "http" /\ kind \in {"From", "PublicMessage"}
             \/ pc = "code" /\ kind = "RecordSpan"
             \/ pc = "detail" /\ kind = "FromStatus"
             \/ pc = "done" /\ kind = "PublicMessage"
      PROVE  IInv'
  <2>4. w.pc = pc /\ w.kind = kind /\ w.input = x /\ w.born = b /\ w.i = 0 /\ w.out = o
    BY <1>2
  <2>3. Shape(w)
    BY <1>2, <2>4 DEF Shape
  <2>5. w.kind = "ToStatus" => FitsStatus(table, w)
    BY <1>2, <2>4 DEF FitsStatus
  <2>6. w.kind = "FromStatus" => FitsRecovery(table, w)
    BY <1>2, <2>4 DEF FitsRecovery
  <2>7. /\ w.pc \in {"idle", "done"} \cup DOMAIN Kinds
        /\ w.pc \in DOMAIN Kinds => w.kind \in Kinds[w.pc]
    BY <1>2, <2>4 DEF Kinds
  <2>8. Fits(table, w)
    BY <1>2, <2>3, <2>4, <2>5, <2>6, <2>7 DEF Fits
  <2> QED
    BY <1>2, <2>8, TurnKeeps
<1> DEFINE clean == [m \in Member |-> Unset]
<1>3. clean = [m \in Member |-> clean[m]] /\ clean["title"] # Absent /\ clean["reason"] = Unset
  BY <1>1 DEF Member
<1>4. ASSUME NEW kind, NEW pc, NEW x, Start(p, kind, pc, x),
             IF kind = "FromStatus" THEN x \in Statuses ELSE x \in Errors,
             \/ pc = "msg" /\ kind = "ToStatus"
             \/ pc = "http" /\ kind \in {"From", "PublicMessage"}
             \/ pc = "code" /\ kind = "RecordSpan"
             \/ pc = "detail" /\ kind = "FromStatus"
      PROVE  IInv'
  <2> DEFINE b == IF kind = "FromStatus" THEN Absent ELSE table[x.code]
  <2>1. /\ UNCHANGED regVars
        /\ conv' = [conv EXCEPT ![p] = [NoConversion EXCEPT
                      !.pc = pc, !.kind = kind, !.input = x, !.born = b]]
    BY <1>4 DEF Start
  <2>2. Others
    BY <1>1, <2>1
  <2> HIDE DEF b
  <2>3. w = [pc |-> pc, kind |-> kind, input |-> x, born |-> b, i |-> 0, out |-> clean]
    BY <1>1, <2>1 DEF NoConversion
  <2> HIDE DEF clean
  <2> QED
    BY <1>2, <1>3, <1>4, <2>1, <2>2, <2>3
<1>5. ASSUME NEW e \in Errors, PublicMessage(p, e) PROVE IInv'
  <2>1. CASE e.public = Absent
    BY <1>4, <1>5, <2>1 DEF PublicMessage
  <2>2. CASE e.public # Absent
    <3> DEFINE o == [clean EXCEPT !["title"] = e.public]
    <3>1. /\ UNCHANGED regVars
          /\ conv' = [conv EXCEPT ![p] = [NoConversion EXCEPT
                        !.pc = "done", !.kind = "PublicMessage", !.input = e,
                        !.born = table[e.code], !.out["title"] = e.public]]
      BY <1>5, <2>2 DEF PublicMessage
    <3>2. Others
      BY <1>1, <3>1
    <3>3. w = [pc |-> "done", kind |-> "PublicMessage", input |-> e,
               born |-> table[e.code], i |-> 0, out |-> o]
      BY <1>1, <3>1 DEF NoConversion
    <3>4. o = [m \in Member |-> o[m]] /\ o["title"] = e.public /\ o["reason"] = Unset
      BY DEF Member
    <3>5. UNCHANGED regVars /\ e \in Errors /\ o["title"] # Absent
      BY <2>2, <3>1, <3>4
    <3> HIDE DEF o
    <3> QED
      BY <1>2, <3>2, <3>3, <3>4, <3>5
  <2> QED
    BY <2>1, <2>2
<1>6. CASE Begin(p)
  BY <1>4, <1>5, <1>6 DEF Begin, ToStatus, From, RecordSpan, FromStatus
<1>7. CASE Finish(p)
  <2>1. UNCHANGED regVars /\ Others /\ w = NoConversion
    BY <1>1, <1>7 DEF Finish
  <2>2. Shape(NoConversion)
    BY DEF Shape, NoConversion
  <2>3. Fits(table, NoConversion)
    BY <1>3, <2>2 DEF Fits, NoConversion, Kinds
  <2> QED
    BY <2>1, <2>3, TurnKeeps
<1> QED
  BY <1>6, <1>7

LEMMA InitIInv == Init => IInv
<1> SUFFICES ASSUME Init PROVE IInv
  OBVIOUS
<1>1. Sound(table) /\ op = [w \in Writers |-> op[w]] /\ Pending
  BY SoundBuiltins DEF Init, Reg!Init, Reg!Idle, Pending
<1>2. Shape(NoConversion) /\ NoConversion.out["title"] # Absent
  BY ConversionsAssumption DEF Shape, NoConversion, Member
<1>3. Fits(table, NoConversion)
  BY <1>2 DEF Fits, NoConversion, Kinds
<1> QED
  BY <1>1, <1>3 DEF Init, IInv

LEMMA NextIInv == IInv /\ [Next]_vars => IInv'
<1> SUFFICES ASSUME IInv, [Next]_vars PROVE IInv'
  OBVIOUS
<1>1. CASE Reg!Next /\ UNCHANGED conv
  BY <1>1, RegistryStep, FitsGrows DEF IInv
<1>2. ASSUME NEW p \in Goroutines, Begin(p) \/ Lookup(p) \/ Finish(p) PROVE IInv'
  BY <1>2, EndSteps, StatusSteps, AnswerSteps, RecoverySteps DEF Lookup
<1>3. CASE UNCHANGED vars
  BY <1>3 DEF vars, IInv, Pending
<1> QED
  BY <1>1, <1>2, <1>3 DEF Next

THEOREM Invariance == Spec => []IInv
BY InitIInv, NextIInv, PTL DEF Spec

----------------------------------------------------------------------------
(* What the invariant says of a conversion that is over.                   *)

\* No error becomes a status OK, whatever is registered meanwhile.
THEOREM NeverOKCorrect == Spec => []NeverOK
<1>1. IInv => NeverOK
  BY DEF IInv, NeverOK, Done, Fits, FitsStatus
<1> QED
  BY <1>1, Invariance, PTL

\* The reason sent is the name its code is registered under, though three
\* lookups went into it.
THEOREM ReasonIsRegisteredCorrect == Spec => []ReasonIsRegistered
<1>1. IInv => ReasonIsRegistered
  BY DEF IInv, ReasonIsRegistered, Done, Looked, Fits, FitsStatus
<1> QED
  BY <1>1, Invariance, PTL

\* No title and no public message is empty or "CODE(n)".
THEOREM TitleIsWordedCorrect == Spec => []TitleIsWorded
<1>1. IInv => TitleIsWorded
  BY DEF IInv, TitleIsWorded, Fits
<1> QED
  BY <1>1, Invariance, PTL

\* The code recovered from a status is one that the client's own registry
\* maps back to it, and a custom one only on a trusted detail's word.
THEOREM RecoveredFitsCorrect == Spec => []RecoveredFits
<1>1. ASSUME IInv, NEW p \in Goroutines, Done(p, "FromStatus")
      PROVE  LET s == conv[p].input
                 c == conv[p].out["result"]
             IN  /\ s.grpc <= 16 => table[c] # Absent /\ table[c].grpcCode = s.grpc
                 /\ s.grpc > 16 => c = Unknown
                 /\ c # WireCode(s) => \E i \in 1..Len(s.infos) :
                       /\ s.infos[i].reason = table[c].name
                       /\ Trusted = {} \/ s.infos[i].domain \in Trusted
  <2> DEFINE s == conv[p].input
             c == conv[p].out["result"]
  <2>1. /\ Sound(table) /\ s \in Statuses
        /\ \/ c = WireCode(s)
           \/ Names(table, s, c) /\ table[c].grpcCode = s.grpc
    BY <1>1 DEF IInv, Fits, FitsRecovery, Done
  <2>2. s.grpc \in Nat /\ (s.grpc <= 16 => s.grpc \in Code /\ Builtins[s.grpc] # Absent)
    BY <2>1, ConversionsAssumption
  <2>3. CASE c = WireCode(s)
    <3>1. s.grpc <= 16 => c = s.grpc /\ table[c] = Builtins[c] /\ Builtins[c] # Absent
      BY <2>1, <2>2, <2>3 DEF WireCode, Sound
    <3>2. s.grpc <= 16 => Builtins[c].grpcCode = c
      BY <2>2, <3>1, ConversionsAssumption
    <3>3. s.grpc > 16 => c = Unknown
      BY <2>2, <2>3 DEF WireCode
    <3> QED
      BY <2>3, <3>1, <3>2, <3>3
  <2>4. CASE Names(table, s, c) /\ table[c].grpcCode = s.grpc
    <3>1. table[c] # Absent /\ s.grpc \in 0..16
      BY <2>1, <2>4 DEF Names, Sound
    <3>2. \E i \in 1..Len(s.infos) : /\ s.infos[i].reason = table[c].name
                                     /\ Trusted = {} \/ s.infos[i].domain \in Trusted
      BY <2>4 DEF Names
    <3>3. s.grpc <= 16 /\ ~ (s.grpc > 16)
      BY <3>1
    <3> HIDE DEF s, c
    <3>4. /\ s.grpc <= 16 => table[c] # Absent /\ table[c].grpcCode = s.grpc
          /\ s.grpc > 16 => c = Unknown
      BY <2>4, <3>1, <3>3, Zenon
    <3> QED
      BY <3>2, <3>4, Zenon DEF s, c
  <2> QED
    BY <2>1, <2>3, <2>4
<1>2. IInv => RecoveredFits
  BY <1>1, Zenon DEF RecoveredFits
<1> QED
  BY <1>2, Invariance, PTL

----------------------------------------------------------------------------
(* What one conversion mixes.                                              *)

\* How many of the members a conversion sets are settled at each step.
Settled ==
    [ToStatus |-> [msg |-> 0, grpc |-> 1, name |-> 2, byName |-> 2, reason |-> 2,
                   delay |-> 3, done |-> 4],
     From |-> [http |-> 0, title |-> 1, code |-> 2, done |-> 3],
     PublicMessage |-> [http |-> 0, title |-> 0, done |-> 1],
     RecordSpan |-> [code |-> 0, fault |-> 1, done |-> 2]]

\* The first n members of v are cut between the entry it began with and the
\* one that table t has now.
Cut(t, v, n) ==
    LET reads == Reads[v.kind]
    IN  \E cut \in 0..n : \A i \in 1..n :
           v.out[reads[i]] =
               MemberOf(reads[i], v.input, IF i <= cut THEN v.born ELSE t[v.input.code])

\* ToStatus has found an entry by the time it attaches an ErrorInfo; one that
\* found none had found none before either.
MixesInfo(t, v) ==
    LET e == t[v.input.code]
    IN  /\ v.pc \in {"msg", "grpc", "name", "byName", "reason"} => v.out["reason"] = Unset
        /\ v.pc \in {"name", "byName", "reason"} => Domain # Absent
        /\ v.pc = "byName" =>
              \/ /\ v.out["name"] = Absent /\ v.born = Absent
                 /\ \A m \in {"msg", "grpc"} : v.out[m] = MemberOf(m, v.input, Absent)
              \/ e # Absent /\ v.out["name"] = e.name
        /\ v.pc = "reason" => e # Absent

Mixes(t, v) ==
    LET e == t[v.input.code]
    IN  /\ v.pc \in DOMAIN Settled[v.kind]
        /\ v.born # Absent => e = v.born
        /\ Cut(t, v, Settled[v.kind][v.pc])
        /\ v.pc = "title" => v.out["http"] \in {HTTPStatusOf(v.born), HTTPStatusOf(e)}
        /\ v.kind = "ToStatus" => MixesInfo(t, v)

\* PublicMessage asks the registry nothing if the error has a message.
Asking(v) ==
    /\ v.kind \in DOMAIN Reads
    /\ ~ (v.kind = "PublicMessage" /\ v.input.public # Absent)

MInv == \A p \in Goroutines : Asking(conv[p]) => Mixes(table, conv[p])

LEMMA MixesGrows ==
    ASSUME NEW t, NEW u, Grows(t, u), NEW v, v.input.code \in Code, Mixes(t, v), Asking(v)
    PROVE  Mixes(u, v)
<1> DEFINE n == Settled[v.kind][v.pc]
           e == t[v.input.code]
           f == u[v.input.code]
<1>1. e # Absent => f = e
  BY DEF Grows
<1>2. e = Absent => v.born = Absent
  BY DEF Mixes
<1>3. n \in Nat
  BY DEF Mixes, Settled, Asking, Reads
<1>4. Cut(u, v, n)
  <2>1. CASE e # Absent
    BY <1>1, <2>1 DEF Mixes, Cut
  <2>2. CASE e = Absent
    <3>1. \A i \in 1..n : v.out[Reads[v.kind][i]] = MemberOf(Reads[v.kind][i], v.input, v.born)
      BY <1>2, <2>2 DEF Mixes, Cut
    <3>2. \A i \in 1..n : i <= n
      BY <1>3
    <3>3. n \in 0..n
      BY <1>3
    <3> HIDE DEF n
    <3> QED
      BY <3>1, <3>2, <3>3 DEF Cut
  <2> QED
    BY <2>1, <2>2
<1>5. v.pc = "title" => v.out["http"] \in {HTTPStatusOf(v.born), HTTPStatusOf(f)}
  BY <1>1, <1>2 DEF Mixes
<1>6. v.kind = "ToStatus" => MixesInfo(u, v)
  BY <1>1 DEF Mixes, MixesInfo
<1> QED
  BY <1>1, <1>4, <1>5, <1>6 DEF Mixes

\* One more member, read from the table as it is.
LEMMA CutNext ==
    ASSUME NEW t, NEW v, NEW w, NEW n \in Nat, Cut(t, v, n),
           w.kind = v.kind, w.input = v.input, w.born = v.born,
           \A i \in 1..n : w.out[Reads[v.kind][i]] = v.out[Reads[v.kind][i]],
           w.out[Reads[v.kind][n + 1]] =
               MemberOf(Reads[v.kind][n + 1], v.input, t[v.input.code])
    PROVE  Cut(t, w, n + 1)
<1> DEFINE reads == Reads[v.kind]
           Value(i, cut) == MemberOf(reads[i], v.input, IF i <= cut THEN v.born
                                                        ELSE t[v.input.code])
<1>1. PICK cut \in 0..n : \A i \in 1..n : v.out[reads[i]] = Value(i, cut)
  BY DEF Cut
<1>2. ~ (n + 1 <= cut) /\ cut \in 0..(n + 1)
  OBVIOUS
<1>3. \A i \in 1..(n + 1) : i \in 1..n \/ i = n + 1
  OBVIOUS
<1>4. \A i \in 1..(n + 1) : w.out[reads[i]] = Value(i, cut)
  BY <1>1, <1>2, <1>3
<1> QED
  BY <1>2, <1>4 DEF Cut

\* What a conversion is when it goes on.
LEMMA TurnedMixes ==
    ASSUME IInv, MInv, NEW p \in Goroutines, NEW to, Turned(p, to),
           Asking(conv[p]) /\ Mixes(table, conv[p]) => Mixes(table, conv'[p])
    PROVE  MInv'
<1>1. table' = table
  BY DEF Turned, regVars
<1>2. Asking(conv'[p]) => Mixes(table, conv'[p])
  BY DEF Turned, Asking, MInv
<1> QED
  BY <1>1, <1>2 DEF MInv, Turned

\* The next member of a conversion is read.
LEMMA ReadCuts ==
    ASSUME NEW p \in Goroutines, NEW m \in Member, NEW to, NEW n \in Nat,
           Turned(p, to), conv'[p].out[m] = MemberOf(m, conv[p].input, Looked(p)),
           \A k \in Member \ {m} : conv'[p].out[k] = conv[p].out[k],
           Cut(table, conv[p], n), m = Reads[conv[p].kind][n + 1],
           \A i \in 1..n : Reads[conv[p].kind][i] \in Member \ {m}
    PROVE  Cut(table, conv'[p], n + 1)
<1>1. /\ conv'[p].kind = conv[p].kind /\ conv'[p].input = conv[p].input
      /\ conv'[p].born = conv[p].born
  BY DEF Turned
<1> QED
  BY <1>1, CutNext DEF Looked

LEMMA StatusMixes ==
    ASSUME IInv, MInv, NEW p \in Goroutines,
           \/ StatusMessage(p) \/ StatusCode(p) \/ InfoName(p) \/ InfoByName(p)
           \/ InfoReason(p) \/ StatusDelay(p)
    PROVE  MInv'
<1> DEFINE v == conv[p]
           w == conv'[p]
           e == table[v.input.code]
<1>1. Fits(table, v) /\ Sound(table) /\ v.pc \in Statusing
  BY DEF IInv, Read, Goto, Statusing, StatusMessage, StatusCode, InfoName, InfoByName,
         InfoReason, StatusDelay
<1>2. v.kind = "ToStatus" /\ Asking(v) /\ Mixes(table, v) /\ MixesInfo(table, v)
  BY <1>1 DEF Fits, Kinds, Statusing, Asking, Reads, MInv, Mixes
<1>3. v.input.code \in Code /\ (e # Absent => e.name # Absent)
  <2>1. v.input \in Errors
    BY <1>1, <1>2 DEF Fits, Statusing
  <2>2. v.input.code \in Code
    BY <2>1, ConversionsAssumption DEF Err
  <2> QED
    BY <1>1, <2>2, CodesAssumption DEF Sound, CodeMap, CodeInfo
<1>4. Looked(p) = e
  BY DEF Looked
<1>5. /\ Reads["ToStatus"][1] = "msg" /\ Reads["ToStatus"][2] = "grpc"
      /\ Reads["ToStatus"][3] = "reason" /\ Reads["ToStatus"][4] = "delay"
  BY DEF Reads
<1>6. {"msg", "grpc", "reason", "delay", "name"} \subseteq Member
  BY DEF Member
<1>7. {"msg", "grpc", "name", "reason", "delay"} \subseteq Statusing
  BY DEF Statusing
\* It is enough to look at what ToStatus itself depends on.
<1>8. ASSUME NEW to \in {"grpc", "name", "byName", "reason", "delay", "done"},
             Turned(p, to), Cut(table, w, Settled["ToStatus"][to]), MixesInfo(table, w)
      PROVE  MInv'
  <2>1. w.pc = to /\ w.kind = "ToStatus" /\ w.input = v.input /\ w.born = v.born
    BY <1>2, <1>8 DEF Turned
  <2>2. to \in DOMAIN Settled["ToStatus"] /\ to # "title"
    BY DEF Settled
  <2>3. Mixes(table, w)
    BY <1>2, <1>8, <2>1, <2>2 DEF Mixes
  <2> QED
    BY <1>8, <2>3, TurnedMixes
\* A lookup sets one member and leaves the others.
<1>9. ASSUME NEW from \in Statusing, NEW m \in Member, NEW x, NEW to, Read(p, from, m, x, to)
      PROVE  /\ v.pc = from /\ Turned(p, to) /\ w.out[m] = x
             /\ \A k \in Member \ {m} : w.out[k] = v.out[k]
             /\ w.pc = to /\ w.kind = "ToStatus" /\ w.input = v.input /\ w.born = v.born
  <2>1. /\ v.pc = from /\ Turned(p, to) /\ w.out[m] = x
        /\ \A k \in Member \ {m} : w.out[k] = v.out[k]
    BY <1>9, ReadStep
  <2> QED
    BY <1>2, <2>1 DEF Turned
<1>10. ASSUME NEW from \in Statusing, NEW m \in Member, NEW x, NEW to, NEW n \in Nat,
              Read(p, from, m, x, to), x = MemberOf(m, v.input, e),
              n = Settled["ToStatus"][from], m = Reads["ToStatus"][n + 1],
              \A i \in 1..n : Reads["ToStatus"][i] \in Member \ {m}
       PROVE  Cut(table, w, n + 1)
  <2>1. /\ v.pc = from /\ Turned(p, to) /\ w.out[m] = x
        /\ \A k \in Member \ {m} : w.out[k] = v.out[k]
    BY <1>9, <1>10
  <2>2. Cut(table, v, n)
    BY <1>2, <1>10, <2>1 DEF Mixes
  <2> QED
    BY <1>2, <1>4, <1>10, <2>1, <2>2, ReadCuts
<1>11. CASE StatusMessage(p)
  <2> DEFINE x == IF v.input.public # Absent THEN v.input.public ELSE StringOf(e)
  <2>1. Read(p, "msg", "msg", x, "grpc")
    BY <1>4, <1>11 DEF StatusMessage
  <2>2. x = MemberOf("msg", v.input, e)
    BY DEF MemberOf
  <2> HIDE DEF x
  <2>3. Cut(table, w, 0 + 1)
    <3>1. \A i \in 1..0 : Reads["ToStatus"][i] \in Member \ {"msg"}
      OBVIOUS
    <3>2. Settled["ToStatus"]["msg"] = 0 /\ "msg" = Reads["ToStatus"][0 + 1] /\ 0 \in Nat
      BY <1>5 DEF Settled
    <3>3. "msg" \in Statusing /\ "msg" \in Member
      BY <1>7, <1>6
    <3> QED
      BY <1>10, <2>1, <2>2, <3>1, <3>2, <3>3, Zenon
  <2>4. /\ v.pc = "msg" /\ Turned(p, "grpc") /\ w.out["reason"] = v.out["reason"]
        /\ w.pc = "grpc"
    BY <1>7, <1>6, <1>9, <2>1
  <2>5. MixesInfo(table, w)
    BY <1>2, <2>4 DEF MixesInfo
  <2>6. Settled["ToStatus"]["grpc"] = 0 + 1
    BY DEF Settled
  <2> QED
    BY <1>8, <2>3, <2>4, <2>5, <2>6
<1>12. CASE StatusCode(p)
  <2> DEFINE to == IF Domain = Absent THEN "delay" ELSE "name"
  <2>1. Read(p, "grpc", "grpc", GRPCCodeOf(e), to)
    BY <1>4, <1>12 DEF StatusCode
  <2>2. GRPCCodeOf(e) = MemberOf("grpc", v.input, e)
    BY DEF MemberOf
  <2>3. Cut(table, w, 1 + 1)
    <3>1. \A i \in 1..1 : Reads["ToStatus"][i] \in Member \ {"grpc"}
      BY <1>2, <1>5, <1>6
    <3>2. Settled["ToStatus"]["grpc"] = 1 /\ "grpc" = Reads["ToStatus"][1 + 1] /\ 1 \in Nat
      BY <1>5 DEF Settled
    <3>3. "grpc" \in Statusing /\ "grpc" \in Member
      BY <1>7, <1>6
    <3> HIDE DEF to
    <3> QED
      BY <1>10, <2>1, <2>2, <3>1, <3>2, <3>3, Zenon
  <2> HIDE DEF to
  <2>4. /\ v.pc = "grpc" /\ Turned(p, to) /\ w.out["reason"] = v.out["reason"]
        /\ w.pc = to /\ w.kind = v.kind /\ w.input = v.input /\ w.born = v.born
    BY <1>7, <1>2, <1>6, <1>9, <2>1
  <2>5. w.out["reason"] = Unset
    BY <1>2, <2>4 DEF MixesInfo
  <2>6. CASE Domain = Absent
    <3>1. to = "delay"
      BY <2>6 DEF to
    <3>2. Unset = MemberOf("reason", v.input, e)
      BY <2>6 DEF MemberOf
    <3>3. Cut(table, w, 2 + 1)
      <4>1. /\ Reads[w.kind][2 + 1] = "reason" /\ 2 \in Nat /\ w.input = v.input
            /\ Cut(table, w, 2)
        BY <1>2, <1>5, <2>3, <2>4
      <4>2. w.out[Reads[w.kind][2 + 1]] = MemberOf(Reads[w.kind][2 + 1], w.input, table[w.input.code])
        BY <2>5, <3>2, <4>1
      <4> QED
        BY <4>1, <4>2, CutNext, Zenon
    <3>4. MixesInfo(table, w)
      BY <2>4, <3>1 DEF MixesInfo
    <3>5. Settled["ToStatus"]["delay"] = 2 + 1
      BY DEF Settled
    <3> QED
      BY <1>8, <2>4, <3>1, <3>3, <3>4, <3>5
  <2>7. CASE Domain # Absent
    <3>1. to = "name"
      BY <2>7 DEF to
    <3>2. MixesInfo(table, w)
      BY <2>4, <2>5, <2>7, <3>1 DEF MixesInfo
    <3>3. Settled["ToStatus"]["name"] = 1 + 1
      BY DEF Settled
    <3> QED
      BY <1>8, <2>3, <2>4, <3>1, <3>2, <3>3
  <2> QED
    BY <2>6, <2>7
\* A step that sets none of the first two members.
<1>13. ASSUME v.pc \in {"name", "byName"}, w.kind = v.kind, w.input = v.input,
              w.born = v.born, w.out["msg"] = v.out["msg"], w.out["grpc"] = v.out["grpc"]
       PROVE  Cut(table, w, 2)
  <2>1. Settled["ToStatus"][v.pc] = 2
    BY <1>13 DEF Settled
  <2>2. Cut(table, v, 2)
    BY <1>2, <2>1 DEF Mixes
  <2>3. \A i \in 1..2 : w.out[Reads["ToStatus"][i]] = v.out[Reads["ToStatus"][i]]
    BY <1>5, <1>13
  <2> QED
    BY <1>2, <1>13, <2>2, <2>3 DEF Cut
<1>14. CASE InfoName(p)
  <2>1. Read(p, "name", "name", StringOf(e), "byName")
    BY <1>4, <1>14 DEF InfoName
  <2>2. /\ v.pc = "name" /\ Turned(p, "byName") /\ w.out["name"] = StringOf(e)
        /\ w.pc = "byName" /\ w.kind = v.kind /\ w.input = v.input /\ w.born = v.born
        /\ w.out["reason"] = v.out["reason"]
        /\ w.out["msg"] = v.out["msg"] /\ w.out["grpc"] = v.out["grpc"]
    BY <1>7, <1>2, <1>6, <1>9, <2>1
  <2>3. Cut(table, w, 2)
    BY <1>13, <2>2
  <2>4. CASE e # Absent
    <3>1. MixesInfo(table, w)
      BY <1>2, <2>2, <2>4 DEF MixesInfo, StringOf
    <3> QED
      BY <1>8, <2>2, <2>3, <3>1 DEF Settled
  <2>5. CASE e = Absent
    <3>1. v.born = Absent
      BY <1>2, <2>5 DEF Mixes
    <3>2. \A i \in 1..2 : w.out[Reads["ToStatus"][i]] =
                             MemberOf(Reads["ToStatus"][i], v.input, Absent)
      BY <1>2, <2>2, <2>3, <2>5, <3>1 DEF Cut
    <3>3. MixesInfo(table, w)
      BY <1>2, <1>5, <2>2, <2>5, <3>1, <3>2 DEF MixesInfo, StringOf
    <3> QED
      BY <1>8, <2>2, <2>3, <3>3 DEF Settled
  <2> QED
    BY <2>4, <2>5
<1>15. CASE InfoByName(p)
  <2> DEFINE found == v.out["name"] # Absent /\ Reg!Taken(table, v.out["name"])
             to == IF found THEN "reason" ELSE "delay"
  <2>1. Goto(p, "byName", to)
    BY <1>15, Zenon DEF InfoByName
  <2>2. v.pc = "byName" /\ Turned(p, to) /\ w.out = v.out
    BY <2>1, GotoStep
  <2>3. w.pc = to /\ w.kind = v.kind /\ w.input = v.input /\ w.born = v.born
    BY <2>2 DEF Turned
  <2>4. Cut(table, w, 2)
    BY <1>13, <2>2, <2>3
  <2>5. CASE v.out["name"] = Absent
    <3>1. to = "delay"
      BY <2>5
    <3>2. /\ v.born = Absent
          /\ \A m \in {"msg", "grpc"} : v.out[m] = MemberOf(m, v.input, Absent)
      BY <1>2, <1>3, <2>2, <2>5 DEF MixesInfo
    <3>3. w.out["reason"] = MemberOf("reason", v.input, Absent)
      BY <1>2, <2>2 DEF MixesInfo, MemberOf
    <3>4. \A i \in 1..3 : w.out[Reads["ToStatus"][i]] =
                             MemberOf(Reads["ToStatus"][i], v.input, Absent)
      BY <1>5, <2>2, <3>2, <3>3
    <3>5. Cut(table, w, 3)
      BY <1>2, <2>3, <3>2, <3>4 DEF Cut
    <3>6. MixesInfo(table, w)
      BY <2>3, <3>1 DEF MixesInfo
    <3> QED
      BY <1>8, <2>2, <3>1, <3>5, <3>6 DEF Settled
  <2>6. CASE v.out["name"] # Absent
    <3>1. e # Absent /\ v.out["name"] = e.name /\ Domain # Absent /\ v.out["reason"] = Unset
      BY <1>2, <2>2, <2>6 DEF MixesInfo
    <3>2. Reg!Taken(table, v.out["name"])
      BY <1>3, <3>1 DEF Reg!Taken
    <3>3. to = "reason"
      BY <2>6, <3>2
    <3> HIDE DEF to
    <3>4. MixesInfo(table, w)
      BY <2>2, <2>3, <3>1, <3>3 DEF MixesInfo
    <3> QED
      BY <1>8, <2>2, <2>4, <3>3, <3>4 DEF Settled
  <2> QED
    BY <2>5, <2>6
<1>16. CASE InfoReason(p)
  <2>1. Read(p, "reason", "reason", StringOf(e), "delay")
    BY <1>4, <1>16 DEF InfoReason
  <2>2. v.pc = "reason" /\ Turned(p, "delay") /\ w.pc = "delay"
    BY <1>7, <1>6, <1>9, <2>1
  <2>3. StringOf(e) = MemberOf("reason", v.input, e)
    BY <1>2, <2>2 DEF MixesInfo, StringOf, MemberOf
  <2>4. Cut(table, w, 2 + 1)
    <3>1. \A i \in 1..2 : Reads["ToStatus"][i] \in Member \ {"reason"}
      BY <1>2, <1>5, <1>6
    <3>2. Settled["ToStatus"]["reason"] = 2 /\ "reason" = Reads["ToStatus"][2 + 1] /\ 2 \in Nat
      BY <1>5 DEF Settled
    <3>3. "reason" \in Statusing /\ "reason" \in Member
      BY <1>7, <1>6
    <3> QED
      BY <1>10, <2>1, <2>3, <3>1, <3>2, <3>3, Zenon
  <2>5. MixesInfo(table, w)
    BY <2>2 DEF MixesInfo
  <2>6. Settled["ToStatus"]["delay"] = 2 + 1
    BY DEF Settled
  <2> QED
    BY <1>8, <2>2, <2>4, <2>5, <2>6
<1>17. CASE StatusDelay(p)
  <2> DEFINE x == IF v.input.delay > 0 THEN v.input.delay ELSE RetryDelayOf(e)
  <2>1. Read(p, "delay", "delay", x, "done")
    BY <1>4, <1>17 DEF StatusDelay
  <2>2. x = MemberOf("delay", v.input, e)
    BY DEF MemberOf
  <2> HIDE DEF x
  <2>3. v.pc = "delay" /\ Turned(p, "done") /\ w.pc = "done"
    BY <1>7, <1>6, <1>9, <2>1
  <2>4. Cut(table, w, 3 + 1)
    <3>1. \A i \in 1..3 : Reads["ToStatus"][i] \in Member \ {"delay"}
      BY <1>2, <1>5, <1>6
    <3>2. Settled["ToStatus"]["delay"] = 3 /\ "delay" = Reads["ToStatus"][3 + 1] /\ 3 \in Nat
      BY <1>5 DEF Settled
    <3>3. "delay" \in Statusing /\ "delay" \in Member
      BY <1>7, <1>6
    <3> QED
      BY <1>10, <2>1, <2>2, <3>1, <3>2, <3>3, Zenon
  <2>5. MixesInfo(table, w)
    BY <2>3 DEF MixesInfo
  <2>6. Settled["ToStatus"]["done"] = 3 + 1
    BY DEF Settled
  <2> QED
    BY <1>8, <2>3, <2>4, <2>5, <2>6
<1> QED
  BY <1>11, <1>12, <1>14, <1>15, <1>16, <1>17

LEMMA AnswerMixes ==
    ASSUME IInv, MInv, NEW p \in Goroutines,
           ReadHTTPStatus(p) \/ ReadTitle(p) \/ ReadCodeName(p) \/ ReadFault(p)
    PROVE  MInv'
<1> DEFINE v == conv[p]
           w == conv'[p]
           e == table[v.input.code]
           Froms == {"http", "title", "code", "fault"}
<1>1. Fits(table, v) /\ v.pc \in Froms
  BY DEF IInv, Read, ReadHTTPStatus, ReadTitle, ReadCodeName, ReadFault
<1>2. v.kind \in Answering /\ v.kind # "ToStatus" /\ v.kind \in Kinds[v.pc]
  BY <1>1 DEF Fits, Kinds, Answering
<1>3. Looked(p) = e
  BY DEF Looked
<1>4. /\ "http" \in Froms /\ "title" \in Froms /\ "code" \in Froms /\ "fault" \in Froms
      /\ Froms \subseteq Member
  BY DEF Member
<1> HIDE DEF Froms
\* The conversion is one that asks the registry, and reads member m.
<1>5. ASSUME NEW from \in Froms, NEW m \in Member, NEW x, NEW to,
             Read(p, from, m, x, to)
      PROVE  /\ v.pc = from /\ Turned(p, to) /\ w.out[m] = x
             /\ \A k \in Member \ {m} : w.out[k] = v.out[k]
             /\ w.pc = to /\ w.kind = v.kind /\ w.input = v.input /\ w.born = v.born
  <2>1. /\ v.pc = from /\ Turned(p, to) /\ w.out[m] = x
        /\ \A k \in Member \ {m} : w.out[k] = v.out[k]
    BY <1>5, ReadStep DEF Froms
  <2> QED
    BY <2>1 DEF Turned
\* It is enough to look at where it is cut.
<1>6. ASSUME NEW to \in {"title", "code", "fault", "done"}, Turned(p, to),
             Asking(v) /\ Mixes(table, v) =>
                /\ to \in DOMAIN Settled[v.kind]
                /\ Cut(table, w, Settled[v.kind][to])
                /\ to = "title" => w.out["http"] \in {HTTPStatusOf(v.born), HTTPStatusOf(e)}
      PROVE  MInv'
  <2>1. w.pc = to /\ w.kind = v.kind /\ w.input = v.input /\ w.born = v.born
    BY <1>6 DEF Turned
  <2>2. Asking(v) /\ Mixes(table, v) => Mixes(table, w)
    BY <1>2, <1>6, <2>1 DEF Mixes
  <2> QED
    BY <1>6, <2>2, TurnedMixes
\* The next member is read from the entry as it is.
<1>7. ASSUME NEW from \in Froms, NEW m \in Member, NEW x, NEW to, NEW n \in Nat,
             Read(p, from, m, x, to), x = MemberOf(m, v.input, e),
             Mixes(table, v), n = Settled[v.kind][from], m = Reads[v.kind][n + 1],
             \A i \in 1..n : Reads[v.kind][i] \in Member \ {m}
      PROVE  Cut(table, w, n + 1)
  <2>1. /\ v.pc = from /\ Turned(p, to) /\ w.out[m] = x
        /\ \A k \in Member \ {m} : w.out[k] = v.out[k]
    BY <1>5, <1>7, Zenon
  <2>2. Cut(table, v, n)
    BY <1>7, <2>1 DEF Mixes
  <2> QED
    BY <1>3, <1>7, <2>1, <2>2, ReadCuts
<1>8. CASE ReadHTTPStatus(p)
  <2>1. Read(p, "http", "http", HTTPStatusOf(e), "title")
    BY <1>3, <1>8 DEF ReadHTTPStatus
  <2>2. /\ v.pc = "http" /\ Turned(p, "title") /\ w.out["http"] = HTTPStatusOf(e)
        /\ w.kind = v.kind
    BY <1>4, <1>5, <2>1
  <2>3. v.kind \in {"From", "PublicMessage"}
    BY <1>2, <2>2 DEF Kinds
  <2>4. ASSUME Mixes(table, v) PROVE Cut(table, w, Settled[v.kind]["title"])
    <3>1. CASE v.kind = "From"
      <4>1. Reads["From"][1] = "http" /\ Settled["From"]["http"] = 0
            /\ Settled["From"]["title"] = 0 + 1 /\ 0 \in Nat
        BY DEF Reads, Settled
      <4>2. HTTPStatusOf(e) = MemberOf("http", v.input, e)
        BY DEF MemberOf
      <4>3. \A i \in 1..0 : Reads[v.kind][i] \in Member \ {"http"}
        OBVIOUS
      <4>4. /\ 0 = Settled[v.kind]["http"] /\ "http" = Reads[v.kind][0 + 1]
            /\ "http" \in Froms /\ "http" \in Member
        BY <1>4, <3>1, <4>1
      <4>5. Cut(table, w, 0 + 1)
        BY <1>7, <2>1, <2>4, <4>1, <4>2, <4>3, <4>4, Zenon
      <4> QED
        BY <3>1, <4>1, <4>5
    <3>2. CASE v.kind = "PublicMessage"
      <4>1. Settled[v.kind]["title"] = 0
        BY <3>2 DEF Settled
      <4> QED
        BY <4>1 DEF Cut
    <3> QED
      BY <2>3, <3>1, <3>2
  <2>5. "title" \in DOMAIN Settled[v.kind]
    BY <2>3 DEF Settled
  <2> QED
    BY <1>6, <2>2, <2>4, <2>5
<1>9. CASE ReadTitle(p)
  <2> DEFINE h == v.out["http"]
             x == IF h \in DOMAIN StatusText THEN StatusText[h] ELSE StringOf(e)
             to == IF v.kind = "From" THEN "code" ELSE "done"
             Title(b) == MemberOf("title", v.input, b)
  <2>1. Read(p, "title", "title", x, to)
    BY <1>3, <1>9 DEF ReadTitle
  <2>2. /\ v.pc = "title" /\ Turned(p, to) /\ w.out["title"] = x
        /\ \A k \in Member \ {"title"} : w.out[k] = v.out[k]
        /\ w.kind = v.kind /\ w.input = v.input /\ w.born = v.born
    <3> HIDE DEF x, to
    <3> QED
      BY <1>4, <1>5, <2>1
  <2>3. v.kind \in {"From", "PublicMessage"}
    BY <1>2, <2>2 DEF Kinds
  \* If the status is that of the entry it began with, then so is the title.
  <2>4. ASSUME Mixes(table, v), h = HTTPStatusOf(v.born) PROVE x = Title(v.born)
    <3>1. CASE h \in DOMAIN StatusText
      BY <2>4, <3>1 DEF MemberOf
    <3>2. CASE h \notin DOMAIN StatusText
      <4>1. v.born # Absent
        BY <2>4, <3>2, ConversionsAssumption DEF HTTPStatusOf
      <4>2. e = v.born
        BY <2>4, <4>1 DEF Mixes
      <4> QED
        BY <2>4, <3>2, <4>2 DEF MemberOf
    <3> QED
      BY <3>1, <3>2
  <2>5. ASSUME h = HTTPStatusOf(e) PROVE x = Title(e)
    BY <2>5 DEF MemberOf
  <2>6. ASSUME Mixes(table, v) PROVE h \in {HTTPStatusOf(v.born), HTTPStatusOf(e)}
    BY <2>2, <2>6 DEF Mixes
  <2> HIDE DEF x
  <2>7. ASSUME Mixes(table, v) PROVE Cut(table, w, Settled[v.kind][to])
    <3>1. CASE v.kind = "From"
      <4>1. Reads["From"][1] = "http" /\ Reads["From"][2] = "title"
            /\ Settled["From"]["title"] = 1 /\ Settled["From"]["code"] = 2
        BY DEF Reads, Settled
      <4>2. Cut(table, v, 1)
        BY <2>2, <2>7, <3>1, <4>1 DEF Mixes
      <4>3. w.out["http"] = h
        BY <1>4, <2>2
      <4>4. CASE h = HTTPStatusOf(v.born)
        <5>1. h = MemberOf("http", v.input, v.born) /\ x = Title(v.born)
          BY <2>4, <2>7, <4>4 DEF MemberOf
        <5>2. \A i \in 1..2 : w.out[Reads["From"][i]] =
                                 MemberOf(Reads["From"][i], v.input, v.born)
          BY <2>2, <4>1, <4>3, <5>1
        <5>3. Cut(table, w, 2)
          BY <2>2, <3>1, <5>2 DEF Cut
        <5> QED
          BY <3>1, <4>1, <5>3
      <4>5. CASE h = HTTPStatusOf(e)
        <5>1. h = MemberOf("http", v.input, e) /\ x = Title(e)
          BY <2>5, <4>5 DEF MemberOf
        <5>2. \A i \in 1..2 : w.out[Reads["From"][i]] = MemberOf(Reads["From"][i], v.input, e)
          BY <2>2, <4>1, <4>3, <5>1
        <5>3. Cut(table, w, 2)
          BY <2>2, <3>1, <5>2 DEF Cut
        <5> QED
          BY <3>1, <4>1, <5>3
      <4> QED
        BY <2>6, <2>7, <4>4, <4>5
    <3>2. CASE v.kind = "PublicMessage"
      <4>1. Reads["PublicMessage"][1] = "title" /\ Settled["PublicMessage"]["done"] = 1
        BY DEF Reads, Settled
      <4>2. x = Title(v.born) \/ x = Title(e)
        BY <2>4, <2>5, <2>6, <2>7
      <4>3. Cut(table, w, 1)
        BY <2>2, <3>2, <4>1, <4>2 DEF Cut
      <4> QED
        BY <3>2, <4>1, <4>3
    <3> QED
      BY <2>3, <3>1, <3>2
  <2>8. to \in {"code", "done"} /\ to \in DOMAIN Settled[v.kind]
    BY <2>3 DEF Settled
  <2> HIDE DEF to
  <2> QED
    BY <1>6, <2>2, <2>7, <2>8
<1>10. CASE ReadCodeName(p)
  <2> DEFINE to == IF v.kind = "RecordSpan" THEN "fault" ELSE "done"
  <2>1. Read(p, "code", "code", StringOf(e), to)
    BY <1>3, <1>10 DEF ReadCodeName
  <2>2. v.pc = "code" /\ Turned(p, to) /\ w.kind = v.kind
    <3> HIDE DEF to
    <3> QED
      BY <1>4, <1>5, <2>1
  <2>3. v.kind \in {"From", "RecordSpan"}
    BY <1>2, <2>2 DEF Kinds
  <2>4. StringOf(e) = MemberOf("code", v.input, e)
    BY DEF MemberOf
  <2>5. ASSUME Mixes(table, v) PROVE Cut(table, w, Settled[v.kind][to])
    <3>1. CASE v.kind = "From"
      <4>1. /\ 2 = Settled[v.kind]["code"] /\ "code" = Reads[v.kind][2 + 1] /\ 2 \in Nat
            /\ Settled[v.kind][to] = 2 + 1
        BY <3>1 DEF Reads, Settled
      <4>2. \A i \in 1..2 : Reads[v.kind][i] \in Member \ {"code"}
        BY <3>1 DEF Reads, Member
      <4>3. "code" \in Froms /\ "code" \in Member
        BY <1>4
      <4> HIDE DEF to
      <4>4. Cut(table, w, 2 + 1)
        BY <1>7, <2>1, <2>4, <2>5, <4>1, <4>2, <4>3, Zenon
      <4> QED
        BY <4>1, <4>4
    <3>2. CASE v.kind = "RecordSpan"
      <4>1. /\ 0 = Settled[v.kind]["code"] /\ "code" = Reads[v.kind][0 + 1] /\ 0 \in Nat
            /\ Settled[v.kind][to] = 0 + 1
        BY <3>2 DEF Reads, Settled
      <4>2. \A i \in 1..0 : Reads[v.kind][i] \in Member \ {"code"}
        OBVIOUS
      <4>3. "code" \in Froms /\ "code" \in Member
        BY <1>4
      <4> HIDE DEF to
      <4>4. Cut(table, w, 0 + 1)
        BY <1>7, <2>1, <2>4, <2>5, <4>1, <4>2, <4>3, Zenon
      <4> QED
        BY <4>1, <4>4
    <3> QED
      BY <2>3, <3>1, <3>2
  <2>6. to \in {"fault", "done"} /\ to \in DOMAIN Settled[v.kind]
    BY <2>3 DEF Settled
  <2> HIDE DEF to
  <2> QED
    BY <1>6, <2>2, <2>5, <2>6
<1>11. CASE ReadFault(p)
  <2> DEFINE x == GRPCCodeOf(e) \in ServerFault
  <2>1. Read(p, "fault", "fault", x, "done")
    BY <1>3, <1>11 DEF ReadFault
  <2>2. x = MemberOf("fault", v.input, e)
    BY DEF MemberOf
  <2> HIDE DEF x
  <2>3. v.pc = "fault" /\ Turned(p, "done") /\ w.kind = v.kind
    BY <1>4, <1>5, <2>1
  <2>4. v.kind = "RecordSpan"
    BY <1>2, <2>3 DEF Kinds
  <2>5. ASSUME Mixes(table, v) PROVE Cut(table, w, 1 + 1)
    <3>1. 1 = Settled[v.kind]["fault"] /\ "fault" = Reads[v.kind][1 + 1] /\ 1 \in Nat
      BY <2>4 DEF Reads, Settled
    <3>2. \A i \in 1..1 : Reads[v.kind][i] \in Member \ {"fault"}
      BY <2>4 DEF Reads, Member
    <3>3. "fault" \in Froms /\ "fault" \in Member
      BY <1>4
    <3> QED
      BY <1>7, <2>1, <2>2, <2>5, <3>1, <3>2, <3>3, Zenon
  <2>6. "done" \in DOMAIN Settled[v.kind] /\ Settled[v.kind]["done"] = 1 + 1
    BY <2>4 DEF Settled
  <2> QED
    BY <1>6, <2>3, <2>5, <2>6
<1> QED
  BY <1>8, <1>9, <1>10, <1>11

\* A conversion begins or ends, or recovers a code.
LEMMA OtherMixes ==
    ASSUME IInv, MInv, NEW p \in Goroutines,
           Begin(p) \/ Finish(p) \/ NextDetail(p) \/ CheckWire(p)
    PROVE  MInv'
<1> DEFINE v == conv[p]
           w == conv'[p]
<1>1. Fits(table, v) /\ Shape(v) /\ conv = [q \in Goroutines |-> conv[q]]
  BY DEF IInv, Fits
\* Nobody else is touched.
<1>2. ASSUME UNCHANGED regVars, \A q \in Goroutines \ {p} : conv'[q] = conv[q],
             Asking(w) => Mixes(table, w)
      PROVE  MInv'
  <2>1. table' = table
    BY <1>2 DEF regVars
  <2> QED
    BY <1>2, <2>1 DEF MInv
<1>3. ASSUME NEW kind, NEW pc, NEW x, Start(p, kind, pc, x),
             \/ pc = "msg" /\ kind = "ToStatus"
             \/ pc = "http" /\ kind \in {"From", "PublicMessage"}
             \/ pc = "code" /\ kind = "RecordSpan"
             \/ pc = "detail" /\ kind = "FromStatus"
      PROVE  MInv'
  <2> DEFINE b == IF kind = "FromStatus" THEN Absent ELSE table[x.code]
             clean == [m \in Member |-> Unset]
  <2>1. /\ UNCHANGED regVars
        /\ conv' = [conv EXCEPT ![p] = [NoConversion EXCEPT
                      !.pc = pc, !.kind = kind, !.input = x, !.born = b]]
    BY <1>3 DEF Start
  <2> HIDE DEF b
  <2>2. w = [pc |-> pc, kind |-> kind, input |-> x, born |-> b, i |-> 0, out |-> clean]
    BY <1>1, <2>1 DEF NoConversion
  <2>3. \A q \in Goroutines \ {p} : conv'[q] = conv[q]
    BY <1>1, <2>1
  <2>4. w.pc = pc /\ w.kind = kind /\ w.input = x /\ w.born = b /\ w.out = clean
    BY <2>2
  <2>5. ASSUME Asking(w) PROVE Mixes(table, w)
    <3>1. kind # "FromStatus"
      BY <2>4, <2>5 DEF Asking, Reads
    <3>2. b = table[x.code]
      BY <3>1 DEF b
    <3>3. pc \in DOMAIN Settled[kind] /\ Settled[kind][pc] = 0 /\ pc # "title"
      BY <1>3, <3>1 DEF Settled
    <3>4. Cut(table, w, 0)
      BY DEF Cut
    <3>5. kind = "ToStatus" => MixesInfo(table, w)
      BY <1>3, <2>4 DEF MixesInfo, Member
    <3> QED
      BY <2>4, <3>2, <3>3, <3>4, <3>5 DEF Mixes
  <2> QED
    BY <1>2, <2>1, <2>3, <2>5
<1>4. ASSUME NEW e \in Errors, PublicMessage(p, e) PROVE MInv'
  <2>1. CASE e.public = Absent
    BY <1>3, <1>4, <2>1 DEF PublicMessage
  <2>2. CASE e.public # Absent
    <3>1. /\ UNCHANGED regVars
          /\ conv' = [conv EXCEPT ![p] = [NoConversion EXCEPT
                        !.pc = "done", !.kind = "PublicMessage", !.input = e,
                        !.born = table[e.code], !.out["title"] = e.public]]
      BY <1>4, <2>2 DEF PublicMessage
    <3>2. \A q \in Goroutines \ {p} : conv'[q] = conv[q]
      BY <1>1, <3>1
    <3>3. w.kind = "PublicMessage" /\ w.input = e
      BY <1>1, <3>1 DEF NoConversion
    <3>4. ~ Asking(w)
      BY <2>2, <3>3 DEF Asking
    <3> QED
      BY <1>2, <3>1, <3>2, <3>4
  <2> QED
    BY <2>1, <2>2
<1>5. CASE Begin(p)
  BY <1>3, <1>4, <1>5 DEF Begin, ToStatus, From, RecordSpan, FromStatus
<1>6. CASE Finish(p)
  <2>1. /\ UNCHANGED regVars /\ w = NoConversion
        /\ \A q \in Goroutines \ {p} : conv'[q] = conv[q]
    BY <1>1, <1>6 DEF Finish
  <2>2. ~ Asking(w)
    BY <2>1 DEF Asking, Reads, NoConversion
  <2> QED
    BY <1>2, <2>1, <2>2
<1>7. CASE NextDetail(p) \/ CheckWire(p)
  <2>1. v.kind = "FromStatus"
    <3>1. v.pc \in {"detail", "wire"}
      BY <1>7 DEF NextDetail, CheckWire
    <3> QED
      BY <1>1, <3>1 DEF Fits, Kinds
  <2>2. UNCHANGED regVars
    BY <1>7 DEF NextDetail, CheckWire
  <2>3. w.kind = v.kind /\ \A q \in Goroutines \ {p} : conv'[q] = conv[q]
    <3>1. CASE CheckWire(p)
      BY <1>1, <3>1 DEF CheckWire, Shape
    <3>2. CASE NextDetail(p)
      <4> DEFINE s == v.input
                 i == v.i + 1
      <4>1. CASE conv' = [conv EXCEPT ![p].out["result"] = WireCode(s), ![p].pc = "done"]
        BY <1>1, <4>1 DEF Shape
      <4>2. CASE conv' = [conv EXCEPT ![p].i = i]
        BY <1>1, <4>2 DEF Shape
      <4>3. ASSUME NEW c \in Code, conv' = [conv EXCEPT ![p].i = i, ![p].pc = "wire",
                                                       ![p].out["candidate"] = c]
            PROVE  w.kind = v.kind /\ \A q \in Goroutines \ {p} : conv'[q] = conv[q]
        BY <1>1, <4>3 DEF Shape
      <4> QED
        BY <3>2, <4>1, <4>2, <4>3 DEF NextDetail
    <3> QED
      BY <1>7, <3>1, <3>2
  <2>4. ~ Asking(w)
    BY <2>1, <2>3 DEF Asking, Reads
  <2> QED
    BY <1>2, <2>2, <2>3, <2>4
<1> QED
  BY <1>5, <1>6, <1>7

LEMMA NextMInv == IInv /\ MInv /\ [Next]_vars => MInv'
<1> SUFFICES ASSUME IInv, MInv, [Next]_vars PROVE MInv'
  OBVIOUS
<1>1. CASE Reg!Next /\ UNCHANGED conv
  <2>1. Grows(table, table')
    BY <1>1, RegistryStep
  <2>2. ASSUME NEW p \in Goroutines, Asking(conv[p]) PROVE Mixes(table', conv[p])
    <3>1. Fits(table, conv[p]) /\ conv[p].kind \in DOMAIN Reads
      BY <2>2 DEF IInv, Asking
    <3>2. conv[p].input.code \in Code
      BY <3>1, ConversionsAssumption DEF Fits, NoConversion, Reads, Err
    <3> QED
      BY <2>1, <2>2, <3>2, MixesGrows DEF MInv
  <2> QED
    BY <1>1, <2>2 DEF MInv
<1>2. ASSUME NEW p \in Goroutines, Begin(p) \/ Lookup(p) \/ Finish(p) PROVE MInv'
  BY <1>2, StatusMixes, AnswerMixes, OtherMixes DEF Lookup
<1>3. CASE UNCHANGED vars
  BY <1>3 DEF vars, MInv
<1> QED
  BY <1>1, <1>2, <1>3 DEF Next

\* A conversion that one registration overtakes shows the answers from before
\* it up to one point and those from after it from there on; whatever a code
\* was registered as when a conversion began is what all of it shows.
THEOREM OneCutCorrect == Spec => []OneCut
<1>1. Init => MInv
  BY DEF Init, MInv, Asking, Reads, NoConversion
<1>2. MInv => OneCut
  <2> SUFFICES ASSUME MInv, NEW p \in Goroutines, Asking(conv[p]), conv[p].pc = "done"
               PROVE  \E cut \in 0..Len(Reads[conv[p].kind]) :
                         \A i \in 1..Len(Reads[conv[p].kind]) :
                            conv[p].out[Reads[conv[p].kind][i]] =
                               MemberOf(Reads[conv[p].kind][i], conv[p].input,
                                        IF i <= cut THEN conv[p].born ELSE Looked(p))
    BY DEF OneCut, Asking
  <2>1. Cut(table, conv[p], Settled[conv[p].kind]["done"])
    BY DEF MInv, Mixes
  <2>2. Settled[conv[p].kind]["done"] = Len(Reads[conv[p].kind])
    <3>1. CASE conv[p].kind = "ToStatus"
      BY <3>1 DEF Settled, Reads
    <3>2. CASE conv[p].kind = "From"
      BY <3>2 DEF Settled, Reads
    <3>3. CASE conv[p].kind = "PublicMessage"
      BY <3>3 DEF Settled, Reads
    <3>4. CASE conv[p].kind = "RecordSpan"
      BY <3>4 DEF Settled, Reads
    <3> QED
      BY <3>1, <3>2, <3>3, <3>4 DEF Asking, Reads
  <2> QED
    BY <2>1, <2>2 DEF Cut, Looked
<1> QED
  BY <1>1, <1>2, InitIInv, NextIInv, NextMInv, PTL DEF Spec

=============================================================================
