---------------------------- MODULE ErrorsProofs ----------------------------
(***************************************************************************)
(* Proofs about Errors, for any goroutines, calls, capacities and number   *)
(* of errors: builders write only to arrays that nobody else can see, and  *)
(* so no error ever changes and every call is, on values, one step of      *)
(* ErrorValues.  And about Collecting: what a caller gathers from an       *)
(* error's chain is in an array of the caller's own, which neither the     *)
(* builders nor another caller's result read or write.                     *)
(***************************************************************************)
EXTENDS Collecting, SequenceTheorems, TLAPS

----------------------------------------------------------------------------
(* The inductive invariant.                                                *)

\* The slices of an error, or of a copy, are slices of arrays there are, and
\* no longer than these.
Size(a) == IF a = 0 THEN 0 ELSE Len(arrays[a])
Within(s) == s.array \in 0..Len(arrays) /\ s.len <= Size(s.array)
Bound(x) == x.slices \in [Part -> Slice] /\ \A p \in Part : Within(x.slices[p])

Call == [pc: {"idle", "set", "store", "return"}, op: Ops \cup {NoOp}, e: Nat, cp: Struct]

Bounded ==
    /\ errors \in Seq(Struct)
    /\ \A i \in 1..Len(errors) : Bound(errors[i])
    /\ arrays \in Seq(Seq(Data \cup {Unset}))
    /\ call \in [Goroutines -> Call]
    /\ \A g \in Goroutines :
          /\ Bound(call[g].cp)
          /\ call[g].pc # "idle" => call[g].op \in Ops
          /\ call[g].pc = "store" => call[g].op.kind \in Part

\* A goroutine about to store its items has the array to itself: "cp" alone
\* refers to it, and only by the slice the items go to.
Target(g) == call[g].cp.slices[call[g].op.kind].array
Storing(g) == call[g].pc = "store" /\ call[g].op.items # <<>>
Private ==
    \A g \in Goroutines : Storing(g) =>
        /\ Target(g) # 0
        /\ \A i \in 1..Len(errors) : ~Reads(errors[i], Target(g))
        /\ \A h \in Goroutines \ {g} : ~Reads(call[h].cp, Target(g))

IInv == Bounded /\ Private

USE ErrorOpsAssumption, ErrorsAssumption

LEMMA FreshType ==
    ASSUME NEW o, o.value \in Data \cup {Unset}, o.msg \in Data \cup {Unset},
           NEW e \in Nat, NEW f \in Nat
    PROVE  /\ Fresh(o, e, f, NilSlice) \in Struct
           /\ Fresh(o, e, f, NilSlice).slices = [p \in Part |-> NilSlice]
<1>1. NilSlice \in Slice
  BY DEF NilSlice, Slice
<1>2. [p \in Part |-> NilSlice] \in [Part -> Slice]
  BY <1>1
<1>3. FALSE \in BOOLEAN /\ 0 \in Int /\ Unset \in Data \cup {Unset}
  OBVIOUS
<1>4. Fresh(o, e, f, NilSlice) \in Struct
  BY <1>2, <1>3, Zenon DEF Fresh, Struct
<1> QED
  BY <1>4, Zenon DEF Fresh

LEMMA FreshBound ==
    ASSUME NEW o, o.value \in Data \cup {Unset}, o.msg \in Data \cup {Unset},
           NEW e \in Nat, NEW f \in Nat,
           arrays \in Seq(Seq(Data \cup {Unset}))
    PROVE  Bound(Fresh(o, e, f, NilSlice))
<1>1. [p \in Part |-> NilSlice] \in [Part -> Slice] /\ Within(NilSlice)
  BY DEF NilSlice, Slice, Within, Size
<1>2. Fresh(o, e, f, NilSlice).slices = [p \in Part |-> NilSlice]
  BY FreshType
<1> QED
  BY <1>1, <1>2 DEF Bound

LEMMA IdleType ==
    ASSUME arrays \in Seq(Seq(Data \cup {Unset}))
    PROVE  /\ Idle \in Call /\ Idle.pc = "idle" /\ Bound(Idle.cp)
           /\ \A p \in Part : Idle.cp.slices[p].array = 0
<1>1. NoOp.value \in Data \cup {Unset} /\ NoOp.msg \in Data \cup {Unset}
  BY DEF NoOp
<1>2. /\ Fresh(NoOp, 0, 0, NilSlice) \in Struct /\ Bound(Fresh(NoOp, 0, 0, NilSlice))
      /\ Fresh(NoOp, 0, 0, NilSlice).slices = [p \in Part |-> NilSlice]
  BY <1>1, FreshType, FreshBound
<1>3. Idle \in Call /\ Idle.pc = "idle" /\ Idle.cp = Fresh(NoOp, 0, 0, NilSlice)
  BY <1>2 DEF Idle, Call
<1> QED
  BY <1>2, <1>3 DEF NilSlice

LEMMA InitIInv == Init => IInv
<1> SUFFICES ASSUME Init PROVE IInv
  OBVIOUS
<1>2. arrays = <<>> /\ arrays \in Seq(Seq(Data \cup {Unset}))
  BY DEF Init
<1>3. errors = <<>> /\ errors \in Seq(Struct)
  BY DEF Init
<1>4. ASSUME NEW g \in Goroutines
      PROVE  call[g] \in Call /\ Bound(call[g].cp) /\ call[g].pc = "idle"
  BY <1>2, IdleType DEF Init
<1>5. call \in [Goroutines -> Call]
  BY <1>4 DEF Init
<1> QED
  BY <1>2, <1>3, <1>4, <1>5 DEF IInv, Bounded, Private, Storing

----------------------------------------------------------------------------
(* Steps that only build a copy.                                           *)

\* Slices stay within their arrays.
Kept == arrays' \in Seq(Seq(Data \cup {Unset})) /\ \A x : Bound(x) => Bound(x)'

LEMMA SameArrays == ASSUME IInv, arrays' = arrays PROVE Kept
BY DEF IInv, Bounded, Kept, Bound, Within, Size

\* A state of g's call whose copy has no slice but those of an error, of g's
\* copy so far, or the nil one, and which stores nothing.
CopyOf(c, g) ==
    /\ c \in Call /\ Bound(c.cp)
    /\ c.pc # "idle" => c.op \in Ops
    /\ c.pc = "store" => c.op.kind \in Part /\ c.op.items = <<>>
    /\ \A p \in Part :
          \/ c.cp.slices[p].array = 0
          \/ \E q \in Part : c.cp.slices[p].array = call[g].cp.slices[q].array
          \/ \E i \in 1..Len(errors), q \in Part :
                c.cp.slices[p].array = errors[i].slices[q].array

\* A step of g that leaves errors alone and goes on with such a copy.
LEMMA CopyStep ==
    ASSUME IInv, errors' = errors, Kept,
           NEW g \in Goroutines, NEW c, call' = [call EXCEPT ![g] = c], CopyOf(c, g)
    PROVE  IInv'
<1>1. c \in Call /\ Bound(c.cp) /\ (c.pc # "idle" => c.op \in Ops)
  BY DEF CopyOf
<1>2. c.pc = "store" => c.op.kind \in Part /\ c.op.items = <<>>
  BY DEF CopyOf
<1>3. \A p \in Part :
         \/ c.cp.slices[p].array = 0
         \/ \E q \in Part : c.cp.slices[p].array = call[g].cp.slices[q].array
         \/ \E i \in 1..Len(errors), q \in Part :
               c.cp.slices[p].array = errors[i].slices[q].array
  BY DEF CopyOf
<1>4. call' \in [Goroutines -> Call] /\ call'[g] = c /\ \A h \in Goroutines \ {g} : call'[h] = call[h]
  BY <1>1 DEF IInv, Bounded
<1>5. Bound(c.cp)' /\ \A x : Bound(x) => Bound(x)'
  BY <1>1 DEF Kept
<1>6. Bounded'
  <2>1. \A i \in 1..Len(errors) : Bound(errors[i])'
    BY <1>5 DEF IInv, Bounded
  <2>2. \A h \in Goroutines : Bound(call[h].cp)'
    BY <1>4, <1>5 DEF IInv, Bounded
  <2> QED
    BY <1>1, <1>2, <1>4, <2>1, <2>2 DEF IInv, Bounded, Kept
<1>7. ASSUME NEW h \in Goroutines, Storing(h)'
      PROVE  /\ Target(h)' # 0
             /\ \A i \in 1..Len(errors) : ~Reads(errors[i], Target(h))'
             /\ \A k \in Goroutines \ {h} : ~Reads(call[k].cp, Target(h))'
  <2>1. h # g
    BY <1>2, <1>4, <1>7 DEF Storing
  <2>2. Storing(h) /\ Target(h)' = Target(h) /\ call'[h] = call[h]
    BY <1>4, <1>7, <2>1 DEF Storing, Target
  <2>3. /\ \A i \in 1..Len(errors) : ~Reads(errors[i], Target(h))
        /\ \A k \in Goroutines \ {h} : ~Reads(call[k].cp, Target(h))
    BY <2>2 DEF IInv, Private
  <2>4. Target(h) # 0
    BY <2>2 DEF IInv, Private
  <2>5. ~Reads(c.cp, Target(h))
    BY <1>3, <2>1, <2>3, <2>4 DEF Reads
  <2>6. \A k \in Goroutines \ {h} : ~Reads(call'[k].cp, Target(h))
    BY <1>4, <2>3, <2>5
  <2> QED
    BY <2>2, <2>3, <2>4, <2>6 DEF Reads
<1> QED
  BY <1>6, <1>7 DEF IInv, Private

LEMMA CallerType == \A skip \in Int : Caller(skip) \in Nat
<1>1. \A n \in Int : Callers(n) \in Nat
  BY DEF Callers
<1>2. \A skip \in Int : Plus(3, skip) \in Int
  BY DEF Plus
<1> QED
  BY <1>1, <1>2 DEF Caller

LEMMA CopyKeeps ==
    ASSUME IInv, NEW g \in Goroutines, NEW o \in Ops, NEW e \in Bases(o, Len(errors)),
           Copy(g, o, e)
    PROVE  IInv'
<1> DEFINE c == call'[g]
<1>0. /\ errors \in Seq(Struct) /\ arrays \in Seq(Seq(Data \cup {Unset}))
      /\ call \in [Goroutines -> Call] /\ e \in 0..Len(errors) /\ o \in Op
      /\ \A i \in 1..Len(errors) : Bound(errors[i])
  BY ErrorOpsAssumption DEF IInv, Bounded, Bases
<1>1. /\ errors' = errors /\ arrays' = arrays
      /\ c.pc = (IF Constructs(o) THEN "return" ELSE "set") /\ c.op = o
      /\ c.cp = (CASE o.kind = "New" -> Fresh(o, 0, Caller(o.skip), NilSlice)
                   [] o.kind = "Wrap" -> Fresh(o, e, Caller(o.skip), NilSlice)
                   [] OTHER -> errors[e])
      /\ c = [pc |-> c.pc, op |-> c.op, e |-> e, cp |-> c.cp]
      /\ call' = [call EXCEPT ![g] = c]
  BY <1>0 DEF Copy
<1>2. o.value \in Data \cup {Unset} /\ o.msg \in Data \cup {Unset} /\ o.skip \in Int
  BY <1>0 DEF Op
<1>3. /\ c \in Call /\ Bound(c.cp) /\ c.pc \in {"set", "return"} /\ c.op \in Ops
      /\ \A p \in Part :
            \/ c.cp.slices[p].array = 0
            \/ \E i \in 1..Len(errors), q \in Part :
                  c.cp.slices[p].array = errors[i].slices[q].array
  <2>1. CASE Constructs(o)
    <3>1. PICK b \in Nat : c.cp = Fresh(o, b, Caller(o.skip), NilSlice)
      <4>1. o.kind = "New" \/ o.kind = "Wrap"
        BY <2>1 DEF Constructs
      <4>2. c.cp = Fresh(o, 0, Caller(o.skip), NilSlice) \/ c.cp = Fresh(o, e, Caller(o.skip), NilSlice)
        BY <1>1, <4>1
      <4> HIDE DEF c
      <4> QED
        BY <1>0, <4>2
    <3>2. Caller(o.skip) \in Nat
      BY <1>2, CallerType
    <3>3. c.cp \in Struct /\ Bound(c.cp) /\ c.cp.slices = [p \in Part |-> NilSlice]
      BY <1>0, <1>2, <3>1, <3>2, FreshType, FreshBound
    <3>4. \A p \in Part : c.cp.slices[p].array = 0
      BY <3>3 DEF NilSlice
    <3>5. c \in Call /\ c.pc = "return" /\ c.op = o
      <4>1. c.pc \in {"idle", "set", "store", "return"} /\ c.op \in Ops \cup {NoOp} /\ e \in Nat
        BY <1>0, <1>1, <2>1
      <4> HIDE DEF c
      <4> QED
        BY <1>1, <2>1, <3>3, <4>1 DEF Call
    <3> HIDE DEF c
    <3> QED
      BY <3>3, <3>4, <3>5
  <2>2. CASE ~Constructs(o)
    <3>1. e \in 1..Len(errors) /\ c.cp = errors[e]
      BY <1>0, <1>1, <2>2 DEF Copy, Refuses, Constructs
    <3>2. c.cp \in Struct /\ Bound(c.cp)
      BY <1>0, <3>1
    <3>3. \A p \in Part : \E i \in 1..Len(errors), q \in Part :
             c.cp.slices[p].array = errors[i].slices[q].array
      BY <3>1
    <3>4. c \in Call /\ c.pc = "set" /\ c.op = o
      <4>1. c.pc \in {"idle", "set", "store", "return"} /\ c.op \in Ops \cup {NoOp} /\ e \in Nat
        BY <1>0, <1>1, <2>2
      <4> HIDE DEF c
      <4> QED
        BY <1>1, <2>2, <3>2, <4>1 DEF Call
    <3> HIDE DEF c
    <3> QED
      BY <3>2, <3>3, <3>4
  <2> QED
    BY <2>1, <2>2
<1>4. errors' = errors /\ Kept /\ call' = [call EXCEPT ![g] = c]
  BY <1>1, SameArrays
<1> HIDE DEF c
<1>5. CopyOf(c, g)
  BY <1>3 DEF CopyOf
<1> QED
  BY <1>4, <1>5, CopyStep

\* GoOn, as a whole record.
LEMMA GoOnCall ==
    ASSUME call \in [Goroutines -> Call], NEW g \in Goroutines, NEW pc \in {"set", "store", "return"},
           NEW cp \in Struct, GoOn(g, pc, cp)
    PROVE  LET c == [pc |-> pc, op |-> call[g].op, e |-> call[g].e, cp |-> cp]
           IN  c \in Call /\ call' = [call EXCEPT ![g] = c]
BY DEF GoOn, Call

LEMMA SetScalarKeeps ==
    ASSUME IInv, NEW g \in Goroutines, SetScalar(g)
    PROVE  IInv'
<1> DEFINE o == call[g].op
           x == call[g].cp
<1>0. /\ call \in [Goroutines -> Call] /\ call[g] \in Call /\ o \in Ops /\ o \in Op
      /\ x \in Struct /\ Bound(x) /\ errors' = errors /\ arrays' = arrays
  BY ErrorOpsAssumption DEF IInv, Bounded, SetScalar, Call
<1>1. PICK y \in Struct : y.slices = x.slices /\ GoOn(g, "return", y)
  <2>1. o.value \in Data \cup {Unset} /\ o.d \in Int
    BY <1>0 DEF Op
  <2>2. /\ [x EXCEPT !.code = o.value] \in Struct /\ [x EXCEPT !.code = o.value].slices = x.slices
        /\ [x EXCEPT !.public = o.value] \in Struct /\ [x EXCEPT !.public = o.value].slices = x.slices
        /\ [x EXCEPT !.delay = o.d] \in Struct /\ [x EXCEPT !.delay = o.d].slices = x.slices
    BY <1>0, <2>1 DEF Struct
  <2>3. [x EXCEPT !.barrier = TRUE] \in Struct /\ [x EXCEPT !.barrier = TRUE].slices = x.slices
    BY <1>0 DEF Struct
  <2> QED
    BY <2>2, <2>3 DEF SetScalar
<1> DEFINE c == [pc |-> "return", op |-> o, e |-> call[g].e, cp |-> y]
<1>2. c \in Call /\ call' = [call EXCEPT ![g] = c]
  BY <1>0, <1>1, GoOnCall
<1>3. c.cp = y /\ c.op = o /\ c.pc = "return" /\ Bound(y)
  BY <1>0, <1>1 DEF Bound
<1>4. \A p \in Part : y.slices[p].array = call[g].cp.slices[p].array
  BY <1>1
<1> HIDE DEF c
<1>5. CopyOf(c, g)
  BY <1>0, <1>2, <1>3, <1>4 DEF CopyOf
<1>6. errors' = errors /\ Kept
  BY <1>0, SameArrays
<1> QED
  BY <1>2, <1>5, <1>6, CopyStep

\* A copy with another slice as part p.
LEMMA WithType ==
    ASSUME NEW x \in Struct, NEW p \in Part, NEW s \in Slice
    PROVE  /\ With(x, p, s) \in Struct
           /\ With(x, p, s).slices = [x.slices EXCEPT ![p] = s]
BY DEF With, Struct

LEMMA NoItems == ASSUME NEW S, NEW q \in Seq(S), Len(q) <= 0 PROVE q = <<>>
OBVIOUS

\* What an append of the call's items finds.
LEMMA AppendType ==
    ASSUME IInv, NEW g \in Goroutines, call[g].pc = "set", call[g].op.kind \in Part
    PROVE  LET o == call[g].op
               s == call[g].cp.slices[o.kind]
           IN  /\ o \in Ops /\ o.items \in Seq(Data) /\ call[g].cp \in Struct /\ Bound(call[g].cp)
               /\ s \in Slice /\ s.len \in Nat /\ Len(o.items) \in Nat /\ Within(s)
               /\ Clip(s) = [array |-> s.array, len |-> s.len, cap |-> s.len]
<1> DEFINE o == call[g].op
           s == call[g].cp.slices[o.kind]
<1>1. o \in Ops /\ o \in Op /\ call[g].cp \in Struct /\ Bound(call[g].cp)
  BY ErrorOpsAssumption DEF IInv, Bounded, Call
<1>2. o.items \in Seq(Data) /\ s \in Slice /\ Within(s)
  BY <1>1 DEF Op, Bound
<1> HIDE DEF o, s
<1>3. s.len \in Nat /\ Len(o.items) \in Nat
  BY <1>2 DEF Slice
<1>4. Clip(s) = [array |-> s.array, len |-> s.len, cap |-> s.len]
  BY <1>2 DEF Clip, Slice
<1> QED
  BY <1>1, <1>2, <1>3, <1>4 DEF o, s

\* append to a clipped slice stays in place only if there is nothing to append.
LEMMA ExtendKeeps ==
    ASSUME IInv, NEW g \in Goroutines, Extend(g)
    PROVE  IInv'
<1> DEFINE o == call[g].op
           x == call[g].cp
           s == x.slices[o.kind]
           k == Len(o.items)
           t == [array |-> s.array, len |-> s.len + k, cap |-> s.len]
           y == With(x, o.kind, t)
           c == [pc |-> "store", op |-> o, e |-> call[g].e, cp |-> y]
<1>0. /\ call \in [Goroutines -> Call] /\ errors' = errors /\ arrays' = arrays
      /\ call[g].pc = "set" /\ o.kind \in Part
  BY DEF IInv, Bounded, Extend
<1>1. /\ o \in Ops /\ o.items \in Seq(Data) /\ x \in Struct /\ Bound(x)
      /\ s \in Slice /\ s.len \in Nat /\ k \in Nat /\ Within(s)
      /\ Clip(s) = [array |-> s.array, len |-> s.len, cap |-> s.len]
  BY <1>0, AppendType
<1>3. s.len + k <= s.len /\ GoOn(g, "store", y)
  <2>1. Clip(s).array = s.array /\ Clip(s).len = s.len /\ Clip(s).cap = s.len
    <3> HIDE DEF s
    <3> QED
      BY <1>1
  <2> QED
    BY <2>1 DEF Extend
<1>4. k = 0 /\ o.items = <<>>
  <2>1. k <= 0 /\ k = 0
    <3> HIDE DEF k, s
    <3> QED
      BY <1>1, <1>3
  <2>2. Len(o.items) <= 0
    BY <2>1
  <2> HIDE DEF o
  <2> QED
    BY <1>1, <2>1, <2>2, NoItems
<1>5. t \in Slice /\ t.array = s.array /\ Within(t)
  <2> HIDE DEF k, s
  <2> QED
    BY <1>1, <1>4 DEF Slice, Within
<1>6. y \in Struct /\ y.slices = [x.slices EXCEPT ![o.kind] = t]
  <2> HIDE DEF t
  <2> QED
    BY <1>0, <1>1, <1>5, WithType
<1>7. c \in Call /\ call' = [call EXCEPT ![g] = c]
  <2> HIDE DEF y
  <2> QED
    BY <1>0, <1>3, <1>6, GoOnCall
<1>8. \A p \in Part : y.slices[p].array = x.slices[p].array
  <2> HIDE DEF t, y
  <2> QED
    BY <1>0, <1>1, <1>5, <1>6 DEF Bound
<1>9. Bound(y)
  <2> HIDE DEF t, y
  <2> QED
    BY <1>0, <1>1, <1>5, <1>6 DEF Bound
<1>10. c.cp = y /\ c.op = o /\ c.pc = "store"
  OBVIOUS
<1> HIDE DEF c, y, t
<1>11. c.op \in Ops /\ c.op.kind \in Part /\ c.op.items = <<>> /\ Bound(c.cp) /\ c \in Call
  BY <1>0, <1>1, <1>4, <1>7, <1>9, <1>10
<1>12. CopyOf(c, g)
  BY <1>8, <1>10, <1>11 DEF CopyOf
<1>13. errors' = errors /\ Kept /\ call' = [call EXCEPT ![g] = c]
  BY <1>0, <1>7, SameArrays
<1> HIDE DEF o, x, s, k
<1> QED
  BY <1>12, <1>13, CopyStep

----------------------------------------------------------------------------
(* Steps on memory.                                                        *)

\* A new array belongs to the one who made it.
LEMMA GrowKeeps ==
    ASSUME IInv, NEW g \in Goroutines, Grow(g)
    PROVE  IInv'
<1> DEFINE o == call[g].op
           x == call[g].cp
           s == x.slices[o.kind]
           k == Len(o.items)
           n == s.len + k
           new == Len(arrays) + 1
<1>0. /\ call \in [Goroutines -> Call] /\ errors' = errors /\ errors \in Seq(Struct)
      /\ arrays \in Seq(Seq(Data \cup {Unset})) /\ call[g].pc = "set" /\ o.kind \in Part
      /\ \A i \in 1..Len(errors) : Bound(errors[i])
      /\ \A h \in Goroutines : Bound(call[h].cp)
  BY DEF IInv, Bounded, Grow
<1>21. new \in Nat
  BY <1>0
<1>1. /\ o \in Ops /\ o.items \in Seq(Data) /\ x \in Struct /\ Bound(x)
      /\ s \in Slice /\ s.len \in Nat /\ k \in Nat /\ Within(s)
      /\ Clip(s) = [array |-> s.array, len |-> s.len, cap |-> s.len]
  BY <1>0, AppendType
<1>2. Clip(s).array = s.array /\ Clip(s).len = s.len
  <2> HIDE DEF s
  <2> QED
    BY <1>1
<1>3. PICK slack \in 0..MaxSlack :
         /\ arrays' = Append(arrays, [i \in 1..(n + slack) |->
                         IF i <= s.len THEN Elements(Clip(s))[i] ELSE Unset])
         /\ GoOn(g, "store", With(x, o.kind, [array |-> new, len |-> n, cap |-> n + slack]))
  BY <1>2 DEF Grow
<1> DEFINE m == n + slack
           t == [array |-> new, len |-> n, cap |-> m]
           y == With(x, o.kind, t)
           c == [pc |-> "store", op |-> o, e |-> call[g].e, cp |-> y]
           fill == [i \in 1..m |-> IF i <= s.len THEN Elements(Clip(s))[i] ELSE Unset]
<1>4. fill \in Seq(Data \cup {Unset}) /\ Len(fill) = m /\ m \in Nat /\ n \in Nat /\ n <= m
  <2>1. slack \in Nat /\ m \in Nat /\ n \in Nat /\ n <= m
    <3> HIDE DEF s, k
    <3> QED
      BY <1>1, ErrorsAssumption
  <2>2. \A i \in 1..m : i <= s.len => Elements(Clip(s))[i] \in Data \cup {Unset}
    <3> SUFFICES ASSUME NEW i \in 1..m, i <= s.len
                 PROVE  Elements(Clip(s))[i] \in Data \cup {Unset}
      OBVIOUS
    <3> HIDE DEF s, m
    <3>1. s.array # 0 /\ s.array \in 1..Len(arrays) /\ s.len <= Len(arrays[s.array]) /\ i \in 1..s.len
      BY <1>0, <1>1, <2>1 DEF Within, Size
    <3>2. Elements(Clip(s)) = SubSeq(arrays[s.array], 1, s.len)
      BY <1>2, <3>1 DEF Elements
    <3>3. arrays[s.array] \in Seq(Data \cup {Unset})
      BY <1>0, <3>1
    <3>4. SubSeq(arrays[s.array], 1, s.len)[i] = arrays[s.array][i]
      BY <1>1, <3>1, <3>3
    <3> QED
      BY <3>1, <3>2, <3>3, <3>4, <1>1
  <2> DEFINE f(i) == IF i <= s.len THEN Elements(Clip(s))[i] ELSE Unset
  <2>3. \A i \in 1..m : f(i) \in Data \cup {Unset}
    BY <2>2
  <2>4. fill = [i \in 1..m |-> f(i)]
    OBVIOUS
  <2> HIDE DEF f, m, s, fill
  <2> QED
    BY <2>1, <2>3, <2>4
<1>5. /\ arrays' \in Seq(Seq(Data \cup {Unset})) /\ Len(arrays') = new /\ Len(arrays) \in Nat
      /\ arrays'[new] = fill /\ \A a \in 1..Len(arrays) : arrays'[a] = arrays[a]
  <2>1. arrays' = Append(arrays, fill)
    BY <1>3
  <2> HIDE DEF fill
  <2> QED
    BY <1>0, <1>4, <2>1
<1>6. t \in Slice /\ t.array = new /\ t.len = n
  <2> HIDE DEF n, m, new
  <2> QED
    BY <1>4, <1>21 DEF Slice
<1>7. y \in Struct /\ y.slices = [x.slices EXCEPT ![o.kind] = t]
  <2>1. x \in Struct /\ o.kind \in Part /\ t \in Slice
    BY <1>0, <1>1, <1>6
  <2> HIDE DEF t, x, o
  <2> QED
    BY <2>1, WithType
<1>8. c \in Call /\ call' = [call EXCEPT ![g] = c]
  <2>1. GoOn(g, "store", y)
    BY <1>3
  <2> HIDE DEF y
  <2> QED
    BY <1>0, <1>7, <2>1, GoOnCall
<1>9. y.slices[o.kind] = t /\ \A p \in Part \ {o.kind} : y.slices[p] = x.slices[p]
  <2> HIDE DEF t, y
  <2> QED
    BY <1>0, <1>1, <1>6, <1>7 DEF Bound
<1>10. c.cp = y /\ c.op = o /\ c.pc = "store"
  OBVIOUS
<1>22. PICK a \in Nat : a = new
  BY <1>21
<1>23. PICK q \in Part : q = o.kind
  BY <1>0
<1>24. PICK T : T = t
  OBVIOUS
<1>25. PICK Y : Y = y
  OBVIOUS
<1>20. /\ T = t /\ T.array = a /\ T.len = n /\ Y = y /\ a = new /\ q = o.kind
       /\ Y.slices \in [Part -> Slice]
       /\ Y.slices[q] = T /\ \A p \in Part \ {q} : Y.slices[p] = x.slices[p]
  <2>1. y.slices \in [Part -> Slice]
    <3> HIDE DEF y
    <3> QED
      BY <1>7 DEF Struct
  <2> HIDE DEF t, y, new, n
  <2> QED
    BY <1>22, <1>23, <1>24, <1>25, <1>6, <1>9, <2>1
<1> HIDE DEF c, y, t, fill, m, n, s
<1>11. \A z : Within(z) => Within(z)' /\ z.array # a
  BY <1>5, <1>20 DEF Within, Size
<1>12. \A z : Bound(z) => Bound(z)' /\ ~Reads(z, a)
  BY <1>11 DEF Bound, Reads
<1>13. Within(T)'
  <2>1. Size(a)' = m
    BY <1>4, <1>5, <1>20 DEF Size
  <2> QED
    BY <1>4, <1>5, <1>20, <2>1 DEF Within
<1>14. Bound(Y)'
  <2>1. ASSUME NEW p \in Part PROVE Within(Y.slices[p])'
    <3>1. CASE p = q
      BY <1>13, <1>20, <3>1
    <3>2. CASE p # q
      <4>1. PICK z : z = x.slices[p] /\ Within(z)
        BY <1>1 DEF Bound
      <4>2. Y.slices[p] = z /\ Within(z)'
        BY <1>11, <1>20, <3>2, <4>1
      <4> QED
        BY <4>2
    <3> QED
      BY <3>1, <3>2
  <2> QED
    BY <1>20, <2>1 DEF Bound
<1>15. call' \in [Goroutines -> Call] /\ call'[g] = c /\ call'[g].cp = Y
       /\ \A h \in Goroutines \ {g} : call'[h] = call[h]
  BY <1>0, <1>8, <1>10, <1>20
<1>16. Bounded'
  <2>1. \A i \in 1..Len(errors) : Bound(errors[i])'
    BY <1>0, <1>12
  <2>2. ASSUME NEW h \in Goroutines
        PROVE  /\ Bound(call[h].cp)'
               /\ call'[h].pc # "idle" => call'[h].op \in Ops
               /\ call'[h].pc = "store" => call'[h].op.kind \in Part
    <3>1. CASE h = g
      <4>1. call'[g].op \in Ops /\ call'[g].op.kind \in Part
        BY <1>0, <1>1, <1>10, <1>15
      <4>2. Bound(call[g].cp)'
        BY <1>14, <1>15
      <4> QED
        BY <3>1, <4>1, <4>2
    <3>2. CASE h # g
      BY <1>0, <1>12, <1>15, <3>2 DEF IInv, Bounded, Bound
    <3> QED
      BY <3>1, <3>2
  <2> QED
    BY <1>0, <1>5, <1>15, <2>1, <2>2 DEF Bounded
<1>17. Private'
  <2> SUFFICES ASSUME NEW h \in Goroutines, Storing(h)'
               PROVE  /\ Target(h)' # 0
                      /\ \A i \in 1..Len(errors) : ~Reads(errors[i], Target(h)')
                      /\ \A j \in Goroutines \ {h} : ~Reads(call'[j].cp, Target(h)')
    BY <1>0 DEF Private, Reads
  <2>1. CASE h = g
    <3>1. Target(h)' = a /\ a # 0
      BY <1>5, <1>10, <1>15, <1>20, <2>1 DEF Target
    <3> QED
      BY <1>0, <1>12, <1>15, <2>1, <3>1
  <2>2. CASE h # g
    <3>1. Storing(h) /\ Target(h)' = Target(h)
      BY <1>15, <2>2 DEF Storing, Target
    <3>2. /\ Target(h) # 0
          /\ \A i \in 1..Len(errors) : ~Reads(errors[i], Target(h))
          /\ \A j \in Goroutines \ {h} : ~Reads(call[j].cp, Target(h))
      BY <3>1 DEF IInv, Private
    <3>3. Target(h) \in 0..Len(arrays)
      BY <1>0, <3>1 DEF IInv, Bounded, Bound, Within, Storing, Target
    <3>4. Target(h) # a /\ ~Reads(x, Target(h))
      BY <1>5, <1>20, <2>2, <3>2, <3>3
    <3>5. ~Reads(Y, Target(h))
      BY <1>20, <3>4 DEF Reads
    <3> QED
      BY <1>15, <3>1, <3>2, <3>5
  <2> QED
    BY <2>1, <2>2
<1> QED
  BY <1>16, <1>17 DEF IInv

\* What is stored goes to an array of its own, whose length stays.
LEMMA StoreArrays ==
    ASSUME IInv, NEW g \in Goroutines, Store(g)
    PROVE  /\ Kept
           /\ Len(arrays') = Len(arrays)
           /\ \A a \in 1..Len(arrays) : Len(arrays'[a]) = Len(arrays[a])
           /\ \A a \in 1..Len(arrays) : arrays'[a] # arrays[a] => Storing(g) /\ a = Target(g)
<1> DEFINE o == call[g].op
           s == call[g].cp.slices[o.kind]
           b == Target(g)
           of == Data \cup {Unset}
<1>0. arrays \in Seq(Seq(of)) /\ call[g] \in Call /\ call[g].pc = "store"
  BY DEF IInv, Bounded, Store
<1>1. CASE o.items = <<>>
  <2>1. arrays' = arrays
    BY <1>1 DEF Store
  <2> QED
    BY <1>0, <2>1, SameArrays
<1>2. CASE o.items # <<>>
  <2>1. /\ Storing(g) /\ b = s.array /\ b # 0 /\ Within(s) /\ s \in Slice
        /\ o.items \in Seq(Data)
    <3>1. Storing(g) /\ b = s.array /\ b # 0
      BY <1>0, <1>2 DEF Storing, Target, IInv, Private
    <3>2. o \in Op /\ o.kind \in Part /\ Bound(call[g].cp)
      BY <1>0, ErrorOpsAssumption DEF IInv, Bounded
    <3> QED
      BY <3>1, <3>2 DEF Bound, Op
  <2>2. b \in 1..Len(arrays) /\ arrays[b] \in Seq(of) /\ s.len \in Nat /\ Len(o.items) \in Nat
    <3> HIDE DEF s, b, o
    <3> QED
      BY <1>0, <2>1 DEF Within, Slice
  <2> DEFINE old == s.len - Len(o.items)
             f(i) == IF i \in (old + 1)..s.len THEN o.items[i - old] ELSE arrays[b][i]
             content == [i \in DOMAIN arrays[b] |-> f(i)]
  <2>3. arrays' = [arrays EXCEPT ![b] = content]
    BY <1>2, <2>1 DEF Store
  <2>4. \A i \in 1..Len(arrays[b]) : f(i) \in of
    <3> SUFFICES ASSUME NEW i \in 1..Len(arrays[b]) PROVE f(i) \in of
      OBVIOUS
    <3>1. CASE i \in (old + 1)..s.len
      <4> HIDE DEF s, o, b
      <4>1. i - old \in 1..Len(o.items)
        BY <2>2, <3>1
      <4> QED
        BY <2>1, <3>1, <4>1
    <3>2. CASE i \notin (old + 1)..s.len
      <4> HIDE DEF s, o, b, old
      <4> QED
        BY <2>2, <3>2
    <3> QED
      BY <3>1, <3>2
  <2>5. content \in Seq(of) /\ Len(content) = Len(arrays[b])
    <3>1. DOMAIN arrays[b] = 1..Len(arrays[b]) /\ Len(arrays[b]) \in Nat
      <4> HIDE DEF b
      <4> QED
        BY <2>2
    <3> HIDE DEF f, b, of
    <3> QED
      BY <2>4, <3>1
  <2>6. /\ arrays' \in Seq(Seq(of)) /\ Len(arrays') = Len(arrays) /\ Len(arrays) \in Nat
        /\ arrays'[b] = content
        /\ \A a \in 1..Len(arrays) : a # b => arrays'[a] = arrays[a]
    <3> HIDE DEF content, b, of
    <3> QED
      BY <1>0, <2>2, <2>3, <2>5
  <2>7. \A a \in 1..Len(arrays) : Len(arrays'[a]) = Len(arrays[a])
    <3> HIDE DEF content, b
    <3> QED
      BY <2>5, <2>6
  <2>8. \A x : Within(x) => Within(x)'
    <3> HIDE DEF content, b, of
    <3> QED
      BY <2>6, <2>7 DEF Within, Size
  <2> HIDE DEF content, b
  <2> QED
    BY <2>1, <2>6, <2>7, <2>8 DEF Kept, Bound, b
<1> QED
  BY <1>1, <1>2

LEMMA StoreKeeps ==
    ASSUME IInv, NEW g \in Goroutines, Store(g)
    PROVE  IInv'
<1> DEFINE c == [pc |-> "return", op |-> call[g].op, e |-> call[g].e, cp |-> call[g].cp]
<1>1. /\ call \in [Goroutines -> Call] /\ call[g].cp \in Struct /\ errors' = errors
      /\ call[g].op \in Ops /\ Bound(call[g].cp) /\ GoOn(g, "return", call[g].cp)
  BY DEF IInv, Bounded, Store, Call
<1>2. c \in Call /\ call' = [call EXCEPT ![g] = c]
  BY <1>1, GoOnCall
<1>3. c.cp = call[g].cp /\ c.op = call[g].op /\ c.pc = "return"
  OBVIOUS
<1>4. Kept
  BY StoreArrays
<1> HIDE DEF c
<1>5. \A p \in Part : \E q \in Part : c.cp.slices[p].array = call[g].cp.slices[q].array
  BY <1>3
<1>6. Bound(c.cp) /\ c.op \in Ops /\ c.pc # "store"
  BY <1>1, <1>3
<1>7. CopyOf(c, g)
  BY <1>2, <1>5, <1>6 DEF CopyOf
<1> QED
  BY <1>1, <1>2, <1>4, <1>7, CopyStep

\* The copy becomes an error: its arrays are nobody's to write any more.
LEMMA ReturnKeeps ==
    ASSUME IInv, NEW g \in Goroutines, Return(g)
    PROVE  IInv'
<1>1. PICK x \in Struct : x = call[g].cp /\ Bound(x) /\ errors' = Append(errors, x)
  BY DEF IInv, Bounded, Return, Call
<1>2. /\ call \in [Goroutines -> Call] /\ errors \in Seq(Struct) /\ arrays' = arrays
      /\ arrays \in Seq(Seq(Data \cup {Unset})) /\ call' = [call EXCEPT ![g] = Idle]
  BY DEF IInv, Bounded, Return
<1>3. /\ Len(errors') = Len(errors) + 1 /\ errors' \in Seq(Struct) /\ Len(errors) \in Nat
      /\ \A i \in 1..Len(errors') : 
            errors'[i] = x \/ (i \in 1..Len(errors) /\ errors'[i] = errors[i])
  BY <1>1, <1>2
<1>4. /\ Idle \in Call /\ Idle.pc = "idle" /\ Bound(Idle.cp)
      /\ \A p \in Part : Idle.cp.slices[p].array = 0
  BY <1>2, IdleType
<1>5. call' \in [Goroutines -> Call] /\ call'[g] = Idle /\ \A h \in Goroutines \ {g} : call'[h] = call[h]
  BY <1>2, <1>4
<1>6. \A z : Bound(z)' = Bound(z)
  BY <1>2 DEF Bound, Within, Size
<1>7. \A i \in 1..Len(errors') : Bound(errors'[i])
  BY <1>1, <1>3 DEF IInv, Bounded
<1>8. \A h \in Goroutines : Bound(call'[h].cp)
  BY <1>4, <1>5 DEF IInv, Bounded
<1>9. Bounded'
  BY <1>2, <1>3, <1>4, <1>5, <1>6, <1>7, <1>8 DEF IInv, Bounded
<1>10. ASSUME NEW h \in Goroutines, Storing(h)'
       PROVE  /\ Target(h)' # 0
              /\ \A i \in 1..Len(errors') : ~Reads(errors'[i], Target(h)')
              /\ \A k \in Goroutines \ {h} : ~Reads(call'[k].cp, Target(h)')
  <2>1. h # g
    BY <1>4, <1>5, <1>10 DEF Storing
  <2>2. Storing(h) /\ Target(h)' = Target(h)
    BY <1>5, <1>10, <2>1 DEF Storing, Target
  <2>3. /\ Target(h) # 0
        /\ \A i \in 1..Len(errors) : ~Reads(errors[i], Target(h))
        /\ \A k \in Goroutines \ {h} : ~Reads(call[k].cp, Target(h))
    BY <2>2 DEF IInv, Private
  <2>4. ~Reads(x, Target(h))
    BY <1>1, <2>1, <2>3
  <2>5. ~Reads(Idle.cp, Target(h))
    BY <1>4, <2>3 DEF Reads
  <2> QED
    BY <1>3, <1>5, <2>2, <2>3, <2>4, <2>5
<1> QED
  BY <1>9, <1>10 DEF IInv, Private, Reads

LEMMA StepIInv == IInv /\ [Next]_vars => IInv'
<1> SUFFICES ASSUME IInv, [Next]_vars PROVE IInv'
  OBVIOUS
<1>1. CASE UNCHANGED <<errors, arrays, call>>
  <2>1. Bounded'
    BY <1>1 DEF IInv, Bounded, Bound, Within, Size
  <2>2. Private'
    BY <1>1 DEF IInv, Private, Storing, Target, Reads
  <2> QED
    BY <2>1, <2>2 DEF IInv
<1>2. CASE Next
  <2> SUFFICES ASSUME NEW g \in Goroutines, Begin(g) \/ Proceed(g) PROVE IInv'
    BY <1>2 DEF Next
  <2>1. CASE Begin(g)
    <3>0. PICK o \in Ops : \E e \in Bases(o, Len(errors)) : Refuse(g, o, e) \/ Copy(g, o, e)
      BY <2>1 DEF Begin
    <3>1. PICK e \in Bases(o, Len(errors)) : Refuse(g, o, e) \/ Copy(g, o, e)
      BY <3>0
    <3>2. CASE Refuse(g, o, e)
      BY <1>1, <3>2 DEF Refuse
    <3> QED
      BY <3>1, <3>2, CopyKeeps
  <2>2. CASE Proceed(g)
    BY <2>2, SetScalarKeeps, ExtendKeeps, GrowKeeps, StoreKeeps, ReturnKeeps DEF Proceed
  <2> QED
    BY <2>1, <2>2
<1> QED
  BY <1>1, <1>2 DEF vars

----------------------------------------------------------------------------
(* What a step may do to what there is.                                    *)

\* The steps of one goroutine: errors are added at most, and only the array
\* that it stores its items in is written to.
LEMMA StepOf ==
    ASSUME IInv, NEW g \in Goroutines, Begin(g) \/ Proceed(g)
    PROVE  /\ Len(errors) <= Len(errors')
           /\ \A i \in 1..Len(errors) : errors'[i] = errors[i]
           /\ \A h \in Goroutines \ {g} : call'[h] = call[h]
           /\ \A a \in 1..Len(arrays) : arrays'[a] # arrays[a] => Storing(g) /\ a = Target(g)
<1>0. call \in [Goroutines -> Call] /\ errors \in Seq(Struct) /\ call[g].cp \in Struct
  BY DEF IInv, Bounded, Call
<1>1. \/ errors' = errors \/ errors' = Append(errors, call[g].cp)
  BY DEF Begin, Proceed, Refuse, Copy, SetScalar, Extend, Grow, Store, Return
<1>2. Len(errors) <= Len(errors') /\ \A i \in 1..Len(errors) : errors'[i] = errors[i]
  <2>1. PICK x \in Struct : x = call[g].cp
    BY <1>0
  <2> QED
    BY <1>0, <1>1, <2>1
<1>3. \A h \in Goroutines \ {g} : call'[h] = call[h]
  BY <1>0 DEF Begin, Proceed, Refuse, Copy, SetScalar, Extend, Grow, Store, Return, GoOn
<1>4. \A a \in 1..Len(arrays) : arrays'[a] # arrays[a] => Storing(g) /\ a = Target(g)
  <2>1. CASE arrays' = arrays
    BY <2>1
  <2>2. CASE Grow(g)
    <3>1. \E fill : arrays' = Append(arrays, fill)
      BY <2>2 DEF Grow
    <3> QED
      BY <3>1 DEF IInv, Bounded
  <2>3. CASE Store(g)
    BY <2>3, StoreArrays
  <2>4. arrays' = arrays \/ Grow(g) \/ Store(g)
    BY DEF Begin, Proceed, Refuse, Copy, SetScalar, Extend, Return
  <2> QED
    BY <2>1, <2>2, <2>3, <2>4
<1> QED
  BY <1>2, <1>3, <1>4

LEMMA StepErrors ==
    ASSUME IInv, [Next]_vars
    PROVE  \A i \in 1..Len(errors) : errors'[i] = errors[i]
<1>1. CASE UNCHANGED vars
  BY <1>1 DEF vars
<1> QED
  BY <1>1, StepOf DEF Next

LEMMA StepArrays ==
    ASSUME IInv, [Next]_vars
    PROVE  \A a \in 1..Len(arrays) : arrays'[a] # arrays[a] =>
              \E g \in Goroutines : Storing(g) /\ a = Target(g)
<1>1. CASE UNCHANGED vars
  BY <1>1 DEF vars
<1> QED
  BY <1>1, StepOf DEF Next

----------------------------------------------------------------------------
(* The theorems.                                                           *)

LEMMA Inductive == Spec => []IInv
BY InitIInv, StepIInv, PTL DEF Spec

\* A builder writes only to an array that no error and no other call refers
\* to: deriving from shared errors is free of data races (error.go:202-262).
THEOREM WritesArePrivateCorrect == Spec => WritesArePrivate
<1>1. IInv /\ [Next]_vars =>
         [\A a \in 1..Len(arrays) : arrays'[a] # arrays[a] =>
            /\ \A i \in 1..Len(errors) : ~Reads(errors[i], a)
            /\ \E g \in Goroutines : \A h \in Goroutines \ {g} : ~Reads(call[h].cp, a)]_vars
  <2> SUFFICES ASSUME IInv, [Next]_vars, NEW a \in 1..Len(arrays), arrays'[a] # arrays[a]
               PROVE  /\ \A i \in 1..Len(errors) : ~Reads(errors[i], a)
                      /\ \E g \in Goroutines : \A h \in Goroutines \ {g} : ~Reads(call[h].cp, a)
    OBVIOUS
  <2>1. PICK g \in Goroutines : Storing(g) /\ a = Target(g)
    BY StepArrays
  <2> QED
    BY <2>1 DEF IInv, Private
<1> QED
  BY <1>1, Inductive, PTL DEF Spec, WritesArePrivate

\* Whatever an error or a copy reads and nobody writes keeps its value.
LEMMA ValueKept ==
    ASSUME IInv, NEW x, Bound(x),
           \A a \in 1..Len(arrays) : arrays'[a] # arrays[a] => ~Reads(x, a)
    PROVE  /\ ValueOf(x)' = ValueOf(x)
           /\ \A p \in Part : Elements(x.slices[p])' = Elements(x.slices[p])
<1>1. ASSUME NEW p \in Part
      PROVE  Elements(x.slices[p])' = Elements(x.slices[p])
  <2>1. PICK s : s = x.slices[p]
    OBVIOUS
  <2>2. Reads(x, s.array) /\ s.array \in 0..Len(arrays)
    BY <2>1 DEF Reads, Bound, Within
  <2>3. s.array # 0 => arrays'[s.array] = arrays[s.array]
    <3> SUFFICES ASSUME s.array # 0, arrays'[s.array] # arrays[s.array] PROVE FALSE
      OBVIOUS
    <3>1. s.array \in 1..Len(arrays)
      BY <2>2 DEF IInv, Bounded
    <3> QED
      BY <2>2, <3>1
  <2> QED
    BY <2>1, <2>3 DEF Elements
<1> QED
  BY <1>1 DEF ValueOf

\* An error stays what it is as long as nobody writes to its arrays.
LEMMA ErrorKept ==
    ASSUME IInv,
           \A i \in 1..Len(errors) : errors'[i] = errors[i],
           \A a \in 1..Len(arrays) : arrays'[a] # arrays[a] =>
              \A i \in 1..Len(errors) : ~Reads(errors[i], a)
    PROVE  \A i \in 1..Len(errors) : ValueOf(errors[i])' = ValueOf(errors[i])
<1> SUFFICES ASSUME NEW i \in 1..Len(errors)
             PROVE  ValueOf(errors[i])' = ValueOf(errors[i])
  OBVIOUS
<1>1. PICK x : x = errors[i] /\ errors'[i] = x /\ Bound(x)
  BY DEF IInv, Bounded
<1>2. ValueOf(x)' = ValueOf(x)
  BY <1>1, ValueKept
<1> QED
  BY <1>1, <1>2

LEMMA ValuesKept ==
    ASSUME IInv, [Next]_vars
    PROVE  \A i \in 1..Len(errors) : ValueOf(errors[i])' = ValueOf(errors[i])
<1>1. \A a \in 1..Len(arrays) : arrays'[a] # arrays[a] =>
         \A i \in 1..Len(errors) : ~Reads(errors[i], a)
  BY StepArrays DEF IInv, Private
<1> QED
  BY <1>1, StepErrors, ErrorKept

\* Nobody ever sees an error change, whatever is derived from it and by how
\* many goroutines at once (error.go:15-35).
THEOREM ErrorsImmutableCorrect == Spec => ErrorsImmutable
<1>1. IInv /\ [Next]_vars => [\A i \in 1..Len(errors) : ValueOf(errors[i])' = ValueOf(errors[i])]_vars
  BY ValuesKept
<1> QED
  BY <1>1, Inductive, PTL DEF Spec, ErrorsImmutable

----------------------------------------------------------------------------
(* The frames constructors record.                                         *)

UserFrames == {0} \cup 4..(3 + Depth)
Frames ==
    /\ \A i \in 1..Len(errors) : errors[i].frame \in UserFrames
    /\ \A g \in Goroutines : call[g].cp.frame \in UserFrames

\* A sum that is an int is what it should be.
LEMMA NoWrap ==
    ASSUME NEW n \in Nat, n <= MaxInt PROVE Plus(0, n) = n
<1> DEFINE m == MaxInt + 1
<1>1. m \in Nat /\ m > 0 /\ n < m
  OBVIOUS
<1> HIDE DEF m
<1>2. (n + m) % (2 * m) = n + m
  BY <1>1
<1> QED
  BY <1>2 DEF Plus, m

LEMMA CallerIsUser ==
    ASSUME NEW skip \in Nat, skip <= MaxInt
    PROVE  Caller(skip) \in UserFrames
<1>1. CASE skip > MaxInt - 3
  BY <1>1 DEF Caller, UserFrames
<1>2. CASE skip <= MaxInt - 3
  <2>1. 3 + skip \in Nat /\ 3 + skip <= MaxInt
    BY <1>2
  <2>2. Plus(3, skip) = 3 + skip
    BY <2>1, NoWrap DEF Plus
  <2> QED
    BY <1>2, <2>1, <2>2 DEF Caller, Callers, UserFrames
<1> QED
  BY <1>1, <1>2

\* Only a constructor sets a frame; a copy has its original's.
LEMMA CopyFrame ==
    ASSUME IInv, Frames, NEW g \in Goroutines, NEW o \in Ops, NEW e \in Bases(o, Len(errors)),
           Copy(g, o, e)
    PROVE  call'[g].cp.frame \in UserFrames
<1>0. ~Refuses(o, e) /\ o \in Op /\ e \in 0..Len(errors)
  BY DEF Copy, IInv, Bounded, Bases
<1>1. call'[g].cp = (CASE o.kind = "New" -> Fresh(o, 0, Caller(o.skip), NilSlice)
                       [] o.kind = "Wrap" -> Fresh(o, e, Caller(o.skip), NilSlice)
                       [] OTHER -> errors[e])
  BY DEF Copy, IInv, Bounded
<1>2. CASE Constructs(o)
  <2>1. o.skip \in (-MaxInt)..MaxInt
    BY ErrorOpsAssumption
  <2>2. ~(o.skip < 0)
    BY <1>0, <1>2 DEF Refuses
  <2>3. o.skip \in Nat /\ o.skip <= MaxInt
    BY <2>1, <2>2
  <2>4. call'[g].cp.frame = Caller(o.skip)
    BY <1>1, <1>2 DEF Constructs, Fresh
  <2> QED
    BY <2>3, <2>4, CallerIsUser
<1>3. CASE ~Constructs(o)
  <2>1. e \in 1..Len(errors) /\ call'[g].cp = errors[e]
    BY <1>0, <1>1, <1>3 DEF Refuses, Constructs, IInv, Bounded
  <2> QED
    BY <2>1 DEF Frames
<1> QED
  BY <1>2, <1>3

LEMMA ProceedOrigin ==
    ASSUME IInv, NEW g \in Goroutines, SetScalar(g) \/ Extend(g) \/ Grow(g) \/ Store(g)
    PROVE  call'[g].cp.frame = call[g].cp.frame /\ call'[g].cp.cause = call[g].cp.cause
<1> DEFINE x == call[g].cp
<1>1. x \in Struct /\ g \in DOMAIN call
  BY DEF IInv, Bounded, Call
<1>2. \A pc, y : GoOn(g, pc, y) => call'[g].cp = y
  BY <1>1 DEF GoOn
<1>3. CASE SetScalar(g)
  <2>1. /\ \A v : /\ [x EXCEPT !.code = v].frame = x.frame
                  /\ [x EXCEPT !.public = v].frame = x.frame
                  /\ [x EXCEPT !.delay = v].frame = x.frame
        /\ [x EXCEPT !.barrier = TRUE].frame = x.frame
    BY <1>1 DEF Struct
  <2>3. /\ \A v : /\ [x EXCEPT !.code = v].cause = x.cause
                  /\ [x EXCEPT !.public = v].cause = x.cause
                  /\ [x EXCEPT !.delay = v].cause = x.cause
        /\ [x EXCEPT !.barrier = TRUE].cause = x.cause
    BY <1>1 DEF Struct
  <2>2. \E v : \/ GoOn(g, "return", [x EXCEPT !.code = v]) \/ GoOn(g, "return", [x EXCEPT !.public = v])
               \/ GoOn(g, "return", [x EXCEPT !.delay = v]) \/ GoOn(g, "return", [x EXCEPT !.barrier = TRUE])
    BY <1>3, Zenon DEF SetScalar
  <2> HIDE DEF x
  <2>4. call'[g].cp.frame = x.frame
    BY <1>2, <2>1, <2>2, Zenon
  <2>5. call'[g].cp.cause = x.cause
    BY <1>2, <2>2, <2>3, Zenon
  <2> QED
    BY <2>4, <2>5 DEF x
<1>4. CASE Extend(g) \/ Grow(g)
  <2>1. \A p, s : With(x, p, s).frame = x.frame /\ With(x, p, s).cause = x.cause
    BY <1>1 DEF With, Struct
  <2>2. PICK s, pc : GoOn(g, pc, With(x, call[g].op.kind, s))
    BY <1>4, Zenon DEF Extend, Grow
  <2> QED
    BY <1>2, <2>1, <2>2
<1>5. CASE Store(g)
  BY <1>2, <1>5 DEF Store
<1> QED
  BY <1>3, <1>4, <1>5

LEMMA StepFrames == IInv /\ Frames /\ [Next]_vars => Frames'
<1> SUFFICES ASSUME IInv, Frames, [Next]_vars PROVE Frames'
  OBVIOUS
<1>0. call \in [Goroutines -> Call] /\ errors \in Seq(Struct)
  BY DEF IInv, Bounded
<1>1. CASE UNCHANGED <<errors, call>>
  BY <1>1 DEF Frames
<1>2. ASSUME NEW g \in Goroutines, \A h \in Goroutines \ {g} : call'[h] = call[h], errors' = errors,
             call'[g].cp.frame \in UserFrames
      PROVE  Frames'
  BY <1>2 DEF Frames
<1>3. CASE Next
  <2> SUFFICES ASSUME NEW g \in Goroutines, Begin(g) \/ Proceed(g) PROVE Frames'
    BY <1>3 DEF Next
  <2>1. CASE Begin(g)
    <3>0. PICK o \in Ops : \E e \in Bases(o, Len(errors)) : Refuse(g, o, e) \/ Copy(g, o, e)
      BY <2>1 DEF Begin
    <3>1. PICK e \in Bases(o, Len(errors)) : Refuse(g, o, e) \/ Copy(g, o, e)
      BY <3>0
    <3>2. CASE Refuse(g, o, e)
      BY <1>1, <3>2 DEF Refuse
    <3>3. CASE Copy(g, o, e)
      <4>1. errors' = errors /\ \A h \in Goroutines \ {g} : call'[h] = call[h]
        BY <1>0, <3>3 DEF Copy
      <4> QED
        BY <1>2, <3>3, <4>1, CopyFrame
    <3> QED
      BY <3>1, <3>2, <3>3
  <2>2. CASE SetScalar(g) \/ Extend(g) \/ Grow(g) \/ Store(g)
    <3>1. errors' = errors /\ \A h \in Goroutines \ {g} : call'[h] = call[h]
      BY <1>0, <2>2 DEF SetScalar, Extend, Grow, Store, GoOn
    <3>2. call'[g].cp.frame \in UserFrames
      BY <2>2, ProceedOrigin DEF Frames
    <3> QED
      BY <1>2, <3>1, <3>2
  <2>3. CASE Return(g)
    <3>1. Idle.cp.frame = 0
      BY DEF Idle, Fresh
    <3>2. call' = [call EXCEPT ![g] = Idle] /\ errors' = Append(errors, call[g].cp)
      BY <2>3 DEF Return
    <3>3. \A i \in 1..Len(errors') : errors'[i] = call[g].cp \/ (i \in 1..Len(errors) /\ errors'[i] = errors[i])
      <4>1. PICK x \in Struct : x = call[g].cp
        BY <1>0 DEF Call
      <4> QED
        BY <1>0, <3>2, <4>1
    <3>4. \A i \in 1..Len(errors') : errors'[i].frame \in UserFrames
      BY <3>3 DEF Frames
    <3>5. \A h \in Goroutines : call'[h].cp.frame \in UserFrames
      BY <1>0, <3>1, <3>2 DEF Frames, UserFrames
    <3> QED
      BY <3>4, <3>5 DEF Frames
  <2> QED
    BY <2>1, <2>2, <2>3 DEF Proceed
<1> QED
  BY <1>1, <1>3 DEF vars

\* Whatever skip New and Wrap are given, near the largest int too, the frame
\* is one of their user's or unknown (frame.go:37-53).
THEOREM FramesAreUsersCorrect == Spec => []FramesAreUsers
<1>1. Init => Frames
  BY DEF Init, Frames, Idle, Fresh, UserFrames
<1>2. Frames => FramesAreUsers
  BY DEF Frames, FramesAreUsers, UserFrames
<1> QED
  BY <1>1, <1>2, StepFrames, Inductive, PTL DEF Spec

----------------------------------------------------------------------------
(* The refinement: what a call is about to return is what ErrorValues says *)
(* it makes.                                                               *)

\* Slice s has the elements of old, and room for the items behind them.
Longer(s, old, items) ==
    /\ s.len = old.len + Len(items)
    /\ \A i \in 1..old.len : Elements(s)[i] = Elements(old)[i]

\* x is y with a longer slice as the part that call o appends to.
Enlarged(x, o, y) ==
    /\ x = With(y, o.kind, x.slices[o.kind])
    /\ Longer(x.slices[o.kind], y.slices[o.kind], o.items)

\* A call that has got as far as c, on the way from its receiver to the value
\* it makes.
Building(c) ==
    c.pc # "idle" =>
        /\ c.e \in Bases(c.op, Len(errors)) /\ ~Refuses(c.op, c.e)
        /\ c.pc \in {"set", "store"} => ~Constructs(c.op) /\ c.e \in 1..Len(errors)
        /\ c.pc = "set" => c.cp = errors[c.e]
        /\ c.pc = "store" => Enlarged(c.cp, c.op, errors[c.e])
        /\ c.pc = "return" => ValueOf(c.cp) = Values!Made(c.op, c.e)

BInv == \A g \in Goroutines : Building(call[g])

\* What call o on e makes, if e is the value y.
MadeOf(o, e, y) ==
    CASE o.kind = "New" -> Fresh(o, 0, UserFrame(o.skip), <<>>)
      [] o.kind = "Wrap" -> Fresh(o, e, UserFrame(o.skip), <<>>)
      [] o.kind = "WithCode" -> [y EXCEPT !.code = o.value]
      [] o.kind = "WithPublic" -> [y EXCEPT !.public = o.value]
      [] o.kind = "WithoutPublic" -> [y EXCEPT !.barrier = TRUE]
      [] o.kind = "WithRetryDelay" -> [y EXCEPT !.delay = o.d]
      [] o.kind \in Part -> [y EXCEPT !.slices[o.kind] = @ \o o.items]

MadeOfValues ==
    \A o \in Ops : \A e : e \in 1..Len(errors) \/ Constructs(o) =>
        Values!Made(o, e) = MadeOf(o, e, ValueOf(errors[e]))

LEMMA MadeValue == MadeOfValues
<1> SUFFICES ASSUME NEW o \in Ops, NEW e, e \in 1..Len(errors) \/ Constructs(o)
             PROVE  Values!Made(o, e) = MadeOf(o, e, ValueOf(errors[e]))
  BY DEF MadeOfValues
<1>1. CASE o.kind = "New"
  BY <1>1 DEF Values!Made, MadeOf, Values!Fresh, Fresh, Values!UserFrame, UserFrame,
              Values!Part, Part
<1>2. CASE o.kind = "Wrap"
  BY <1>2 DEF Values!Made, MadeOf, Values!Fresh, Fresh, Values!UserFrame, UserFrame,
              Values!Part, Part
<1>3. CASE ~Constructs(o)
  <2> DEFINE y == ValueOf(errors[e])
  <2>1. [i \in 1..Len(errors) |-> ValueOf(errors[i])][e] = y
    BY <1>3
  <2> HIDE DEF y
  <2>2. CASE o.kind = "WithCode"
    <3>1. Values!Made(o, e) = [y EXCEPT !.code = o.value]
      BY <2>1, <2>2 DEF Values!Made, Values!Part, Part
    <3>2. MadeOf(o, e, y) = [y EXCEPT !.code = o.value]
      BY <2>2 DEF MadeOf, Part
    <3> QED
      BY <3>1, <3>2 DEF y
  <2>3. CASE o.kind = "WithPublic"
    <3>1. Values!Made(o, e) = [y EXCEPT !.public = o.value]
      BY <2>1, <2>3 DEF Values!Made, Values!Part, Part
    <3>2. MadeOf(o, e, y) = [y EXCEPT !.public = o.value]
      BY <2>3 DEF MadeOf, Part
    <3> QED
      BY <3>1, <3>2 DEF y
  <2>4. CASE o.kind = "WithoutPublic"
    <3>1. Values!Made(o, e) = [y EXCEPT !.barrier = TRUE]
      BY <2>1, <2>4 DEF Values!Made, Values!Part, Part
    <3>2. MadeOf(o, e, y) = [y EXCEPT !.barrier = TRUE]
      BY <2>4 DEF MadeOf, Part
    <3> QED
      BY <3>1, <3>2 DEF y
  <2>5. CASE o.kind = "WithRetryDelay"
    <3>1. Values!Made(o, e) = [y EXCEPT !.delay = o.d]
      BY <2>1, <2>5 DEF Values!Made, Values!Part, Part
    <3>2. MadeOf(o, e, y) = [y EXCEPT !.delay = o.d]
      BY <2>5 DEF MadeOf, Part
    <3> QED
      BY <3>1, <3>2 DEF y
  <2>6. CASE o.kind \in Part
    <3>1. Values!Made(o, e) = [y EXCEPT !.slices[o.kind] = @ \o o.items]
      BY <2>1, <2>6 DEF Values!Made, Values!Part, Part
    <3>2. MadeOf(o, e, y) = [y EXCEPT !.slices[o.kind] = @ \o o.items]
      BY <2>6 DEF MadeOf, Part
    <3> QED
      BY <3>1, <3>2 DEF y
  <2>7. o.kind \in {"WithCode", "WithPublic", "WithoutPublic", "WithRetryDelay"} \cup Part
    BY <1>3, ErrorOpsAssumption DEF Op, Constructs
  <2> QED
    BY <2>2, <2>3, <2>4, <2>5, <2>6, <2>7 DEF y
<1> QED
  BY <1>1, <1>2, <1>3 DEF Constructs

LEMMA MadeValueNext == MadeOfValues'
BY MadeValue, PTL

\* A call whose own copy is not written to stays on its way.
LEMMA BuildingKept ==
    ASSUME IInv, NEW g \in Goroutines, Begin(g) \/ Proceed(g),
           NEW c \in Call, Bound(c.cp), Building(c),
           c.pc # "idle" => c.op \in Ops, c.pc = "store" => c.op.kind \in Part,
           \A a \in 1..Len(arrays) : arrays'[a] # arrays[a] => ~Reads(c.cp, a)
    PROVE  Building(c)'
<1> SUFFICES ASSUME c.pc # "idle" PROVE Building(c)'
  BY DEF Building
<1>1. /\ c.e \in Bases(c.op, Len(errors)) /\ ~Refuses(c.op, c.e) /\ c.op \in Ops
      /\ c.pc \in {"set", "store"} => ~Constructs(c.op) /\ c.e \in 1..Len(errors)
  BY DEF Building
<1>2. Len(errors) <= Len(errors') /\ \A i \in 1..Len(errors) : errors'[i] = errors[i]
  BY StepOf
<1>3. /\ Len(errors) \in Nat /\ Len(errors') \in Nat
      /\ \A i \in 1..Len(errors) : i \in 1..Len(errors')
  <2>1. errors' \in Seq(Struct)
    BY StepIInv DEF IInv, Bounded, Next
  <2> QED
    BY <1>2, <2>1 DEF IInv, Bounded
<1>4. c.e \in Bases(c.op, Len(errors'))
  BY <1>1, <1>2, <1>3 DEF Bases
<1>5. c.e \in 1..Len(errors) \/ Constructs(c.op)
  BY <1>1, <1>3 DEF Bases, Refuses, Constructs
\* The receiver is what it was.
<1>6. ASSUME c.e \in 1..Len(errors)
      PROVE  /\ ValueOf(errors[c.e])' = ValueOf(errors[c.e])
             /\ \A p \in Part : Elements(errors[c.e].slices[p])' = Elements(errors[c.e].slices[p])
             /\ errors'[c.e] = errors[c.e]
  <2>1. PICK y : y = errors[c.e] /\ errors'[c.e] = y /\ Bound(y)
    BY <1>2, <1>6 DEF IInv, Bounded
  <2>2. \A a \in 1..Len(arrays) : arrays'[a] # arrays[a] => ~Reads(y, a)
    BY <1>6, <2>1, StepOf DEF IInv, Private
  <2>3. /\ ValueOf(y)' = ValueOf(y)
        /\ \A p \in Part : Elements(y.slices[p])' = Elements(y.slices[p])
    BY <2>1, <2>2, ValueKept
  <2>4. /\ ValueOf(errors[c.e])' = ValueOf(y)'
        /\ \A p \in Part : Elements(errors[c.e].slices[p])' = Elements(y.slices[p])'
    BY <2>1
  <2> QED
    BY <2>1, <2>3, <2>4
<1>7. /\ ValueOf(c.cp)' = ValueOf(c.cp)
      /\ \A p \in Part : Elements(c.cp.slices[p])' = Elements(c.cp.slices[p])
  BY ValueKept
<1>8. c.pc = "set" => c.cp = errors'[c.e]
  BY <1>1, <1>2 DEF Building
<1>9. ASSUME c.pc = "store" PROVE Enlarged(c.cp, c.op, errors[c.e])'
  <2>1. Enlarged(c.cp, c.op, errors[c.e]) /\ c.op.kind \in Part /\ c.e \in 1..Len(errors)
    BY <1>1, <1>9 DEF Building
  <2> QED
    BY <1>6, <1>7, <2>1 DEF Enlarged, Longer
<1>10. Values!Made(c.op, c.e)' = Values!Made(c.op, c.e)
  <2>1. Values!Made(c.op, c.e) = MadeOf(c.op, c.e, ValueOf(errors[c.e]))
    BY <1>1, <1>5, MadeValue DEF MadeOfValues
  <2>3. Values!Made(c.op, c.e)' = MadeOf(c.op, c.e, ValueOf(errors[c.e])')
    BY <1>1, <1>3, <1>5, MadeValueNext DEF MadeOfValues
  <2>4. CASE c.e \in 1..Len(errors)
    BY <1>6, <2>1, <2>3, <2>4
  <2>5. CASE Constructs(c.op)
    BY <2>1, <2>3, <2>5 DEF MadeOf, Constructs, Part
  <2> QED
    BY <1>5, <2>4, <2>5
<1>11. c.pc = "return" => ValueOf(c.cp)' = Values!Made(c.op, c.e)'
  BY <1>7, <1>10 DEF Building
<1> QED
  BY <1>1, <1>3, <1>4, <1>8, <1>9, <1>11 DEF Building

LEMMA SameMemory ==
    ASSUME errors' = errors, arrays' = arrays, NEW c, Building(c)
    PROVE  Building(c)'
<1>1. \A s : Elements(s)' = Elements(s)
  BY DEF Elements
<1>2. \A x : ValueOf(x)' = ValueOf(x)
  BY <1>1 DEF ValueOf
<1>3. \A x, o, y : Enlarged(x, o, y)' <=> Enlarged(x, o, y)
  BY <1>1 DEF Enlarged, Longer
<1>4. Values!Made(c.op, c.e)' = Values!Made(c.op, c.e)
  BY <1>2 DEF Values!Made
<1> QED
  BY <1>2, <1>3, <1>4 DEF Building

\* Setting a scalar field of a struct sets that of the value.
LEMMA ValueScalar ==
    ASSUME NEW x \in Struct, NEW v
    PROVE  /\ ValueOf([x EXCEPT !.code = v]) = [ValueOf(x) EXCEPT !.code = v]
           /\ ValueOf([x EXCEPT !.public = v]) = [ValueOf(x) EXCEPT !.public = v]
           /\ ValueOf([x EXCEPT !.barrier = v]) = [ValueOf(x) EXCEPT !.barrier = v]
           /\ ValueOf([x EXCEPT !.delay = v]) = [ValueOf(x) EXCEPT !.delay = v]
<1>1. PICK f : f = [p \in Part |-> Elements(x.slices[p])]
  OBVIOUS
<1>2. /\ ValueOf(x) = [x EXCEPT !.slices = f]
      /\ \A y : y.slices = x.slices => ValueOf(y) = [y EXCEPT !.slices = f]
  BY <1>1 DEF ValueOf
<1>3. /\ [x EXCEPT !.code = v].slices = x.slices /\ [x EXCEPT !.public = v].slices = x.slices
      /\ [x EXCEPT !.barrier = v].slices = x.slices /\ [x EXCEPT !.delay = v].slices = x.slices
  BY DEF Struct
<1>4. [[x EXCEPT !.code = v] EXCEPT !.slices = f] = [[x EXCEPT !.slices = f] EXCEPT !.code = v]
  BY DEF Struct
<1>5. [[x EXCEPT !.public = v] EXCEPT !.slices = f] = [[x EXCEPT !.slices = f] EXCEPT !.public = v]
  BY DEF Struct
<1>6. [[x EXCEPT !.barrier = v] EXCEPT !.slices = f] = [[x EXCEPT !.slices = f] EXCEPT !.barrier = v]
  BY DEF Struct
<1>7. [[x EXCEPT !.delay = v] EXCEPT !.slices = f] = [[x EXCEPT !.slices = f] EXCEPT !.delay = v]
  BY DEF Struct
<1> QED
  BY <1>2, <1>3, <1>4, <1>5, <1>6, <1>7

\* The frame recorded is the user's, as if there were no bound on an int.
LEMMA CallerRecords ==
    ASSUME NEW skip \in Nat, skip <= MaxInt
    PROVE  Caller(skip) = UserFrame(skip)
<1>1. CASE skip > MaxInt - 3
  <2>1. ~ (skip < Depth)
    BY <1>1
  <2> QED
    BY <1>1, <2>1 DEF Caller, UserFrame
<1>2. CASE skip <= MaxInt - 3
  <2>1. 3 + skip \in Nat /\ 3 + skip <= MaxInt
    BY <1>2
  <2>2. Plus(3, skip) = 3 + skip
    BY <2>1, NoWrap DEF Plus
  <2> QED
    BY <1>2, <2>1, <2>2 DEF Caller, Callers, UserFrame
<1> QED
  BY <1>1, <1>2

LEMMA FreshValue ==
    ASSUME NEW o, NEW e, NEW f
    PROVE  ValueOf(Fresh(o, e, f, NilSlice)) = Fresh(o, e, f, <<>>)
<1>1. Elements(NilSlice) = <<>>
  BY DEF Elements, NilSlice
<1>2. \A n : Fresh(o, e, f, n).slices = [p \in Part |-> n]
  BY DEF Fresh
<1>3. \A p \in Part : Elements(Fresh(o, e, f, NilSlice).slices[p]) = <<>>
  BY <1>1, <1>2
<1>4. PICK r, n, b : /\ r = Fresh(o, e, f, NilSlice) /\ n = [p \in Part |-> <<>>] /\ b = FALSE
                     /\ r = [code |-> o.value, msg |-> o.msg, public |-> Unset, barrier |-> b,
                             cause |-> e, delay |-> 0, frame |-> f,
                             slices |-> [p \in Part |-> NilSlice]]
  BY Zenon DEF Fresh
<1>5. [r EXCEPT !.slices = n] = Fresh(o, e, f, <<>>)
  <2>1. [r EXCEPT !.slices = n] =
           [code |-> o.value, msg |-> o.msg, public |-> Unset, barrier |-> b,
            cause |-> e, delay |-> 0, frame |-> f, slices |-> n]
    BY <1>4
  <2> QED
    BY <1>4, <2>1, Zenon DEF Fresh
<1>6. ValueOf(Fresh(o, e, f, NilSlice))
      = [Fresh(o, e, f, NilSlice) EXCEPT !.slices = [p \in Part |-> <<>>]]
  BY <1>3 DEF ValueOf
<1> QED
  BY <1>4, <1>5, <1>6

LEMMA CopyBuilds ==
    ASSUME IInv, NEW g \in Goroutines, NEW o \in Ops, NEW e \in Bases(o, Len(errors)),
           Copy(g, o, e)
    PROVE  Building(call[g])'
<1> DEFINE x == CASE o.kind = "New" -> Fresh(o, 0, Caller(o.skip), NilSlice)
                  [] o.kind = "Wrap" -> Fresh(o, e, Caller(o.skip), NilSlice)
                  [] OTHER -> errors[e]
           to == IF Constructs(o) THEN "return" ELSE "set"
<1>1. PICK c : c = [pc |-> to, op |-> o, e |-> e, cp |-> x] /\ call'[g] = c
  BY DEF Copy, IInv, Bounded
<1>2. /\ c.pc = to /\ c.op = o /\ c.e = e /\ c.cp = x
      /\ ~Refuses(o, e) /\ errors' = errors /\ arrays' = arrays
  BY <1>1 DEF Copy
<1>3. CASE Constructs(o)
  <2>1. c.pc = "return"
    BY <1>2, <1>3
  <2>2. o.skip \in Nat /\ o.skip <= MaxInt
    <3>1. o.skip \in (-MaxInt)..MaxInt /\ ~(o.skip < 0)
      BY <1>2, <1>3, ErrorOpsAssumption DEF Refuses
    <3> QED
      BY <3>1
  <2>3. Caller(o.skip) = UserFrame(o.skip)
    BY <2>2, CallerRecords
  <2>4. Values!Made(o, e) = MadeOf(o, e, ValueOf(errors[e]))
    BY <1>3, MadeValue DEF MadeOfValues
  <2>5. ValueOf(x) = MadeOf(o, e, ValueOf(errors[e]))
    <3>1. CASE o.kind = "New"
      <4>1. x = Fresh(o, 0, UserFrame(o.skip), NilSlice)
        BY <2>3, <3>1
      <4> HIDE DEF x
      <4>2. MadeOf(o, e, ValueOf(errors[e])) = Fresh(o, 0, UserFrame(o.skip), <<>>)
        BY <3>1 DEF MadeOf, Part
      <4> QED
        BY <4>1, <4>2, FreshValue
    <3>2. CASE o.kind = "Wrap"
      <4>1. x = Fresh(o, e, UserFrame(o.skip), NilSlice)
        BY <2>3, <3>2
      <4> HIDE DEF x
      <4>2. MadeOf(o, e, ValueOf(errors[e])) = Fresh(o, e, UserFrame(o.skip), <<>>)
        BY <3>2 DEF MadeOf, Part
      <4> QED
        BY <4>1, <4>2, FreshValue
    <3> QED
      BY <1>3, <3>1, <3>2 DEF Constructs
  <2> HIDE DEF x, to
  <2>6. Building(c)
    BY <1>2, <2>1, <2>4, <2>5 DEF Building
  <2> QED
    BY <1>1, <1>2, <2>6, SameMemory
<1>4. CASE ~Constructs(o)
  <2>1. c.pc = "set" /\ x = errors[e]
    BY <1>2, <1>4 DEF Constructs
  <2> HIDE DEF x, to
  <2>2. e \in 1..Len(errors)
    BY <1>2, <1>4 DEF Bases, Refuses, Constructs, IInv, Bounded
  <2>3. Building(c)
    BY <1>2, <1>4, <2>1, <2>2 DEF Building
  <2> QED
    BY <1>1, <1>2, <2>3, SameMemory
<1> QED
  BY <1>3, <1>4

\* What a call on its way to a value knows of its receiver.
LEMMA OnItsWay ==
    ASSUME IInv, BInv, NEW g \in Goroutines, call[g].pc # "idle"
    PROVE  /\ call[g] \in Call /\ call[g].op \in Ops /\ call[g].op \in Op
           /\ call[g].e \in Bases(call[g].op, Len(errors)) /\ ~Refuses(call[g].op, call[g].e)
           /\ call[g].pc \in {"set", "store"} =>
                 /\ ~Constructs(call[g].op) /\ call[g].e \in 1..Len(errors)
                 /\ errors[call[g].e] \in Struct /\ Bound(errors[call[g].e])
                 /\ Values!Made(call[g].op, call[g].e) =
                       MadeOf(call[g].op, call[g].e, ValueOf(errors[call[g].e]))
<1>1. call[g] \in Call /\ call[g].op \in Ops /\ Building(call[g])
  BY DEF IInv, Bounded, BInv
<1>2. ASSUME call[g].pc \in {"set", "store"}
      PROVE  ~Constructs(call[g].op) /\ call[g].e \in 1..Len(errors)
  BY <1>1, <1>2 DEF Building
<1> QED
  BY <1>1, <1>2, MadeValue, ErrorOpsAssumption DEF MadeOfValues, Building, IInv, Bounded

LEMMA SetBuilds ==
    ASSUME IInv, BInv, NEW g \in Goroutines, SetScalar(g)
    PROVE  Building(call[g])'
<1> DEFINE o == call[g].op
           e == call[g].e
           x == call[g].cp
<1>1. call[g].pc = "set" /\ errors' = errors /\ arrays' = arrays
  BY DEF SetScalar
<1>2. /\ o \in Ops /\ o \in Op /\ e \in Bases(o, Len(errors)) /\ ~Refuses(o, e)
      /\ e \in 1..Len(errors) /\ errors[e] \in Struct
      /\ Values!Made(o, e) = MadeOf(o, e, ValueOf(errors[e]))
  BY <1>1, OnItsWay
<1>3. x = errors[e]
  BY <1>1 DEF BInv, Building
<1>4. PICK y : GoOn(g, "return", y) /\ ValueOf(y) = MadeOf(o, e, ValueOf(errors[e]))
  <2>1. CASE o.kind = "WithCode" /\ GoOn(g, "return", [x EXCEPT !.code = o.value])
    <3>1. ValueOf([x EXCEPT !.code = o.value]) = [ValueOf(x) EXCEPT !.code = o.value]
      BY <1>2, <1>3, ValueScalar
    <3>2. MadeOf(o, e, ValueOf(x)) = [ValueOf(x) EXCEPT !.code = o.value]
      BY <2>1 DEF MadeOf, Part
    <3> QED
      BY <1>3, <2>1, <3>1, <3>2
  <2>2. CASE o.kind = "WithPublic" /\ GoOn(g, "return", [x EXCEPT !.public = o.value])
    <3>1. ValueOf([x EXCEPT !.public = o.value]) = [ValueOf(x) EXCEPT !.public = o.value]
      BY <1>2, <1>3, ValueScalar
    <3>2. MadeOf(o, e, ValueOf(x)) = [ValueOf(x) EXCEPT !.public = o.value]
      BY <2>2 DEF MadeOf, Part
    <3> QED
      BY <1>3, <2>2, <3>1, <3>2
  <2>3. CASE o.kind = "WithoutPublic" /\ GoOn(g, "return", [x EXCEPT !.barrier = TRUE])
    <3>1. ValueOf([x EXCEPT !.barrier = TRUE]) = [ValueOf(x) EXCEPT !.barrier = TRUE]
      BY <1>2, <1>3, ValueScalar
    <3>2. MadeOf(o, e, ValueOf(x)) = [ValueOf(x) EXCEPT !.barrier = TRUE]
      BY <2>3 DEF MadeOf, Part
    <3> QED
      BY <1>3, <2>3, <3>1, <3>2
  <2>4. CASE o.kind = "WithRetryDelay" /\ GoOn(g, "return", [x EXCEPT !.delay = o.d])
    <3>1. ValueOf([x EXCEPT !.delay = o.d]) = [ValueOf(x) EXCEPT !.delay = o.d]
      BY <1>2, <1>3, ValueScalar
    <3>2. MadeOf(o, e, ValueOf(x)) = [ValueOf(x) EXCEPT !.delay = o.d]
      BY <2>4 DEF MadeOf, Part
    <3> QED
      BY <1>3, <2>4, <3>1, <3>2
  <2> QED
    BY <2>1, <2>2, <2>3, <2>4 DEF SetScalar
<1>5. PICK c : c = [pc |-> "return", op |-> o, e |-> e, cp |-> y] /\ call'[g] = c
  BY <1>4 DEF GoOn, IInv, Bounded
<1>6. Building(c)
  BY <1>2, <1>4, <1>5 DEF Building
<1> QED
  BY <1>1, <1>5, <1>6, SameMemory

\* An element of a slice is one of its array.
LEMMA ElementAt ==
    ASSUME arrays \in Seq(Seq(Data \cup {Unset})), NEW s \in Slice, Within(s),
           NEW i \in 1..s.len
    PROVE  /\ s.array \in 1..Len(arrays) /\ i \in 1..Len(arrays[s.array])
           /\ Elements(s)[i] = arrays[s.array][i]
<1>1. s.array # 0 /\ s.array \in 1..Len(arrays) /\ s.len \in Nat /\ s.len <= Len(arrays[s.array])
  BY DEF Within, Size, Slice
<1>2. PICK q : q = arrays[s.array] /\ q \in Seq(Data \cup {Unset}) /\ s.len <= Len(q)
  BY <1>1
<1>3. SubSeq(q, 1, s.len)[i] = q[i] /\ i \in 1..Len(q)
  BY <1>1, <1>2
<1> QED
  BY <1>1, <1>2, <1>3 DEF Elements

LEMMA Joined ==
    ASSUME NEW S, NEW q \in Seq(S), NEW a \in Seq(S), NEW b \in Seq(S),
           Len(q) = Len(a) + Len(b),
           \A i \in 1..Len(a) : q[i] = a[i],
           \A i \in (Len(a) + 1)..Len(q) : q[i] = b[i - Len(a)]
    PROVE  q = a \o b
<1>1. /\ a \o b \in Seq(S) /\ Len(a \o b) = Len(a) + Len(b)
      /\ \A i \in 1..Len(q) : (a \o b)[i] = IF i <= Len(a) THEN a[i] ELSE b[i - Len(a)]
  OBVIOUS
<1>2. \A i \in 1..Len(q) : q[i] = (a \o b)[i]
  BY <1>1
<1> QED
  BY <1>1, <1>2, SeqEqual, Zenon

\* append finds room: that is, for nothing.
LEMMA ExtendBuilds ==
    ASSUME IInv, BInv, NEW g \in Goroutines, Extend(g)
    PROVE  Building(call[g])'
<1> DEFINE o == call[g].op
           e == call[g].e
           y == errors[e]
           k == o.kind
           old == y.slices[k]
<1>1. call[g].pc = "set" /\ k \in Part /\ errors' = errors /\ arrays' = arrays
  BY DEF Extend
<1>2. /\ o \in Ops /\ o \in Op /\ e \in Bases(o, Len(errors)) /\ ~Refuses(o, e)
      /\ ~Constructs(o) /\ e \in 1..Len(errors) /\ y \in Struct /\ Bound(y)
  BY <1>1, OnItsWay
<1>3. call[g].cp = y
  BY <1>1 DEF BInv, Building
<1>4. old \in Slice /\ Within(old) /\ Len(o.items) \in Nat
  BY <1>1, <1>2 DEF Bound, Op
<1>5. PICK m, n : m = old.len /\ n = Len(o.items) /\ m \in Nat /\ n \in Nat
  BY <1>4 DEF Slice
<1>6. PICK t : /\ t = [array |-> old.array, len |-> m + n, cap |-> m]
               /\ GoOn(g, "store", With(y, k, t)) /\ m + n <= m
  <2>1. Clip(old).array = old.array /\ Clip(old).len = old.len /\ Clip(old).cap = old.len
    BY <1>4 DEF Clip, Slice
  <2> QED
    BY <1>3, <1>5, <2>1 DEF Extend
<1>7. t.len = m + n /\ t.array = old.array
  BY <1>6
<1>8. t.len = old.len + Len(o.items) /\ t.len = old.len
  <2>1. m + n <= m
    BY <1>6
  <2>2. m + n = m
    BY <1>5, <2>1
  <2> QED
    BY <1>5, <1>7, <2>2
<1>9. PICK c : c = [pc |-> "store", op |-> o, e |-> e, cp |-> With(y, k, t)] /\ call'[g] = c
  BY <1>6 DEF GoOn, IInv, Bounded
<1>10. c.cp = With(y, k, t) /\ With(y, k, t).slices[k] = t
  BY <1>1, <1>2, <1>9 DEF With, Struct
<1>11. Elements(t) = Elements(old)
  BY <1>7, <1>8 DEF Elements
<1>12. Enlarged(c.cp, o, y)
  BY <1>10, <1>11, <1>8 DEF Enlarged, Longer
<1>13. c.pc = "store" /\ c.op = o /\ c.e = e
  BY <1>9
<1>14. Building(c)
  BY <1>2, <1>12, <1>13 DEF Building
<1> QED
  BY <1>1, <1>9, <1>14, SameMemory

\* A step that leaves the receiver's arrays alone leaves its value alone.
LEMMA ReceiverKept ==
    ASSUME IInv, BInv, NEW g \in Goroutines, Begin(g) \/ Proceed(g),
           call[g].pc \in {"set", "store"}, NEW e, e = call[g].e
    PROVE  /\ errors'[e] = errors[e]
           /\ ValueOf(errors[e])' = ValueOf(errors[e])
           /\ \A p \in Part : Elements(errors[e].slices[p])' = Elements(errors[e].slices[p])
<1>1. e \in 1..Len(errors) /\ Bound(errors[e])
  BY OnItsWay
<1>2. PICK y : y = errors[e]
  OBVIOUS
<1>3. errors'[e] = y
  BY <1>1, <1>2, StepOf
<1>4. \A a \in 1..Len(arrays) : arrays'[a] # arrays[a] => ~Reads(y, a)
  BY <1>1, <1>2, StepOf DEF IInv, Private
<1>5. /\ ValueOf(y)' = ValueOf(y)
      /\ \A p \in Part : Elements(y.slices[p])' = Elements(y.slices[p])
  BY <1>1, <1>2, <1>4, ValueKept
<1>6. /\ ValueOf(errors[e])' = ValueOf(y)'
      /\ \A p \in Part : Elements(errors[e].slices[p])' = Elements(y.slices[p])'
  BY <1>3
<1> QED
  BY <1>2, <1>3, <1>5, <1>6

\* append moves the elements to a larger array.
LEMMA GrowBuilds ==
    ASSUME IInv, BInv, NEW g \in Goroutines, Grow(g)
    PROVE  Building(call[g])'
<1>1. call[g].pc = "set" /\ call[g].op.kind \in Part /\ errors' = errors /\ Proceed(g)
  BY DEF Grow, Proceed
<1>2. PICK o, e, k : o = call[g].op /\ e = call[g].e /\ k = o.kind
  OBVIOUS
<1>3. PICK y : y = errors[e]
  OBVIOUS
<1>4. /\ o \in Ops /\ o \in Op /\ e \in Bases(o, Len(errors)) /\ ~Refuses(o, e) /\ k \in Part
      /\ ~Constructs(o) /\ e \in 1..Len(errors) /\ y \in Struct /\ Bound(y)
  BY <1>1, <1>2, <1>3, OnItsWay
<1>5. call[g].cp = y
  BY <1>1, <1>2, <1>3 DEF BInv, Building
<1>6. PICK old : old = y.slices[k] /\ old \in Slice /\ Within(old)
  BY <1>4 DEF Bound
<1>7. PICK m \in Nat, n \in Nat : m = old.len /\ n = Len(o.items)
  BY <1>4, <1>6 DEF Slice, Op
<1>8. PICK slack, fill, t :
         /\ slack \in Nat
         /\ fill = [i \in 1..(m + n + slack) |-> IF i <= m THEN Elements(old)[i] ELSE Unset]
         /\ arrays' = Append(arrays, fill)
         /\ t = [array |-> Len(arrays) + 1, len |-> m + n, cap |-> m + n + slack]
         /\ GoOn(g, "store", With(y, k, t))
  <2>1. Clip(old).array = old.array /\ Clip(old).len = m
    BY <1>6, <1>7 DEF Clip, Slice
  <2>2. Elements(Clip(old)) = Elements(old)
    BY <1>7, <2>1 DEF Elements
  <2>3. \A slack \in 0..MaxSlack : slack \in Nat
    OBVIOUS
  <2> QED
    BY <1>2, <1>5, <1>6, <1>7, <2>1, <2>2, <2>3 DEF Grow
<1>9. arrays \in Seq(Seq(Data \cup {Unset})) /\ Len(arrays) \in Nat
  BY DEF IInv, Bounded
<1>10. fill \in Seq(Data \cup {Unset}) /\ Len(fill) = m + n + slack
  <2>1. \A i \in 1..m : Elements(old)[i] \in Data \cup {Unset}
    <3> SUFFICES ASSUME NEW i \in 1..m PROVE Elements(old)[i] \in Data \cup {Unset}
      OBVIOUS
    <3>1. /\ old.array \in 1..Len(arrays) /\ i \in 1..Len(arrays[old.array])
          /\ Elements(old)[i] = arrays[old.array][i]
      BY <1>6, <1>7, <1>9, ElementAt
    <3> QED
      BY <1>9, <3>1
  <2>2. \A i \in 1..(m + n + slack) :
           (IF i <= m THEN Elements(old)[i] ELSE Unset) \in Data \cup {Unset}
    BY <2>1
  <2> QED
    BY <1>8, <2>2
<1>11. arrays'[Len(arrays) + 1] = fill
  BY <1>8, <1>9, <1>10
<1>12. t.array = Len(arrays) + 1 /\ t.len = m + n
  BY <1>8
<1>13. Elements(t)' = SubSeq(fill, 1, m + n)
  BY <1>9, <1>11, <1>12 DEF Elements
<1>14. \A i \in 1..m : SubSeq(fill, 1, m + n)[i] = Elements(old)[i]
  <2>1. \A i \in 1..m : i <= m + n /\ i <= m + n + slack
    BY <1>8
  <2>2. \A i \in 1..(m + n) : SubSeq(fill, 1, m + n)[i] = fill[i]
    BY <1>10
  <2>3. \A i \in 1..m : fill[i] = Elements(old)[i]
    BY <1>8, <2>1
  <2> QED
    BY <2>1, <2>2, <2>3
<1>15. errors'[e] = y /\ Elements(old)' = Elements(old)
  <2>1. Elements(errors[e].slices[k])' = Elements(errors[e].slices[k]) /\ errors'[e] = errors[e]
    BY <1>1, <1>2, <1>4, ReceiverKept
  <2> QED
    BY <1>3, <1>6, <2>1
<1>16. PICK c : c = [pc |-> "store", op |-> o, e |-> e, cp |-> With(y, k, t)] /\ call'[g] = c
  BY <1>2, <1>8 DEF GoOn, IInv, Bounded
<1>17. c.cp = With(y, k, t) /\ With(y, k, t).slices[k] = t
  BY <1>4, <1>16 DEF With, Struct
<1>18. Enlarged(c.cp, o, errors[e])'
  <2>1. c.cp.slices[o.kind] = t /\ errors'[e].slices[o.kind] = old
    BY <1>2, <1>6, <1>15, <1>17
  <2>2. /\ Elements(c.cp.slices[o.kind])' = Elements(t)'
        /\ Elements(errors[e].slices[o.kind])' = Elements(old)'
    BY <2>1
  <2>3. \A i \in 1..m : Elements(t)'[i] = Elements(old)'[i]
    BY <1>13, <1>14, <1>15
  <2>4. c.cp = With(errors'[e], o.kind, c.cp.slices[o.kind])
    BY <1>2, <1>15, <1>17
  <2>5. t.len = old.len + Len(o.items) /\ m = old.len
    BY <1>7, <1>12
  <2> QED
    BY <2>1, <2>2, <2>3, <2>4, <2>5 DEF Enlarged, Longer
<1>19. c.pc = "store" /\ c.op = o /\ c.e = e
  BY <1>16
<1>20. Building(c)'
  BY <1>1, <1>4, <1>18, <1>19 DEF Building
<1> QED
  BY <1>16, <1>20

\* The elements of an error's slice.
LEMMA ElementsType ==
    ASSUME arrays \in Seq(Seq(Data \cup {Unset})), NEW s, s \in Slice, Within(s)
    PROVE  Elements(s) \in Seq(Data \cup {Unset}) /\ Len(Elements(s)) = s.len
<1>1. CASE s.array = 0
  <2>1. s.len = 0
    BY <1>1 DEF Within, Size, Slice
  <2> QED
    BY <1>1, <2>1 DEF Elements
<1>2. CASE s.array # 0
  <2>1. s.array \in 1..Len(arrays) /\ s.len \in Nat /\ s.len <= Len(arrays[s.array])
    BY <1>2 DEF Within, Size, Slice
  <2>2. PICK q : q = arrays[s.array] /\ q \in Seq(Data \cup {Unset}) /\ s.len <= Len(q)
    BY <2>1
  <2>3. SubSeq(q, 1, s.len) \in Seq(Data \cup {Unset}) /\ Len(SubSeq(q, 1, s.len)) = s.len
    BY <2>1, <2>2
  <2> QED
    BY <1>2, <2>2, <2>3 DEF Elements
<1> QED
  BY <1>1, <1>2

\* g is about to write the items into s, behind the elements of old.
Pending(g, s, old, items) ==
    /\ s \in Slice /\ Within(s) /\ old \in Slice /\ Within(old) /\ items \in Seq(Data)
    /\ s = call[g].cp.slices[call[g].op.kind] /\ items = call[g].op.items
    /\ Longer(s, old, items)

\* What the slice holds once the items are in their places.
LEMMA StoredElements ==
    ASSUME IInv, NEW g \in Goroutines, Store(g),
           NEW s, NEW old, NEW items, Pending(g, s, old, items)
    PROVE  Elements(s)' = Elements(old) \o items
<1>1. /\ s \in Slice /\ Within(s) /\ old \in Slice /\ Within(old) /\ items \in Seq(Data)
      /\ s = call[g].cp.slices[call[g].op.kind] /\ items = call[g].op.items
  BY DEF Pending
<1>2. s.len = old.len + Len(items) /\ \A i \in 1..old.len : Elements(s)[i] = Elements(old)[i]
  BY DEF Pending, Longer
<1>3. PICK D : D = Data \cup {Unset} /\ items \in Seq(D)
  <2>1. items \in Seq(Data \cup {Unset})
    BY <1>1
  <2> QED
    BY <2>1
<1>4. arrays \in Seq(Seq(D))
  BY <1>3 DEF IInv, Bounded
<1>5. PICK m \in Nat, n \in Nat : m = old.len /\ n = Len(items) /\ s.len = m + n
  <2>1. s.len = old.len + Len(items)
    BY <1>2
  <2>2. old.len \in Nat
    BY <1>1 DEF Slice
  <2>3. Len(items) \in Nat
    BY <1>1
  <2> QED
    BY <2>1, <2>2, <2>3
<1>6. Elements(old) \in Seq(D) /\ Len(Elements(old)) = m
  BY <1>1, <1>3, <1>4, <1>5, ElementsType
<1>7. Elements(s) \in Seq(D) /\ Len(Elements(s)) = m + n
  BY <1>1, <1>3, <1>4, <1>5, ElementsType
<1>8. CASE items = <<>>
  <2>1. arrays' = arrays /\ n = 0
    BY <1>1, <1>5, <1>8 DEF Store
  <2>2. Elements(s)' = Elements(s)
    BY <2>1 DEF Elements
  <2>3. \A i \in 1..m : Elements(s)[i] = Elements(old)[i]
    BY <1>5, <1>2
  <2>4. Elements(s) = Elements(old) \o items
    BY <1>3, <1>6, <1>7, <2>1, <2>3, <1>5, Joined
  <2> QED
    BY <2>2, <2>4
<1>9. CASE items # <<>>
  <2>1. Storing(g) /\ s.array = Target(g) /\ s.array # 0
    BY <1>1, <1>9 DEF Storing, Target, Store, IInv, Private
  <2>2. PICK b : b = s.array /\ b \in 1..Len(arrays)
    BY <1>1, <2>1 DEF Within
  <2>3. PICK q : q = arrays[b] /\ q \in Seq(D) /\ m + n <= Len(q)
    BY <1>1, <1>4, <1>5, <2>1, <2>2 DEF Within, Size
  <2>4. PICK r : /\ r = [i \in 1..Len(q) |-> IF i \in (m + 1)..(m + n) THEN items[i - m] ELSE q[i]]
                 /\ arrays' = [arrays EXCEPT ![b] = r]
    <3>1. (m + n) - n = m /\ s.len - Len(items) = m
      BY <1>5
    <3>2. DOMAIN q = 1..Len(q)
      BY <2>3
    <3> QED
      BY <1>1, <1>5, <1>9, <2>2, <2>3, <3>1, <3>2 DEF Store
  <2>5. arrays'[b] = r
    BY <1>4, <2>2, <2>4
  <2>6. r \in Seq(D) /\ Len(r) = Len(q)
    <3>1. ASSUME NEW i \in 1..Len(q)
          PROVE  (IF i \in (m + 1)..(m + n) THEN items[i - m] ELSE q[i]) \in D
      <4>1. i \in (m + 1)..(m + n) => i - m \in 1..Len(items)
        BY <1>5
      <4> QED
        BY <1>3, <2>3, <4>1
    <3> QED
      BY <2>3, <2>4, <3>1
  <2>7. PICK t : t = SubSeq(r, 1, m + n) /\ Elements(s)' = t
    BY <1>5, <2>1, <2>2, <2>5 DEF Elements
  <2>8. /\ t \in Seq(D) /\ Len(t) = m + n
        /\ \A i \in 1..(m + n) : t[i] = r[i] /\ i \in 1..Len(q)
    BY <2>3, <2>6, <2>7
  <2>9. ASSUME NEW i \in 1..m PROVE t[i] = Elements(old)[i]
    <3>1. i \in 1..(m + n) /\ i \notin (m + 1)..(m + n)
      OBVIOUS
    <3>2. t[i] = q[i]
      BY <2>4, <2>8, <3>1
    <3>3. Elements(s)[i] = arrays[s.array][i]
      BY <1>1, <1>3, <1>4, <1>5, <3>1, ElementAt
    <3>4. Elements(s)[i] = Elements(old)[i]
      BY <1>5, <1>2
    <3> QED
      BY <2>2, <2>3, <3>2, <3>3, <3>4
  <2>10. ASSUME NEW i \in (m + 1)..(m + n) PROVE t[i] = items[i - m]
    <3>1. i \in 1..(m + n)
      OBVIOUS
    <3> QED
      BY <2>4, <2>8, <3>1
  <2>11. t = Elements(old) \o items
    <3>1. PICK a : a = Elements(old)
      OBVIOUS
    <3>2. a \in Seq(D) /\ t \in Seq(D) /\ items \in Seq(D)
      BY <1>3, <1>6, <2>8, <3>1
    <3>3. /\ Len(t) = Len(a) + Len(items) /\ \A i \in 1..Len(a) : t[i] = a[i]
          /\ \A i \in (Len(a) + 1)..Len(t) : t[i] = items[i - Len(a)]
      BY <1>5, <1>6, <2>8, <2>9, <2>10, <3>1
    <3>4. t = a \o items
      BY <3>2, <3>3, Joined
    <3> QED
      BY <3>1, <3>4
  <2> QED
    BY <2>7, <2>11
<1> QED
  BY <1>8, <1>9

LEMMA StoreBuilds ==
    ASSUME IInv, BInv, NEW g \in Goroutines, Store(g)
    PROVE  Building(call[g])'
<1>1. call[g].pc = "store" /\ errors' = errors /\ Proceed(g)
  BY DEF Store, Proceed
<1>2. PICK o, e, k : o = call[g].op /\ e = call[g].e /\ k = o.kind
  OBVIOUS
<1>3. PICK y : y = errors[e]
  OBVIOUS
<1>4. /\ o \in Ops /\ o \in Op /\ e \in Bases(o, Len(errors)) /\ ~Refuses(o, e)
      /\ ~Constructs(o) /\ e \in 1..Len(errors) /\ y \in Struct /\ Bound(y)
  BY <1>1, <1>2, <1>3, OnItsWay
<1>5. k \in Part /\ o.items \in Seq(Data)
  BY <1>1, <1>2, <1>4 DEF IInv, Bounded, Op
<1>6. PICK x : x = call[g].cp /\ x \in Struct /\ Bound(x) /\ Enlarged(x, o, y)
  BY <1>1, <1>2, <1>3 DEF IInv, Bounded, Call, BInv, Building
<1>7. PICK old, s : old = y.slices[k] /\ s = x.slices[k]
  OBVIOUS
<1>8. old \in Slice /\ Within(old) /\ s \in Slice /\ Within(s)
  BY <1>4, <1>5, <1>6, <1>7 DEF Bound
<1>9. Longer(s, old, o.items) /\ x = With(y, k, s)
  BY <1>2, <1>6, <1>7 DEF Enlarged
<1>10. Elements(s)' = Elements(old) \o o.items
  <2>1. Pending(g, s, old, o.items)
    BY <1>2, <1>5, <1>6, <1>7, <1>8, <1>9 DEF Pending
  <2> QED
    BY <2>1, StoredElements
<1>11. /\ errors'[e] = y /\ ValueOf(errors[e])' = ValueOf(y)
       /\ \A p \in Part : Elements(y.slices[p])' = Elements(y.slices[p])
  <2>1. /\ errors'[e] = errors[e] /\ ValueOf(errors[e])' = ValueOf(errors[e])
        /\ \A p \in Part : Elements(errors[e].slices[p])' = Elements(errors[e].slices[p])
    BY <1>1, <1>2, ReceiverKept
  <2> QED
    BY <1>3, <2>1
<1>12. PICK F : F = [p \in Part |-> Elements(y.slices[p])]
  OBVIOUS
<1>13. [p \in Part |-> Elements(x.slices[p])'] = [F EXCEPT ![k] = @ \o o.items]
  <2>1. x.slices[k] = s /\ \A p \in Part \ {k} : x.slices[p] = y.slices[p]
    BY <1>4, <1>5, <1>9 DEF With, Struct
  <2>2. Elements(x.slices[k])' = F[k] \o o.items
    BY <1>5, <1>7, <1>10, <1>12
  <2>3. \A p \in Part \ {k} : Elements(x.slices[p])' = F[p]
    BY <1>11, <1>12, <2>1
  <2> QED
    BY <1>5, <1>12, <2>2, <2>3
<1>14. ValueOf(x)' = [x EXCEPT !.slices = [F EXCEPT ![k] = @ \o o.items]]
  BY <1>13 DEF ValueOf
<1>15. ValueOf(y) = [y EXCEPT !.slices = F]
  BY <1>12 DEF ValueOf
<1>16. ValueOf(x)' = [ValueOf(y) EXCEPT !.slices[k] = @ \o o.items]
  BY <1>4, <1>5, <1>9, <1>14, <1>15 DEF With, Struct
<1>17. Values!Made(o, e)' = MadeOf(o, e, ValueOf(errors[e])')
  BY <1>1, <1>4, MadeValueNext DEF MadeOfValues
<1>18. MadeOf(o, e, ValueOf(y)) = [ValueOf(y) EXCEPT !.slices[k] = @ \o o.items]
  BY <1>2, <1>5 DEF MadeOf, Part
<1>19. ValueOf(x)' = Values!Made(o, e)'
  BY <1>11, <1>16, <1>17, <1>18
<1>20. PICK c : c = [pc |-> "return", op |-> o, e |-> e, cp |-> x] /\ call'[g] = c
  BY <1>2, <1>6 DEF Store, GoOn, IInv, Bounded
<1>21. c.pc = "return" /\ c.op = o /\ c.e = e /\ c.cp = x
  BY <1>20
<1>22. Building(c)'
  BY <1>1, <1>4, <1>19, <1>21 DEF Building
<1> QED
  BY <1>20, <1>22

LEMMA InitBInv == Init => BInv
BY DEF Init, Idle, BInv, Building

\* One goroutine's step keeps its own call on its way ...
LEMMA OwnBuilds ==
    ASSUME IInv, BInv, NEW g \in Goroutines, Begin(g) \/ Proceed(g)
    PROVE  Building(call[g])'
<1>1. CASE Begin(g)
  <2>1. PICK o \in Ops : \E e \in Bases(o, Len(errors)) : Refuse(g, o, e) \/ Copy(g, o, e)
    BY <1>1 DEF Begin
  <2>2. PICK e \in Bases(o, Len(errors)) : Refuse(g, o, e) \/ Copy(g, o, e)
    BY <2>1
  <2>3. CASE Refuse(g, o, e)
    <3>1. PICK c : c = call[g] /\ call'[g] = c /\ Building(c)
      BY <2>3 DEF Refuse, BInv
    <3>2. errors' = errors /\ arrays' = arrays
      BY <2>3 DEF Refuse
    <3> QED
      BY <3>1, <3>2, SameMemory
  <2> QED
    BY <2>2, <2>3, CopyBuilds
<1>2. CASE Return(g)
  <2>1. call'[g].pc = "idle"
    BY <1>2 DEF Return, Idle, IInv, Bounded
  <2> QED
    BY <2>1 DEF Building
<1> QED
  BY <1>1, <1>2, SetBuilds, ExtendBuilds, GrowBuilds, StoreBuilds DEF Proceed

\* ... and, writing to nothing that another call reads, that of the others.
LEMMA StepBInv == IInv /\ BInv /\ [Next]_vars => BInv'
<1> SUFFICES ASSUME IInv, BInv, [Next]_vars, NEW h \in Goroutines PROVE Building(call[h])'
  BY DEF BInv
<1>1. CASE UNCHANGED vars
  <2>1. PICK c : c = call[h] /\ call'[h] = c /\ Building(c)
    BY <1>1 DEF vars, BInv
  <2> QED
    BY <1>1, <2>1, SameMemory DEF vars
<1>2. CASE Next
  <2>1. PICK g \in Goroutines : Begin(g) \/ Proceed(g)
    BY <1>2 DEF Next
  <2>2. CASE h # g
    <3>1. PICK c : c = call[h] /\ call'[h] = c
      BY <2>1, <2>2, StepOf
    <3>2. /\ c \in Call /\ Bound(c.cp) /\ Building(c)
          /\ c.pc # "idle" => c.op \in Ops
          /\ c.pc = "store" => c.op.kind \in Part
      BY <3>1 DEF IInv, Bounded, BInv
    <3>3. \A a \in 1..Len(arrays) : arrays'[a] # arrays[a] => ~Reads(c.cp, a)
      BY <2>1, <2>2, <3>1, StepOf DEF IInv, Private
    <3>4. Building(c)'
      BY <2>1, <3>2, <3>3, BuildingKept
    <3> QED
      BY <3>1, <3>4
  <2> QED
    BY <2>1, <2>2, OwnBuilds
<1> QED
  BY <1>1, <1>2

\* The abstract variable.
Errs == [i \in 1..Len(errors) |-> ValueOf(errors[i])]

\* A step that returns no new error leaves the values alone.
LEMMA SameErrs ==
    ASSUME IInv, [Next]_vars, errors' = errors
    PROVE  Errs' = Errs
<1>1. \A i \in 1..Len(errors) : ValueOf(errors[i])' = ValueOf(errors[i])
  BY ValuesKept
<1> QED
  BY <1>1 DEF Errs

\* One that does appends its value.
LEMMA ReturnErrs ==
    ASSUME IInv, BInv, NEW g \in Goroutines, Return(g)
    PROVE  /\ Errs' = Append(Errs, Values!Made(call[g].op, call[g].e))
           /\ Len(Errs') = Len(errors')
<1>1. PICK x : x = call[g].cp /\ x \in Struct
  BY DEF IInv, Bounded, Call
<1>2. /\ errors' = Append(errors, x) /\ arrays' = arrays /\ errors \in Seq(Struct)
      /\ [Next]_vars /\ call[g].pc = "return"
  BY <1>1 DEF Return, IInv, Bounded, Next, Proceed
<1>3. PICK n \in Nat : n = Len(errors)
  BY <1>2
<1>4. Len(errors') = n + 1 /\ errors'[n + 1] = x
  BY <1>1, <1>2, <1>3
<1>5. \A i \in 1..n : ValueOf(errors[i])' = ValueOf(errors[i])
  BY <1>2, <1>3, ValuesKept
<1>6. ValueOf(errors[n + 1])' = ValueOf(x)
  <2>1. ValueOf(x)' = ValueOf(x)
    BY <1>2 DEF ValueOf, Elements
  <2> QED
    BY <1>4, <2>1
<1>7. PICK v : v = ValueOf(x) /\ v = Values!Made(call[g].op, call[g].e)
  BY <1>1, <1>2 DEF BInv, Building
<1>8. Errs' = [i \in 1..(n + 1) |-> ValueOf(errors[i])']
  BY <1>4 DEF Errs
<1>9. Errs = [i \in 1..n |-> ValueOf(errors[i])]
  BY <1>3 DEF Errs
<1>10. /\ Len(Errs') = n + 1 /\ Errs'[n + 1] = v
       /\ \A i \in 1..n : Errs'[i] = Errs[i]
  BY <1>5, <1>6, <1>7, <1>8, <1>9
<1>11. Errs' = Append(Errs, v)
  <2>1. PICK q, r : q = Errs /\ r = Errs'
    OBVIOUS
  <2>2. q = [i \in 1..n |-> q[i]] /\ r = [i \in 1..(n + 1) |-> r[i]]
    BY <1>8, <1>9, <2>1
  <2>3. Append(q, v) = [i \in 1..(n + 1) |-> IF i = n + 1 THEN v ELSE q[i]]
    BY <2>2
  <2>4. \A i \in 1..(n + 1) : r[i] = IF i = n + 1 THEN v ELSE q[i]
    BY <1>10, <2>1
  <2> QED
    BY <2>1, <2>2, <2>3, <2>4
<1> QED
  BY <1>4, <1>7, <1>10, <1>11

\* Every step is a call on values, all at once, or invisible.
LEMMA StepValues ==
    IInv /\ BInv /\ [Next]_vars => [Values!Next]_(Values!vars)
<1> SUFFICES ASSUME IInv, BInv, [Next]_vars PROVE Values!Next \/ UNCHANGED Values!vars
  OBVIOUS
<1>0. Len(Errs) = Len(errors)
  BY DEF Errs, IInv, Bounded
<1>1. CASE errors' = errors /\ last' = last
  <2>1. Errs' = Errs
    BY <1>1, SameErrs
  <2> QED
    BY <1>1, <2>1 DEF Values!vars, Errs
<1>2. ASSUME NEW g \in Goroutines, NEW o \in Ops, NEW e \in Bases(o, Len(errors)), Refuse(g, o, e)
      PROVE  Values!Next
  <2>1. /\ Refuses(o, e) /\ errors' = errors
        /\ last' = [last EXCEPT ![g] = Returned(o, e, Refusal(o, e))]
    BY <1>2 DEF Refuse
  <2>2. Errs' = Errs
    BY <2>1, SameErrs
  <2>3. Values!Call(g, o, e)
    BY <2>1, <2>2 DEF Values!Call, Values!Refuses, Refuses, Values!Constructs, Constructs,
             Values!Returned, Returned, Values!Refusal, Refusal, Values!Panicked, Panicked, Errs
  <2>4. e \in Values!Bases(o, Len(Errs))
    BY <1>0 DEF Values!Bases, Bases
  <2> QED
    BY <2>3, <2>4 DEF Values!Next, Errs
<1>3. ASSUME NEW g \in Goroutines, Return(g) PROVE Values!Next
  <2>1. PICK o, e : o = call[g].op /\ e = call[g].e
    OBVIOUS
  <2>2. o \in Ops /\ e \in Bases(o, Len(errors)) /\ ~Refuses(o, e)
    BY <1>3, <2>1, OnItsWay DEF Return
  <2>3. Errs' = Append(Errs, Values!Made(o, e)) /\ Len(Errs') = Len(errors')
    BY <1>3, <2>1, ReturnErrs
  <2>4. last' = [last EXCEPT ![g] = Returned(o, e, Len(errors'))]
    BY <1>3, <2>1 DEF Return
  <2>5. Values!Call(g, o, e)
    BY <2>2, <2>3, <2>4 DEF Values!Call, Values!Refuses, Refuses, Values!Constructs, Constructs,
             Values!Returned, Returned, Errs
  <2>6. e \in Values!Bases(o, Len(Errs))
    BY <1>0, <2>2 DEF Values!Bases, Bases
  <2> QED
    BY <2>2, <2>5, <2>6 DEF Values!Next, Errs
<1>4. \/ errors' = errors /\ last' = last
      \/ \E g \in Goroutines, o \in Ops : \E e \in Bases(o, Len(errors)) : Refuse(g, o, e)
      \/ \E g \in Goroutines : Return(g)
  BY DEF vars, Next, Begin, Proceed, Copy, SetScalar, Extend, Grow, Store
<1> QED
  BY <1>1, <1>2, <1>3, <1>4

LEMMA InitValues == Init => Values!Init
BY DEF Init, Values!Init, NoCall, Values!NoCall, NoOp, Values!NoOp, Returned, Values!Returned

\* The constructors and builders, which share backing arrays and interleave
\* step by step, implement those of error values that are made all at once.
THEOREM ErrorsImplementValues == Spec => ImplementsValues
<1>1. IInv /\ BInv /\ [Next]_vars => IInv' /\ BInv' /\ [Values!Next]_(Values!vars)
  BY StepIInv, StepBInv, StepValues
<1> QED
  BY <1>1, InitIInv, InitBInv, InitValues, PTL DEF Spec, ImplementsValues, Values!Spec

----------------------------------------------------------------------------
(* What callers collect (module Collecting).                               *)

\* Nobody who builds errors refers to array a.
Unread(a) ==
    /\ \A i \in 1..Len(errors) : ~Reads(errors[i], a)
    /\ \A g \in Goroutines : ~Reads(call[g].cp, a)

\* Building leaves the length of every array, and makes use of no array that
\* is not an error's or its own.
LEMMA StepLengths ==
    ASSUME IInv, [Next]_vars
    PROVE  /\ Len(arrays) <= Len(arrays')
           /\ \A a \in 1..Len(arrays) : Len(arrays'[a]) = Len(arrays[a])
<1>0. arrays \in Seq(Seq(Data \cup {Unset}))
  BY DEF IInv, Bounded
<1>1. CASE arrays' = arrays
  BY <1>0, <1>1
<1>2. CASE \E g \in Goroutines : Grow(g)
  <2>1. \E fill : arrays' = Append(arrays, fill)
    BY <1>2 DEF Grow
  <2> QED
    BY <1>0, <2>1
<1>3. CASE \E g \in Goroutines : Store(g)
  BY <1>0, <1>3, StoreArrays
<1>4. \/ arrays' = arrays
      \/ \E g \in Goroutines : Grow(g)
      \/ \E g \in Goroutines : Store(g)
  BY DEF Next, Begin, Proceed, vars, Refuse, Copy, SetScalar, Extend, Return
<1> QED
  BY <1>1, <1>2, <1>3, <1>4

LEMMA CopyUnread ==
    ASSUME IInv, NEW g \in Goroutines, NEW o \in Ops, NEW e \in Bases(o, Len(errors)),
           Copy(g, o, e), NEW a \in Nat \ {0}, Unread(a)
    PROVE  ~Reads(call'[g].cp, a)
<1>0. ~Refuses(o, e) /\ o \in Op /\ e \in 0..Len(errors)
  BY DEF Copy, IInv, Bounded, Bases
<1>1. call'[g].cp = (CASE o.kind = "New" -> Fresh(o, 0, Caller(o.skip), NilSlice)
                       [] o.kind = "Wrap" -> Fresh(o, e, Caller(o.skip), NilSlice)
                       [] OTHER -> errors[e])
  BY DEF Copy, IInv, Bounded
<1>2. CASE Constructs(o)
  <2>1. call'[g].cp.slices = [p \in Part |-> NilSlice]
    BY <1>1, <1>2 DEF Constructs, Fresh
  <2> QED
    BY <2>1 DEF Reads, NilSlice
<1>3. CASE ~Constructs(o)
  <2>1. e \in 1..Len(errors) /\ call'[g].cp = errors[e]
    BY <1>0, <1>1, <1>3 DEF Refuses, Constructs, IInv, Bounded
  <2> QED
    BY <2>1 DEF Unread
<1> QED
  BY <1>2, <1>3

LEMMA ProceedUnread ==
    ASSUME IInv, NEW g \in Goroutines, SetScalar(g) \/ Extend(g) \/ Grow(g) \/ Store(g),
           NEW a \in 1..Len(arrays), ~Reads(call[g].cp, a)
    PROVE  ~Reads(call'[g].cp, a)
<1> DEFINE x == call[g].cp
           k == call[g].op.kind
<1>1. x \in Struct /\ g \in DOMAIN call
  BY DEF IInv, Bounded, Call
<1>2. \A pc, y : GoOn(g, pc, y) => call'[g].cp = y
  BY <1>1 DEF GoOn
<1>3. CASE SetScalar(g)
  <2>1. /\ \A v : /\ [x EXCEPT !.code = v].slices = x.slices
                  /\ [x EXCEPT !.public = v].slices = x.slices
                  /\ [x EXCEPT !.delay = v].slices = x.slices
        /\ [x EXCEPT !.barrier = TRUE].slices = x.slices
    BY <1>1 DEF Struct
  <2>2. \E v : \/ GoOn(g, "return", [x EXCEPT !.code = v]) \/ GoOn(g, "return", [x EXCEPT !.public = v])
               \/ GoOn(g, "return", [x EXCEPT !.delay = v]) \/ GoOn(g, "return", [x EXCEPT !.barrier = TRUE])
    BY <1>3, Zenon DEF SetScalar
  <2> HIDE DEF x
  <2>3. call'[g].cp.slices = x.slices
    BY <1>2, <2>1, <2>2, Zenon
  <2> QED
    BY <2>3 DEF Reads, x
<1>4. CASE Extend(g) \/ Grow(g)
  <2>1. PICK s, pc : /\ GoOn(g, pc, With(x, k, s))
                     /\ s.array = Clip(x.slices[k]).array \/ s.array = Len(arrays) + 1
    <3> DEFINE c == Clip(x.slices[k])
               n == c.len + Len(call[g].op.items)
    <3>1. CASE Extend(g)
      <4> DEFINE t == [array |-> c.array, len |-> n, cap |-> c.cap]
      <4>1. GoOn(g, "store", With(x, k, t))
        BY <3>1 DEF Extend
      <4>2. t.array = c.array
        OBVIOUS
      <4> HIDE DEF t
      <4> QED
        BY <4>1, <4>2
    <3>2. CASE Grow(g)
      <4>1. PICK slack \in 0..MaxSlack :
               GoOn(g, "store", With(x, k, [array |-> Len(arrays) + 1, len |-> n, cap |-> n + slack]))
        BY <3>2 DEF Grow
      <4> DEFINE t == [array |-> Len(arrays) + 1, len |-> n, cap |-> n + slack]
      <4>2. t.array = Len(arrays) + 1 /\ GoOn(g, "store", With(x, k, t))
        BY <4>1
      <4> HIDE DEF t
      <4> QED
        BY <4>2
    <3> QED
      BY <1>4, <3>1, <3>2
  <2>2. k \in Part
    BY <1>4 DEF Extend, Grow
  <2>3. Clip(x.slices[k]).array = x.slices[k].array
    <3>1. x.slices[k] \in Slice
      BY <1>1, <2>2 DEF Struct
    <3> QED
      BY <3>1 DEF Clip, Slice
  <2>4. s.array # a
    BY <2>1, <2>2, <2>3 DEF Reads, IInv, Bounded
  <2>5. With(x, k, s).slices = [x.slices EXCEPT ![k] = s]
    BY <1>1 DEF With, Struct
  <2>6. call'[g].cp.slices = [x.slices EXCEPT ![k] = s]
    BY <1>2, <2>1, <2>5
  <2>7. x.slices \in [Part -> Slice]
    BY <1>1 DEF Struct
  <2> QED
    BY <2>2, <2>4, <2>6, <2>7 DEF Reads
<1>5. CASE Store(g)
  BY <1>2, <1>5 DEF Store
<1> QED
  BY <1>3, <1>4, <1>5

LEMMA StepUnread ==
    ASSUME IInv, [Next]_vars, NEW a \in 1..Len(arrays), Unread(a)
    PROVE  Unread(a)'
<1>0. call \in [Goroutines -> Call] /\ errors \in Seq(Struct) /\ a \in Nat \ {0}
  BY DEF IInv, Bounded
<1>1. CASE UNCHANGED <<errors, call>>
  BY <1>1 DEF Unread, Reads
<1>2. ASSUME NEW g \in Goroutines, \A h \in Goroutines \ {g} : call'[h] = call[h], errors' = errors,
             ~Reads(call'[g].cp, a)
      PROVE  Unread(a)'
  BY <1>2 DEF Unread, Reads
<1>3. CASE Next
  <2> SUFFICES ASSUME NEW g \in Goroutines, Begin(g) \/ Proceed(g) PROVE Unread(a)'
    BY <1>3 DEF Next
  <2>1. CASE Begin(g)
    <3>0. PICK o \in Ops : \E e \in Bases(o, Len(errors)) : Refuse(g, o, e) \/ Copy(g, o, e)
      BY <2>1 DEF Begin
    <3>1. PICK e \in Bases(o, Len(errors)) : Refuse(g, o, e) \/ Copy(g, o, e)
      BY <3>0
    <3>2. CASE Refuse(g, o, e)
      BY <1>1, <3>2 DEF Refuse
    <3>3. CASE Copy(g, o, e)
      <4>1. errors' = errors /\ \A h \in Goroutines \ {g} : call'[h] = call[h]
        BY <1>0, <3>3 DEF Copy
      <4> QED
        BY <1>0, <1>2, <3>3, <4>1, CopyUnread
    <3> QED
      BY <3>1, <3>2, <3>3
  <2>2. CASE SetScalar(g) \/ Extend(g) \/ Grow(g) \/ Store(g)
    <3>1. errors' = errors /\ \A h \in Goroutines \ {g} : call'[h] = call[h]
      BY <1>0, <2>2 DEF SetScalar, Extend, Grow, Store, GoOn
    <3>2. ~Reads(call'[g].cp, a)
      BY <2>2, ProceedUnread DEF Unread
    <3> QED
      BY <1>2, <3>1, <3>2
  <2>3. CASE Return(g)
    <3>1. call' = [call EXCEPT ![g] = Idle] /\ errors' = Append(errors, call[g].cp)
      BY <2>3 DEF Return
    <3>2. \A i \in 1..Len(errors') : errors'[i] = call[g].cp \/ (i \in 1..Len(errors) /\ errors'[i] = errors[i])
      <4>1. PICK x \in Struct : x = call[g].cp
        BY <1>0 DEF Call
      <4> QED
        BY <1>0, <3>1, <4>1
    <3>3. ~Reads(Idle.cp, a)
      BY <1>0, IdleType DEF IInv, Bounded, Reads
    <3>4. \A h \in Goroutines : call'[h] = Idle \/ call'[h] = call[h]
      BY <1>0, <3>1
    <3> QED
      BY <3>2, <3>3, <3>4 DEF Unread, Reads
  <2> QED
    BY <2>1, <2>2, <2>3 DEF Proceed
<1> QED
  BY <1>1, <1>3 DEF vars


\* What an error wraps was there before it.
Causes ==
    /\ \A i \in 1..Len(errors) : errors[i].cause \in 0..Len(errors)
    /\ \A g \in Goroutines : call[g].cp.cause \in 0..Len(errors)

LEMMA CopyCause ==
    ASSUME IInv, Causes, NEW g \in Goroutines, NEW o \in Ops, NEW e \in Bases(o, Len(errors)),
           Copy(g, o, e)
    PROVE  call'[g].cp.cause \in 0..Len(errors)
<1>0. ~Refuses(o, e) /\ o \in Op /\ e \in 0..Len(errors) /\ Len(errors) \in Nat
  BY DEF Copy, IInv, Bounded, Bases
<1>1. call'[g].cp = (CASE o.kind = "New" -> Fresh(o, 0, Caller(o.skip), NilSlice)
                       [] o.kind = "Wrap" -> Fresh(o, e, Caller(o.skip), NilSlice)
                       [] OTHER -> errors[e])
  BY DEF Copy, IInv, Bounded
<1>2. CASE Constructs(o)
  <2>1. call'[g].cp.cause = 0 \/ call'[g].cp.cause = e
    BY <1>1, <1>2 DEF Constructs, Fresh
  <2> QED
    BY <1>0, <2>1
<1>3. CASE ~Constructs(o)
  <2>1. e \in 1..Len(errors) /\ call'[g].cp = errors[e]
    BY <1>0, <1>1, <1>3 DEF Refuses, Constructs
  <2> QED
    BY <2>1 DEF Causes
<1> QED
  BY <1>2, <1>3

LEMMA StepCauses ==
    ASSUME IInv, Causes, [Next]_vars
    PROVE  Causes' /\ Len(errors) <= Len(errors')
<1>0. call \in [Goroutines -> Call] /\ errors \in Seq(Struct) /\ Len(errors) \in Nat
  BY DEF IInv, Bounded
<1>1. CASE UNCHANGED <<errors, call>>
  BY <1>0, <1>1 DEF Causes
<1>2. ASSUME NEW g \in Goroutines, \A h \in Goroutines \ {g} : call'[h] = call[h], errors' = errors,
             call'[g].cp.cause \in 0..Len(errors)
      PROVE  Causes' /\ Len(errors) <= Len(errors')
  BY <1>0, <1>2 DEF Causes
<1>3. CASE Next
  <2> SUFFICES ASSUME NEW g \in Goroutines, Begin(g) \/ Proceed(g)
               PROVE  Causes' /\ Len(errors) <= Len(errors')
    BY <1>3 DEF Next
  <2>1. CASE Begin(g)
    <3>0. PICK o \in Ops : \E e \in Bases(o, Len(errors)) : Refuse(g, o, e) \/ Copy(g, o, e)
      BY <2>1 DEF Begin
    <3>1. PICK e \in Bases(o, Len(errors)) : Refuse(g, o, e) \/ Copy(g, o, e)
      BY <3>0
    <3>2. CASE Refuse(g, o, e)
      BY <1>1, <3>2 DEF Refuse
    <3>3. CASE Copy(g, o, e)
      <4>1. errors' = errors /\ \A h \in Goroutines \ {g} : call'[h] = call[h]
        BY <1>0, <3>3 DEF Copy
      <4> QED
        BY <1>2, <3>3, <4>1, CopyCause
    <3> QED
      BY <3>1, <3>2, <3>3
  <2>2. CASE SetScalar(g) \/ Extend(g) \/ Grow(g) \/ Store(g)
    <3>1. errors' = errors /\ \A h \in Goroutines \ {g} : call'[h] = call[h]
      BY <1>0, <2>2 DEF SetScalar, Extend, Grow, Store, GoOn
    <3>2. call'[g].cp.cause \in 0..Len(errors)
      BY <2>2, ProceedOrigin DEF Causes
    <3> QED
      BY <1>2, <3>1, <3>2
  <2>3. CASE Return(g)
    <3>1. call' = [call EXCEPT ![g] = Idle] /\ errors' = Append(errors, call[g].cp)
      BY <2>3 DEF Return
    <3>2. /\ Len(errors') = Len(errors) + 1
          /\ \A i \in 1..Len(errors') : errors'[i] = call[g].cp \/ (i \in 1..Len(errors) /\ errors'[i] = errors[i])
      <4>1. PICK x \in Struct : x = call[g].cp
        BY <1>0 DEF Call
      <4> QED
        BY <1>0, <3>1, <4>1
    <3>3. Idle.cp.cause = 0
      BY DEF Idle, Fresh
    <3>4. \A h \in Goroutines : call'[h] = Idle \/ call'[h] = call[h]
      BY <1>0, <3>1
    <3>5. 0..Len(errors) \subseteq 0..Len(errors') /\ 0 \in 0..Len(errors')
      BY <1>0, <3>2
    <3>6. \A i \in 1..Len(errors') : errors'[i].cause \in 0..Len(errors')
      BY <3>2, <3>5 DEF Causes
    <3>7. \A h \in Goroutines : call'[h].cp.cause \in 0..Len(errors')
      BY <3>3, <3>4, <3>5 DEF Causes
    <3> QED
      BY <1>0, <3>2, <3>6, <3>7 DEF Causes
  <2> QED
    BY <2>1, <2>2, <2>3 DEF Proceed
<1> QED
  BY <1>1, <1>3 DEF vars

\* A slice that a collector works on, or has given out: it fits its array,
\* which nobody who builds errors refers to.
Holds(s) ==
    /\ s \in Slice /\ Within(s) /\ s.len <= s.cap /\ s.cap <= Size(s.array)
    /\ s.array # 0 => Unread(s.array)
Apart(s, t) == s.array # 0 => s.array # t.array

\* No two of those slices share an array.
Sharing ==
    /\ walk \in [Collectors -> [part: {"none"} \cup Given, at: Nat, blocked: BOOLEAN, slice: Slice]]
    /\ results \in Seq(Slice)
    /\ \A c \in Collectors : /\ Holds(walk[c].slice)
                             /\ walk[c].at \in 0..Len(errors)
                             /\ walk[c].at # 0 => walk[c].part # "none"
    /\ \A i \in 1..Len(results) : Holds(results[i])
    /\ \A c, d \in Collectors : c # d => Apart(walk[c].slice, walk[d].slice)
    /\ \A i \in 1..Len(results), c \in Collectors : Apart(walk[c].slice, results[i])
    /\ \A i, j \in 1..Len(results) : i # j => Apart(results[i], results[j])

CIInv == IInv /\ Causes /\ Sharing

LEMMA CInitIInv == CInit => CIInv
<1> SUFFICES ASSUME CInit PROVE CIInv
  OBVIOUS
<1>1. Init /\ walk = [c \in Collectors |-> Resting] /\ results = <<>>
  BY DEF CInit
<1>2. IInv
  BY <1>1, InitIInv
<1>3. Causes
  BY <1>1 DEF Init, Causes, Idle, Fresh
<1>4. /\ NilSlice \in Slice /\ NilSlice.array = 0 /\ NilSlice.len = 0 /\ NilSlice.cap = 0
      /\ Len(arrays) \in Nat
  BY <1>2 DEF NilSlice, Slice, IInv, Bounded
<1>5. Holds(NilSlice)
  BY <1>4 DEF Holds, Within, Size
<1>6. Len(errors) = 0 /\ Len(results) = 0 /\ results \in Seq(Slice)
  BY <1>1 DEF Init
<1>7. /\ Resting.slice = NilSlice /\ Resting.at = 0
      /\ Resting \in [part: {"none"} \cup Given, at: Nat, blocked: BOOLEAN, slice: Slice]
  BY <1>4 DEF Resting
<1>8. \A c \in Collectors : walk[c].slice = NilSlice /\ walk[c].at = 0
  BY <1>1, <1>7
<1>9. walk \in [Collectors -> [part: {"none"} \cup Given, at: Nat, blocked: BOOLEAN, slice: Slice]]
  BY <1>1, <1>7
<1>10. Sharing
  BY <1>4, <1>5, <1>6, <1>8, <1>9 DEF Sharing, Apart
<1> QED
  BY <1>2, <1>3, <1>10 DEF CIInv

\* Building errors, which makes use of no array that is held.
LEMMA BuildShares ==
    ASSUME CIInv, [Next]_vars, UNCHANGED <<walk, results>>
    PROVE  CIInv'
<1>1. IInv /\ Causes /\ Sharing
  BY DEF CIInv
<1>2. IInv' /\ Causes' /\ Len(errors) <= Len(errors')
  BY <1>1, StepIInv, StepCauses
<1>3. ASSUME NEW s, Holds(s) PROVE Holds(s)'
  <2>1. /\ Len(arrays) \in Nat /\ Len(arrays') \in Nat /\ Len(arrays) <= Len(arrays')
        /\ s.array \in 0..Len(arrays) /\ s.len <= Size(s.array)
        /\ \A a \in 1..Len(arrays) : Len(arrays'[a]) = Len(arrays[a])
    BY <1>1, <1>2, <1>3, StepLengths DEF IInv, Bounded, Holds, Within
  <2>2. Size(s.array)' = Size(s.array) /\ Within(s)'
    BY <2>1 DEF Size, Within
  <2>3. s.array # 0 => Unread(s.array)'
    <3> SUFFICES ASSUME s.array # 0 PROVE Unread(s.array)'
      OBVIOUS
    <3>1. PICK a \in 1..Len(arrays) : a = s.array
      BY <2>1
    <3>2. Unread(a)
      BY <1>3, <3>1 DEF Holds
    <3>3. Unread(a)'
      BY <1>1, <3>2, StepUnread
    <3> QED
      BY <3>1, <3>3
  <2> QED
    BY <1>3, <2>2, <2>3 DEF Holds
<1>4. Sharing'
  <2>1. 0..Len(errors) \subseteq 0..Len(errors')
    BY <1>2, <1>1 DEF IInv, Bounded
  <2>2. \A c \in Collectors : Holds(walk[c].slice)' /\ walk[c].at \in 0..Len(errors')
    BY <1>1, <1>3, <2>1 DEF Sharing
  <2>3. \A i \in 1..Len(results) : Holds(results[i])'
    BY <1>1, <1>3 DEF Sharing
  <2> QED
    BY <1>1, <2>2, <2>3 DEF Sharing, Apart
<1> QED
  BY <1>2, <1>4 DEF CIInv


\* Callers and collectors write to arrays, or add one, and leave errors and
\* calls alone.
LEMMA MemoryStep ==
    ASSUME IInv, Causes, UNCHANGED <<errors, call>>,
           arrays' \in Seq(Seq(Data \cup {Unset})), Len(arrays) <= Len(arrays'),
           \A a \in 1..Len(arrays) : Len(arrays'[a]) = Len(arrays[a])
    PROVE  IInv' /\ Causes' /\ \A s : Holds(s) => Holds(s)'
<1>0. arrays \in Seq(Seq(Data \cup {Unset})) /\ Len(arrays) \in Nat /\ Len(arrays') \in Nat
  BY DEF IInv, Bounded
<1>1. ASSUME NEW s, Within(s) PROVE Within(s)' /\ Size(s.array)' = Size(s.array)
  <2>1. s.array \in 0..Len(arrays)
    BY <1>1 DEF Within
  <2>2. Size(s.array)' = Size(s.array)
    BY <2>1 DEF Size
  <2> QED
    BY <1>0, <1>1, <2>1, <2>2 DEF Within
<1>2. \A x : Bound(x) => Bound(x)'
  BY <1>1 DEF Bound
<1>3. Bounded'
  BY <1>2 DEF IInv, Bounded
<1>4. Private'
  BY DEF IInv, Private, Storing, Target, Reads
<1>5. Causes'
  BY DEF Causes
<1>6. ASSUME NEW s, Holds(s) PROVE Holds(s)'
  BY <1>1, <1>6 DEF Holds, Unread, Reads
<1> QED
  BY <1>3, <1>4, <1>5, <1>6 DEF IInv

\* What append does for a collector whose slice is s: it writes to s's own
\* array, or to a new one.
LEMMA GatheredHolds ==
    ASSUME IInv, Causes, NEW s, Holds(s), NEW from \in Slice, Within(from),
           NEW o \in Gathered(s, from), arrays' = o.arrays, UNCHANGED <<errors, call>>
    PROVE  /\ IInv' /\ Causes' /\ \A t : Holds(t) => Holds(t)'
           /\ Holds(o.slice)'
           /\ o.slice.array = s.array \/ o.slice.array = Len(arrays) + 1
           /\ \A a \in 1..Len(arrays) : arrays'[a] # arrays[a] => a = s.array
<1> DEFINE of == Data \cup {Unset}
           items == Elements(from)
           n == s.len + Len(items)
<1>0. /\ arrays \in Seq(Seq(of)) /\ Len(arrays) \in Nat
      /\ s \in Slice /\ s.len \in Nat /\ s.cap \in Nat /\ s.len <= s.cap
      /\ s.array \in 0..Len(arrays) /\ s.cap <= Size(s.array) /\ s.len <= Size(s.array)
      /\ s.array # 0 => Unread(s.array)
  BY DEF IInv, Bounded, Holds, Slice, Within
<1>1. items \in Seq(of) /\ Len(items) \in Nat /\ n \in Nat
  BY <1>0, ElementsType
<1>2. o \in Outcomes(s, items)
  BY DEF Gathered
<1> HIDE DEF items
<1>3. CASE items = <<>>
  <2>1. o.slice = s /\ arrays' = arrays
    BY <1>2, <1>3 DEF Outcomes
  <2>2. IInv' /\ Causes' /\ \A t : Holds(t) => Holds(t)'
    BY <1>0, <2>1, MemoryStep
  <2> QED
    BY <2>1, <2>2
<1>4. CASE items # <<>> /\ n <= s.cap
  <2>0. Len(items) # 0
    BY <1>1, <1>4
  <2>1. s.array \in 1..Len(arrays) /\ arrays[s.array] \in Seq(of) /\ s.cap <= Len(arrays[s.array])
    <3>1. s.array # 0
      BY <1>0, <1>1, <1>4, <2>0 DEF Size
    <3> QED
      BY <1>0, <3>1 DEF Size
  <2> DEFINE b == s.array
             f(i) == IF i \in (s.len + 1)..n THEN items[i - s.len] ELSE arrays[b][i]
             content == [i \in DOMAIN arrays[b] |-> f(i)]
  <2>2. PICK t : t = [s EXCEPT !.len = n] /\ o = [slice |-> t, arrays |-> [arrays EXCEPT ![b] = content]]
    BY <1>2, <1>4 DEF Outcomes
  <2>3. \A i \in 1..Len(arrays[b]) : f(i) \in of
    <3> SUFFICES ASSUME NEW i \in 1..Len(arrays[b]) PROVE f(i) \in of
      OBVIOUS
    <3>1. CASE i \in (s.len + 1)..n
      <4>1. i - s.len \in 1..Len(items)
        BY <1>0, <1>1, <3>1
      <4> QED
        BY <1>1, <3>1, <4>1
    <3>2. CASE i \notin (s.len + 1)..n
      <4>1. arrays[b][i] \in of
        BY <2>1
      <4> QED
        BY <3>2, <4>1
    <3> QED
      BY <3>1, <3>2
  <2>4. content \in Seq(of) /\ Len(content) = Len(arrays[b])
    <3>1. DOMAIN arrays[b] = 1..Len(arrays[b]) /\ Len(arrays[b]) \in Nat
      BY <2>1
    <3> HIDE DEF f, b, of
    <3> QED
      BY <2>3, <3>1
  <2>5. arrays' = [arrays EXCEPT ![b] = content] /\ o.slice = t
    BY <2>2
  <2> HIDE DEF content
  <2>6. /\ arrays' \in Seq(Seq(of)) /\ Len(arrays') = Len(arrays)
        /\ \A a \in 1..Len(arrays) : Len(arrays'[a]) = Len(arrays[a])
        /\ \A a \in 1..Len(arrays) : arrays'[a] # arrays[a] => a = b
    BY <1>0, <2>1, <2>4, <2>5
  <2>7. IInv' /\ Causes' /\ \A x : Holds(x) => Holds(x)'
    BY <1>0, <2>6, MemoryStep
  <2>8. Holds(s)'
    BY <2>7
  <2>9. t \in Slice /\ t.array = b /\ t.len = n /\ t.cap = s.cap
    BY <1>0, <1>1, <2>2 DEF Slice
  <2>10. Holds(t)'
    <3>1. Size(b)' = Len(arrays[b])
      BY <2>1, <2>6 DEF Size
    <3>2. n <= Size(b)' /\ n <= s.cap
      BY <1>0, <1>1, <1>4, <2>1, <3>1
    <3>3. t.array \in 0..Len(arrays') /\ (t.array # 0 => Unread(t.array)')
      BY <1>0, <2>6, <2>8, <2>9 DEF Holds
    <3>4. Size(t.array)' = Size(b)'
      BY <2>9 DEF Size
    <3>5. t.len <= t.cap /\ t.len <= Size(t.array)' /\ t.cap <= Size(t.array)'
      BY <2>1, <2>9, <3>1, <3>2, <3>4
    <3> QED
      BY <2>9, <3>3, <3>5 DEF Holds, Within
  <2>11. o.slice.array = s.array /\ Holds(o.slice)'
    BY <2>5, <2>9, <2>10
  <2> QED
    BY <2>6, <2>7, <2>11
<1>5. CASE items # <<>> /\ ~ (n <= s.cap)
  <2> DEFINE all == Elements(s) \o items
  <2>0. PICK new \in Nat \ {0} : new = Len(arrays) + 1
    BY <1>0
  <2>1. PICK slack \in 0..MaxSlack :
           o = [slice |-> [array |-> new, len |-> n, cap |-> n + slack],
                arrays |-> Append(arrays, [i \in 1..(n + slack) |-> IF i <= n THEN all[i] ELSE Unset])]
    BY <1>2, <1>5, <2>0 DEF Outcomes
  <2>2. all \in Seq(of) /\ Len(all) = n
    <3>1. Elements(s) \in Seq(of) /\ Len(Elements(s)) = s.len
      BY <1>0, ElementsType DEF Holds
    <3> HIDE DEF of
    <3> QED
      BY <1>1, <3>1
  <2> DEFINE m == n + slack
             f(i) == IF i <= n THEN all[i] ELSE Unset
             fill == [i \in 1..m |-> f(i)]
  <2>3. m \in Nat /\ n <= m
    BY <1>1, ErrorsAssumption
  <2>4. fill \in Seq(of) /\ Len(fill) = m
    <3>1. \A i \in 1..m : f(i) \in of
      <4> HIDE DEF all, m, n
      <4> QED
        BY <1>1, <2>2, <2>3
    <3> HIDE DEF f, m, of
    <3> QED
      BY <2>3, <3>1
  <2>5. PICK t : t = [array |-> new, len |-> n, cap |-> m] /\ o.slice = t
    BY <2>1
  <2>6. arrays' = Append(arrays, fill)
    BY <2>1
  <2> HIDE DEF fill, m, n
  <2>13. t \in Slice /\ t.array = new /\ t.len = n /\ t.cap = m
    BY <1>1, <2>3, <2>5 DEF Slice
  <2>7. /\ arrays' \in Seq(Seq(of)) /\ Len(arrays') = Len(arrays) + 1
        /\ arrays'[new] = fill
        /\ \A a \in 1..Len(arrays) : arrays'[a] = arrays[a]
    BY <1>0, <2>0, <2>4, <2>6
  <2>8. IInv' /\ Causes' /\ \A x : Holds(x) => Holds(x)'
    <3>1. Len(arrays) <= Len(arrays') /\ \A a \in 1..Len(arrays) : Len(arrays'[a]) = Len(arrays[a])
      BY <1>0, <2>7
    <3> QED
      BY <2>7, <3>1, MemoryStep
  <2>9. Size(new)' = m
    BY <1>0, <2>0, <2>4, <2>7 DEF Size
  <2>10. Unread(new)'
    <3>1. \A x : Bound(x) => ~Reads(x, new)
      BY <1>0, <2>0 DEF Bound, Within, Reads
    <3>2. Unread(new)
      BY <3>1 DEF IInv, Bounded, Unread
    <3> QED
      BY <3>2 DEF Unread, Reads
  <2>11. Holds(t)'
    <3>1. t.array = new /\ t.len <= t.cap /\ t.len <= Size(new)' /\ t.cap <= Size(new)'
      BY <1>1, <2>3, <2>13, <2>9
    <3>2. new \in 0..Len(arrays')
      BY <1>0, <2>0, <2>7
    <3>3. Size(t.array)' = Size(new)' /\ Unread(t.array)'
      BY <2>10, <3>1
    <3> QED
      BY <2>13, <3>1, <3>2, <3>3 DEF Holds, Within
  <2>12. o.slice.array = Len(arrays) + 1 /\ Holds(o.slice)'
    BY <2>0, <2>5, <2>13, <2>11
  <2> QED
    BY <2>7, <2>8, <2>12
<1> QED
  BY <1>3, <1>4, <1>5

\* What an error adds is a slice that fits its array.
LEMMA UnblockedIs ==
    ASSUME IInv, NEW w, w.at \in 1..Len(errors), w.part \in Part
    PROVE  Unblocked(w) \in Slice /\ Within(Unblocked(w))
<1>1. NilSlice \in Slice /\ Within(NilSlice)
  BY DEF NilSlice, Slice, Within, Size
<1>2. PICK from : from = errors[w.at].slices[w.part] /\ from \in Slice /\ Within(from)
  BY DEF IInv, Bounded, Bound
<1>3. Unblocked(w) = NilSlice \/ Unblocked(w) = from
  BY <1>2 DEF Unblocked
<1> QED
  BY <1>1, <1>2, <1>3

LEMMA SeeNodeShares ==
    ASSUME CIInv, NEW c \in Collectors, SeeNode(c)
    PROVE  CIInv'
<1> DEFINE w == walk[c]
           Walking == [part: {"none"} \cup Given, at: Nat, blocked: BOOLEAN, slice: Slice]
<1>0. /\ IInv /\ Causes /\ Sharing /\ w \in Walking /\ w.at \in 1..Len(errors) /\ w.part \in Given
      /\ w.part \in Part /\ walk \in [Collectors -> Walking] /\ Holds(w.slice)
      /\ Len(arrays) \in Nat
  BY CollectingAssumption DEF CIInv, Sharing, SeeNode, IInv, Bounded
<1>1. PICK from : from = Unblocked(w) /\ from \in Slice /\ Within(from)
  BY <1>0, UnblockedIs
<1>2. PICK o \in Gathered(w.slice, from) :
         /\ arrays' = o.arrays
         /\ walk' = [walk EXCEPT ![c] = [part |-> w.part, at |-> errors[w.at].cause, slice |-> o.slice,
                                       blocked |-> w.blocked \/ errors[w.at].barrier]]
  BY <1>1 DEF SeeNode
<1>3. UNCHANGED <<errors, call>> /\ results' = results
  BY DEF SeeNode
<1>4. /\ IInv' /\ Causes' /\ \A t : Holds(t) => Holds(t)'
      /\ Holds(o.slice)'
      /\ o.slice.array = w.slice.array \/ o.slice.array = Len(arrays) + 1
  BY <1>0, <1>1, <1>2, <1>3, GatheredHolds
<1>5. errors[w.at].cause \in 0..Len(errors)
  BY <1>0 DEF Causes
<1> DEFINE v == [part |-> w.part, at |-> errors[w.at].cause, slice |-> o.slice,
                 blocked |-> w.blocked \/ errors[w.at].barrier]
<1>6. walk' = [walk EXCEPT ![c] = v]
  BY <1>2
<1>7. v.part = w.part /\ v.at = errors[w.at].cause /\ v.slice = o.slice /\ v \in Walking
  <2>1. o.slice \in Slice
    BY <1>4 DEF Holds
  <2>2. (w.blocked \/ errors[w.at].barrier) \in BOOLEAN
    BY <1>0, Zenon
  <2> QED
    BY <1>0, <1>5, <2>1, <2>2
<1> HIDE DEF v
<1>8. /\ walk' \in [Collectors -> Walking] /\ walk'[c] = v
      /\ \A d \in Collectors \ {c} : walk'[d] = walk[d]
  BY <1>0, <1>6, <1>7
\* A new array is nobody's yet.
<1>9. ASSUME NEW t, Holds(t), Apart(w.slice, t) PROVE Apart(v.slice, t) /\ Apart(t, v.slice)
  BY <1>0, <1>4, <1>7, <1>9 DEF Apart, Holds, Within
<1>10. Sharing'
  <2>1. ASSUME NEW d \in Collectors
        PROVE  /\ Holds(walk[d].slice)' /\ walk'[d].at \in 0..Len(errors')
               /\ walk'[d].at # 0 => walk'[d].part # "none"
    <3>1. CASE d = c
      BY <1>0, <1>3, <1>4, <1>5, <1>7, <1>8, <3>1 DEF Sharing, SeeNode
    <3>2. CASE d # c
      BY <1>0, <1>3, <1>4, <1>8, <3>2 DEF Sharing
    <3> QED
      BY <3>1, <3>2
  <2>2. \A i \in 1..Len(results) : Holds(results[i])'
    BY <1>0, <1>3, <1>4 DEF Sharing
  <2>3. ASSUME NEW d \in Collectors, NEW e \in Collectors, d # e
        PROVE  Apart(walk'[d].slice, walk'[e].slice)
    BY <1>0, <1>8, <1>7, <1>9, <2>3 DEF Sharing
  <2>4. ASSUME NEW i \in 1..Len(results), NEW d \in Collectors
        PROVE  Apart(walk'[d].slice, results[i])
    BY <1>0, <1>8, <1>9 DEF Sharing
  <2> QED
    BY <1>0, <1>3, <1>8, <2>1, <2>2, <2>3, <2>4 DEF Sharing, Apart
<1> QED
  BY <1>4, <1>10 DEF CIInv

\* A caller writes to its result.
LEMMA OverwriteArrays ==
    ASSUME CIInv, NEW i \in 1..Len(results), Overwrite(i)
    PROVE  /\ UNCHANGED <<errors, call, walk, results>>
           /\ arrays' \in Seq(Seq(Data \cup {Unset})) /\ Len(arrays') = Len(arrays)
           /\ \A a \in 1..Len(arrays) : Len(arrays'[a]) = Len(arrays[a])
           /\ \A a \in 1..Len(arrays) : arrays'[a] # arrays[a] => a = results[i].array
<1> DEFINE of == Data \cup {Unset}
<1>1. PICK s : s = results[i] /\ Holds(s)
  BY DEF CIInv, Sharing
<1>2. PICK k \in 1..s.len, d \in Data : arrays' = [arrays EXCEPT ![s.array][k] = d]
  BY <1>1 DEF Overwrite
<1>3. arrays \in Seq(Seq(of))
  BY DEF CIInv, IInv, Bounded
<1>4. s.array \in 1..Len(arrays) /\ k \in 1..Len(arrays[s.array])
  <2>1. s.len \in Nat /\ s.array \in 0..Len(arrays) /\ s.len <= Size(s.array)
    BY <1>1 DEF Holds, Within, Slice
  <2>2. s.array # 0
    BY <1>2, <2>1 DEF Size
  <2> QED
    BY <1>3, <2>1, <2>2 DEF Size
<1> DEFINE content == [arrays[s.array] EXCEPT ![k] = d]
<1>5. content \in Seq(of) /\ Len(content) = Len(arrays[s.array])
  BY <1>3, <1>4
<1>6. arrays' = [arrays EXCEPT ![s.array] = content]
  BY <1>2, <1>3, <1>4
<1> HIDE DEF content
<1>7. /\ arrays' \in Seq(Seq(of)) /\ Len(arrays') = Len(arrays)
      /\ \A a \in 1..Len(arrays) : Len(arrays'[a]) = Len(arrays[a])
      /\ \A a \in 1..Len(arrays) : arrays'[a] # arrays[a] => a = s.array
  BY <1>3, <1>4, <1>5, <1>6
<1> QED
  BY <1>1, <1>7 DEF Overwrite

LEMMA CStepIInv == CIInv /\ [CNext]_cvars => CIInv'
<1> SUFFICES ASSUME CIInv, [CNext]_cvars PROVE CIInv'
  OBVIOUS
<1> DEFINE Walking == [part: {"none"} \cup Given, at: Nat, blocked: BOOLEAN, slice: Slice]
<1>0. /\ IInv /\ Causes /\ Sharing /\ walk \in [Collectors -> Walking] /\ results \in Seq(Slice)
      /\ errors \in Seq(Struct) /\ arrays \in Seq(Seq(Data \cup {Unset}))
  BY DEF CIInv, Sharing, IInv, Bounded
\* A step that leaves memory alone.
<1>1. ASSUME UNCHANGED vars PROVE /\ IInv' /\ Causes' /\ \A s : Holds(s) => Holds(s)'
  <2>1. errors' = errors /\ call' = call /\ arrays' = arrays
    BY <1>1 DEF vars
  <2> QED
    BY <1>0, <2>1, MemoryStep
<1>2. CASE Next /\ UNCHANGED <<walk, results>>
  BY <1>2, BuildShares
<1>3. CASE UNCHANGED cvars
  BY <1>3, BuildShares DEF cvars, vars
<1>4. ASSUME NEW c \in Collectors, NEW p \in Given, NEW e \in 1..Len(errors), Collect(c, p, e)
      PROVE  CIInv'
  <2> DEFINE v == [part |-> p, at |-> e, blocked |-> FALSE, slice |-> NilSlice]
  <2>1. UNCHANGED vars /\ walk' = [walk EXCEPT ![c] = v] /\ results' = results
    BY <1>4 DEF Collect
  <2>2. NilSlice \in Slice /\ Holds(NilSlice) /\ NilSlice.array = 0
    BY <1>0 DEF NilSlice, Slice, Holds, Within, Size
  <2>3. v \in Walking /\ v.slice = NilSlice /\ v.at = e /\ v.part \in Part
    BY <2>2, CollectingAssumption
  <2> HIDE DEF v
  <2>4. /\ walk' \in [Collectors -> Walking] /\ walk'[c] = v
        /\ \A d \in Collectors \ {c} : walk'[d] = walk[d]
    BY <1>0, <2>1, <2>3
  <2>5. errors' = errors /\ Len(errors) \in Nat
    BY <1>0, <2>1 DEF vars
  <2>6. \A d \in Collectors : /\ Holds(walk[d].slice)' /\ walk'[d].at \in 0..Len(errors')
                              /\ walk'[d].at # 0 => walk'[d].part # "none"
    BY <1>0, <1>1, <2>1, <2>2, <2>3, <2>4, <2>5 DEF Sharing, Part
  <2>7. \A i \in 1..Len(results) : Holds(results[i])'
    BY <1>0, <1>1, <2>1 DEF Sharing
  <2>8. \A t : Apart(v.slice, t) /\ Apart(t, v.slice)
    BY <2>2, <2>3 DEF Apart
  <2>9. \A d, f \in Collectors : d # f => Apart(walk'[d].slice, walk'[f].slice)
    BY <1>0, <2>4, <2>8 DEF Sharing
  <2>10. \A i \in 1..Len(results), d \in Collectors : Apart(walk'[d].slice, results[i])
    BY <1>0, <2>4, <2>8 DEF Sharing
  <2>11. Sharing'
    BY <1>0, <2>1, <2>4, <2>6, <2>7, <2>9, <2>10 DEF Sharing, Apart
  <2> QED
    BY <1>1, <2>1, <2>11 DEF CIInv
<1>5. ASSUME NEW c \in Collectors, SeeNode(c) PROVE CIInv'
  BY <1>5, SeeNodeShares
<1>6. ASSUME NEW c \in Collectors, GiveOut(c) PROVE CIInv'
  <2>1. /\ UNCHANGED vars /\ walk' = [walk EXCEPT ![c] = Resting]
        /\ results' = Append(results, walk[c].slice)
    BY <1>6 DEF GiveOut
  <2>2. NilSlice \in Slice /\ Holds(NilSlice) /\ NilSlice.array = 0
    BY <1>0 DEF NilSlice, Slice, Holds, Within, Size
  <2>3. Resting \in Walking /\ Resting.slice = NilSlice /\ Resting.at = 0
    BY <2>2 DEF Resting
  <2>4. /\ walk' \in [Collectors -> Walking] /\ walk'[c] = Resting
        /\ \A d \in Collectors \ {c} : walk'[d] = walk[d]
    BY <1>0, <2>1, <2>3
  <2>5. PICK x \in Slice : x = walk[c].slice /\ Holds(x)
    BY <1>0 DEF Sharing
  <2>6. /\ results' \in Seq(Slice) /\ Len(results') = Len(results) + 1 /\ Len(results) \in Nat
        /\ \A i \in 1..Len(results) : results'[i] = results[i]
        /\ results'[Len(results) + 1] = x
    BY <1>0, <2>1, <2>5
  <2>7. errors' = errors /\ Len(errors) \in Nat
    BY <1>0, <2>1 DEF vars
  <2>8. \A d \in Collectors : /\ Holds(walk[d].slice)' /\ walk'[d].at \in 0..Len(errors')
                              /\ walk'[d].at # 0 => walk'[d].part # "none"
    <3>1. ASSUME NEW d \in Collectors
          PROVE  /\ Holds(walk[d].slice)' /\ walk'[d].at \in 0..Len(errors')
                 /\ walk'[d].at # 0 => walk'[d].part # "none"
      <4>1. CASE d = c
        BY <1>1, <2>1, <2>2, <2>3, <2>4, <2>7, <4>1
      <4>2. CASE d # c
        <5>1. walk'[d] = walk[d]
          BY <2>4, <4>2
        <5>2. PICK y : y = walk[d].slice /\ Holds(y)
          BY <1>0 DEF Sharing
        <5>3. Holds(y)' /\ walk'[d].slice = y
          BY <1>1, <2>1, <5>1, <5>2
        <5> QED
          BY <1>0, <2>7, <5>1, <5>3 DEF Sharing
      <4> QED
        BY <4>1, <4>2
    <3> QED
      BY <3>1
  <2>9. \A i \in 1..Len(results') : Holds(results[i])'
    <3>1. Holds(x)' /\ \A i \in 1..Len(results) : Holds(results[i])
      BY <1>0, <1>1, <2>1, <2>5 DEF Sharing
    <3>2. ASSUME NEW i \in 1..Len(results') PROVE Holds(results[i])'
      <4>1. CASE i = Len(results) + 1
        BY <2>6, <3>1, <4>1
      <4>2. CASE i \in 1..Len(results)
        <5>1. PICK y : y = results[i] /\ Holds(y)
          BY <3>1, <4>2
        <5>2. results'[i] = y /\ Holds(y)'
          BY <1>1, <2>1, <2>6, <4>2, <5>1
        <5> QED
          BY <5>2
      <4> QED
        BY <2>6, <4>1, <4>2
    <3> QED
      BY <3>2
  <2>10. \A d, f \in Collectors : d # f => Apart(walk'[d].slice, walk'[f].slice)
    <3>1. \A t : Apart(Resting.slice, t) /\ Apart(t, Resting.slice)
      BY <2>2, <2>3 DEF Apart
    <3> QED
      BY <1>0, <2>4, <3>1 DEF Sharing
  <2>11. \A i \in 1..Len(results'), d \in Collectors : Apart(walk'[d].slice, results'[i])
    <3>1. \A d \in Collectors \ {c} : Apart(walk[d].slice, x)
      BY <1>0, <2>5 DEF Sharing
    <3>2. Apart(NilSlice, x) /\ \A i \in 1..Len(results) : Apart(NilSlice, results[i])
      BY <2>2 DEF Apart
    <3>3. \A d \in Collectors, i \in 1..Len(results) : Apart(walk[d].slice, results[i])
      BY <1>0 DEF Sharing
    <3>4. ASSUME NEW i \in 1..Len(results'), NEW d \in Collectors
          PROVE  Apart(walk'[d].slice, results'[i])
      <4>1. CASE i = Len(results) + 1
        BY <2>3, <2>4, <2>6, <3>1, <3>2, <4>1
      <4>2. CASE i \in 1..Len(results)
        BY <2>3, <2>4, <2>6, <3>2, <3>3, <4>2
      <4> QED
        BY <2>6, <4>1, <4>2
    <3> QED
      BY <3>4
  <2>12. \A i, j \in 1..Len(results') : i # j => Apart(results'[i], results'[j])
    <3>1. \A i \in 1..Len(results) : Apart(x, results[i]) /\ Apart(results[i], x)
      BY <1>0, <2>5 DEF Sharing, Apart
    <3>2. \A i, j \in 1..Len(results) : i # j => Apart(results[i], results[j])
      BY <1>0 DEF Sharing
    <3>3. \A i \in 1..Len(results') : i = Len(results) + 1 \/ i \in 1..Len(results)
      BY <2>6
    <3> QED
      BY <2>6, <3>1, <3>2, <3>3
  <2>13. Sharing'
    BY <2>4, <2>6, <2>8, <2>9, <2>10, <2>11, <2>12 DEF Sharing, Apart
  <2> QED
    BY <1>1, <2>1, <2>13 DEF CIInv
<1>7. ASSUME NEW i \in 1..Len(results), Overwrite(i) PROVE CIInv'
  <2>1. /\ UNCHANGED <<errors, call, walk, results>>
        /\ arrays' \in Seq(Seq(Data \cup {Unset})) /\ Len(arrays') = Len(arrays)
        /\ \A a \in 1..Len(arrays) : Len(arrays'[a]) = Len(arrays[a])
    BY <1>7, OverwriteArrays
  <2>2. IInv' /\ Causes' /\ \A s : Holds(s) => Holds(s)'
    BY <1>0, <2>1, MemoryStep
  <2>3. Sharing'
    BY <1>0, <2>1, <2>2 DEF Sharing, Apart
  <2> QED
    BY <2>2, <2>3 DEF CIInv
<1> QED
  BY <1>2, <1>3, <1>4, <1>5, <1>6, <1>7 DEF CNext

LEMMA CInductive == CSpec => []CIInv
BY CInitIInv, CStepIInv, PTL DEF CSpec

\* A slice that Attrs or FieldViolations gave out is the caller's alone: no
\* error, no copy in the making, no other result refers to its array
\* (inspect.go:75-167).
THEOREM ResultsOwnedCorrect == CSpec => []ResultsOwned
<1>1. \A s : Holds(s) => Owned(s)
  BY DEF Holds, Owned, Unread
<1>2. CIInv => ResultsOwned
  BY <1>1 DEF CIInv, Sharing, Apart, ResultsOwned
<1> QED
  BY <1>2, CInductive, PTL

\* Whatever callers write to their slices, sorting them, say, no error
\* changes.
THEOREM ErrorsImmutableByCallers == CSpec => ErrorsImmutable
<1>1. CIInv /\ [CNext]_cvars => [\A i \in 1..Len(errors) : ValueOf(errors[i])' = ValueOf(errors[i])]_vars
  <2> SUFFICES ASSUME CIInv, [CNext]_cvars
               PROVE  \A i \in 1..Len(errors) : ValueOf(errors[i])' = ValueOf(errors[i])
    OBVIOUS
  <2>0. IInv /\ Causes /\ Sharing
    BY DEF CIInv
  <2>1. CASE [Next]_vars
    <3>1. \A a \in 1..Len(arrays) : arrays'[a] # arrays[a] =>
             \A i \in 1..Len(errors) : ~Reads(errors[i], a)
      BY <2>0, <2>1, StepArrays DEF IInv, Private
    <3> QED
      BY <2>0, <2>1, <3>1, StepErrors, ErrorKept
  <2>2. ASSUME NEW s, Holds(s), UNCHANGED errors,
               \A a \in 1..Len(arrays) : arrays'[a] # arrays[a] => a = s.array
        PROVE  \A i \in 1..Len(errors) : ValueOf(errors[i])' = ValueOf(errors[i])
    <3>1. \A a \in 1..Len(arrays) : arrays'[a] # arrays[a] =>
             \A i \in 1..Len(errors) : ~Reads(errors[i], a)
      BY <2>2 DEF Holds, Unread
    <3> QED
      BY <2>0, <2>2, <3>1, ErrorKept
  <2>3. ASSUME NEW c \in Collectors, SeeNode(c)
        PROVE  \A i \in 1..Len(errors) : ValueOf(errors[i])' = ValueOf(errors[i])
    <3>1. PICK s : s = walk[c].slice /\ Holds(s)
      BY <2>0 DEF Sharing
    <3>2. walk[c].at \in 1..Len(errors) /\ walk[c].part \in Part
      BY <2>0, <2>3, CollectingAssumption DEF Sharing, SeeNode
    <3>3. PICK from : from = Unblocked(walk[c]) /\ from \in Slice /\ Within(from)
      BY <2>0, <3>2, UnblockedIs
    <3>4. PICK o \in Gathered(s, from) : arrays' = o.arrays
      BY <2>3, <3>1, <3>3 DEF SeeNode
    <3>5. UNCHANGED <<errors, call>>
      BY <2>3 DEF SeeNode
    <3>6. \A a \in 1..Len(arrays) : arrays'[a] # arrays[a] => a = s.array
      BY <2>0, <3>1, <3>3, <3>4, <3>5, GatheredHolds
    <3> QED
      BY <2>2, <3>1, <3>5, <3>6
  <2>4. ASSUME NEW i \in 1..Len(results), Overwrite(i)
        PROVE  \A j \in 1..Len(errors) : ValueOf(errors[j])' = ValueOf(errors[j])
    <3>1. PICK s : s = results[i] /\ Holds(s)
      BY <2>0 DEF Sharing
    <3> QED
      BY <2>2, <2>4, <3>1, OverwriteArrays
  <2>5. \/ [Next]_vars
        \/ \E c \in Collectors : SeeNode(c)
        \/ \E i \in 1..Len(results) : Overwrite(i)
    BY DEF CNext, cvars, vars, Collect, GiveOut
  <2> QED
    BY <2>1, <2>3, <2>4, <2>5
<1> QED
  BY <1>1, CInductive, PTL DEF CSpec, ErrorsImmutable
=============================================================================
