------------------------------- MODULE Errors -------------------------------
(***************************************************************************)
(* The constructors and builders of error.go as memory operations.  Every  *)
(* builder copies the struct and then sets one field of the copy; With,    *)
(* WithPublicField and WithFieldViolation append to a slice, whose backing *)
(* array the copy shares with the original.  Goroutines derive from shared *)
(* errors and their steps interleave.                                      *)
(*                                                                         *)
(* Definitions whose name begins with Bug are no part of the specification *)
(* (see Registry).                                                         *)
(***************************************************************************)
EXTENDS ErrorOps

CONSTANTS
    MaxErrors,  \* bound: how many errors are built
    MaxSlack    \* bound: capacity append may add beyond what it needs

ASSUME ErrorsAssumption == MaxErrors \in Nat /\ MaxSlack \in Nat

VARIABLES
    errors, \* the structs returned so far, by identity
    arrays, \* the backing arrays, by identity
    last,   \* last[g]: g's last call and what it returned
    call    \* call[g]: the call g is in

vars == <<errors, arrays, last, call>>

\* A slice; array 0 is that of the nil slice.
Slice == [array: Nat, len: Nat, cap: Nat]
NilSlice == [array |-> 0, len |-> 0, cap |-> 0]

Struct == [code: Data \cup {Unset}, msg: Data \cup {Unset}, public: Data \cup {Unset}, barrier: BOOLEAN,
           cause: Nat, delay: Int, frame: Nat, slices: [Part -> Slice]]

\* "e" is the receiver, or the error that is wrapped; "cp" the local copy.
Idle == [pc |-> "idle", op |-> NoOp, e |-> 0,
         cp |-> Fresh(NoOp, 0, 0, NilSlice)]

Init ==
    /\ errors = <<>>
    /\ arrays = <<>>
    /\ last = [g \in Goroutines |-> NoCall]
    /\ call = [g \in Goroutines |-> Idle]

----------------------------------------------------------------------------
(* The frame a constructor records.                                        *)

\* int addition wraps around.
Plus(x, y) == ((x + y + MaxInt + 1) % (2 * (MaxInt + 1))) - (MaxInt + 1)

\* runtime.Callers asked for one pc, n frames up from itself.
Callers(n) == IF n < 0 THEN 1 ELSE IF n < 3 + Depth THEN n + 1 ELSE 0

\* Bug: an oversized skip wraps around.
BugCaller(skip) == Callers(Plus(3, skip))
\* 3+skip frames up, or the unknown frame if that is not an int.
Caller(skip) == IF skip > MaxInt - 3 THEN 0 ELSE Callers(Plus(3, skip))

----------------------------------------------------------------------------
(* The calls.                                                              *)


\* A call that panics, is made on nil, or has nothing to set returns at once.
Refuse(g, o, e) ==
    /\ call[g].pc = "idle"
    /\ Refuses(o, e)
    /\ last' = [last EXCEPT ![g] = Returned(o, e, Refusal(o, e))]
    /\ UNCHANGED <<errors, arrays, call>>

\* cp := *e, or a literal with the caller's frame.
Copy(g, o, e) ==
    /\ call[g].pc = "idle"
    /\ ~Refuses(o, e)
    /\ call' = [call EXCEPT ![g] =
          [pc |-> IF Constructs(o) THEN "return" ELSE "set", op |-> o, e |-> e,
           cp |-> CASE o.kind = "New" -> Fresh(o, 0, Caller(o.skip), NilSlice)
                    [] o.kind = "Wrap" -> Fresh(o, e, Caller(o.skip), NilSlice)
                    [] OTHER -> errors[e]]]
    /\ UNCHANGED <<errors, arrays, last>>

\* g's call goes on at pc, its copy being cp now.
GoOn(g, pc, cp) == call' = [call EXCEPT ![g] = [pc |-> pc, op |-> @.op, e |-> @.e, cp |-> cp]]

\* One scalar field of the copy is assigned.
SetScalar(g) ==
    LET o == call[g].op
        x == call[g].cp
    IN  /\ call[g].pc = "set"
        /\ \/ o.kind = "WithCode" /\ GoOn(g, "return", [x EXCEPT !.code = o.value])
           \/ o.kind = "WithPublic" /\ GoOn(g, "return", [x EXCEPT !.public = o.value])
           \/ o.kind = "WithoutPublic" /\ GoOn(g, "return", [x EXCEPT !.barrier = TRUE])
           \/ o.kind = "WithRetryDelay" /\ GoOn(g, "return", [x EXCEPT !.delay = o.d])
        /\ UNCHANGED <<errors, arrays, last>>

\* Bug: the copy keeps the spare capacity it shares with the original.
BugClip(s) == s
\* slices.Clip: what is appended to the result always moves to a new array.
Clip(s) == [s EXCEPT !.cap = s.len]

\* The elements of a slice.
Elements(s) == IF s.array = 0 THEN <<>> ELSE SubSeq(arrays[s.array], 1, s.len)

\* The copy with slice s as its part p.
With(x, p, s) == [x EXCEPT !.slices = [@ EXCEPT ![p] = s]]

\* append finds room for the items: the slice only gets longer.
Extend(g) ==
    LET o == call[g].op
        s == Clip(call[g].cp.slices[o.kind])
        n == s.len + Len(o.items)
    IN  /\ call[g].pc = "set" /\ o.kind \in Part
        /\ n <= s.cap
        /\ GoOn(g, "store", With(call[g].cp, o.kind, [array |-> s.array, len |-> n, cap |-> s.cap]))
        /\ UNCHANGED <<errors, arrays, last>>

\* It does not: a larger array is allocated and the elements are moved.
Grow(g) ==
    LET o == call[g].op
        s == Clip(call[g].cp.slices[o.kind])
        n == s.len + Len(o.items)
    IN  /\ call[g].pc = "set" /\ o.kind \in Part
        /\ n > s.cap
        /\ \E slack \in 0..MaxSlack :
              /\ arrays' = Append(arrays, [i \in 1..(n + slack) |->
                              IF i <= s.len THEN Elements(s)[i] ELSE Unset])
              /\ GoOn(g, "store", With(call[g].cp, o.kind,
                        [array |-> Len(arrays) + 1, len |-> n, cap |-> n + slack]))
        /\ UNCHANGED <<errors, last>>

\* The items are written behind the old elements.
Store(g) ==
    LET o == call[g].op
        s == call[g].cp.slices[o.kind]
        old == s.len - Len(o.items)
    IN  /\ call[g].pc = "store"
        /\ arrays' = IF o.items = <<>> THEN arrays
                     ELSE [arrays EXCEPT ![s.array] =
                             [i \in DOMAIN @ |-> IF i \in (old + 1)..s.len THEN o.items[i - old]
                                                                          ELSE @[i]]]
        /\ GoOn(g, "return", call[g].cp)
        /\ UNCHANGED <<errors, last>>

\* return &cp: from here on any goroutine may have the error.
Return(g) ==
    /\ call[g].pc = "return"
    /\ errors' = Append(errors, call[g].cp)
    /\ last' = [last EXCEPT ![g] = Returned(call[g].op, call[g].e, Len(errors'))]
    /\ call' = [call EXCEPT ![g] = Idle]
    /\ UNCHANGED arrays

Begin(g) ==
    \E o \in Ops : \E e \in Bases(o, Len(errors)) :
        Refuse(g, o, e) \/ (Len(errors) < MaxErrors /\ Copy(g, o, e))

Proceed(g) == SetScalar(g) \/ Extend(g) \/ Grow(g) \/ Store(g) \/ Return(g)

Next == \E g \in Goroutines : Begin(g) \/ Proceed(g)

Spec == Init /\ [][Next]_vars

----------------------------------------------------------------------------
(* Refinement: an error is what its struct and its arrays say.             *)

ValueOf(x) == [x EXCEPT !.slices = [p \in Part |-> Elements(x.slices[p])]]

Values == INSTANCE ErrorValues WITH errs <- [i \in 1..Len(errors) |-> ValueOf(errors[i])]

----------------------------------------------------------------------------
(* Properties.                                                             *)

\* Error "is immutable ... a single *Error can be safely shared and derived
\* from across goroutines" (error.go): no step changes an error that exists,
\* down to the elements of its slices.
ErrorsImmutable ==
    [][\A i \in 1..Len(errors) : ValueOf(errors[i])' = ValueOf(errors[i])]_vars

\* No step writes to an array that anyone else can read: the builders are
\* free of data races, not just of visible ones.
Reads(x, a) == \E p \in Part : x.slices[p].array = a
WritesArePrivate ==
    [][\A a \in 1..Len(arrays) : arrays'[a] # arrays[a] =>
          /\ \A i \in 1..Len(errors) : ~Reads(errors[i], a)
          /\ \E g \in Goroutines : \A h \in Goroutines \ {g} : ~Reads(call[h].cp, a)]_vars

\* A constructor records a frame of its user, or none at all: never one of
\* the runtime's or of errtrail's own.
FramesAreUsers == \A i \in 1..Len(errors) : errors[i].frame \in {0} \cup 4..(3 + Depth)

\* So every call is atomic, on values.
ImplementsValues == Values!Spec

============================================================================
