------------------------------ MODULE Registry ------------------------------
(***************************************************************************)
(* The code registry as code.go implements it: immutable snapshots on the  *)
(* heap, an atomic pointer to the current one, and a mutex that serializes *)
(* Register calls only.  A writer goroutine runs one Register call at a    *)
(* time, step by step; a panic unwinds through the deferred Unlock and the *)
(* goroutine goes on (net/http and tests recover it).  A reader goroutine  *)
(* runs lookups: an atomic pointer load, then a map read in the snapshot   *)
(* it loaded, with no lock.                                                *)
(***************************************************************************)
EXTENDS Codes

CONSTANTS
    Writers,  \* goroutines that call Register
    Readers,  \* goroutines that call CodeByName and the accessors of Code
    Calls,    \* the Register calls the writers may make
    Nobody    \* the owner of an unlocked mutex

ASSUME RegistryAssumption ==
    /\ Calls \subseteq RegisterCall
    /\ Nobody \notin Writers

VARIABLES
    heap,         \* every snapshot allocated so far; a pointer is an index
    registryPtr,  \* the published snapshot
    registerMu,   \* the owner of the mutex, or Nobody
    pc,           \* pc[w]: the step writer w is about to take
    call,         \* call[w]: the arguments of its Register call
    reg,          \* reg[w]: the snapshot it loaded under the lock
    next,         \* next[w]: the clone it is filling in
    info,         \* info[w]: the entry it is building
    applied,      \* applied[w]: how many options it has applied
    out,          \* out[w]: the verdict of its call, once known
    rpc,          \* rpc[r]: whether reader r is between its load and its read
    query,        \* query[r]: what it looks up
    rreg,         \* rreg[r]: the snapshot it loaded
    result        \* result[r]: what its last lookup returned

wvars == <<pc, call, reg, next, info, applied, out>>
rvars == <<rpc, query, rreg, result>>
vars  == <<heap, registryPtr, registerMu, wvars, rvars>>

Snapshot == [codes: CodeMap, names: [Name -> Code \cup {Absent}]]

\* The steps a writer takes while it owns registerMu.
Critical == {"load", "checkCode", "checkName", "options", "clone",
             "setCode", "setName", "store", "unlock"}
PC == {"idle", "validate", "lock", "return"} \cup Critical

Query == [code: Code, name: {Absent}] \cup [code: {Absent}, name: Name]
NoAnswer == [info |-> Absent, code |-> Absent]
Answer == [info: CodeInfo \cup {Absent}, code: Code \cup {Absent}]

TypeOK ==
    /\ heap \in Seq(Snapshot)
    /\ registryPtr \in 1..Len(heap)
    /\ registerMu \in Writers \cup {Nobody}
    /\ pc \in [Writers -> PC]
    /\ call \in [Writers -> Calls \cup {Absent}]
    /\ reg \in [Writers -> 0..Len(heap)]
    /\ next \in [Writers -> 0..Len(heap)]
    /\ info \in [Writers -> CodeInfo \cup {Absent}]
    /\ applied \in [Writers -> Nat]
    /\ out \in [Writers -> Verdict \cup {"none"}]
    /\ rpc \in [Readers -> {"idle", "read"}]
    /\ query \in [Readers -> Query \cup {Absent}]
    /\ rreg \in [Readers -> 0..Len(heap)]
    /\ result \in [Readers -> Answer]

----------------------------------------------------------------------------
(* Definitions whose name begins with Bug are no part of the specification.*)
(* Each is the definition after it with one plausible mistake in it, kept  *)
(* to show that some property below can fail.                              *)

(* init(): the first snapshot is the builtins map itself and its reverse   *)
(* index.                                                                  *)

InitialNames ==
    [n \in Name |->
        IF \E c \in Code : Builtins[c] # Absent /\ Builtins[c].name = n
        THEN CHOOSE c \in Code : Builtins[c] # Absent /\ Builtins[c].name = n
        ELSE Absent]

InitialPtr == 1

Init ==
    /\ heap = <<[codes |-> Builtins, names |-> InitialNames]>>
    /\ registryPtr = InitialPtr
    /\ registerMu = Nobody
    /\ pc = [w \in Writers |-> "idle"]
    /\ call = [w \in Writers |-> Absent]
    /\ reg = [w \in Writers |-> 0]
    /\ next = [w \in Writers |-> 0]
    /\ info = [w \in Writers |-> Absent]
    /\ applied = [w \in Writers |-> 0]
    /\ out = [w \in Writers |-> "none"]
    /\ rpc = [r \in Readers |-> "idle"]
    /\ query = [r \in Readers |-> Absent]
    /\ rreg = [r \in Readers |-> 0]
    /\ result = [r \in Readers |-> NoAnswer]

----------------------------------------------------------------------------
(* Register, one action per step.                                          *)

GoTo(w, l) == pc' = [pc EXCEPT ![w] = l]

\* Bug: Unlock is not deferred, so a panic skips it.
BugPanic(w, v) == out' = [out EXCEPT ![w] = v] /\ GoTo(w, "return")

\* A panic: outside the critical section it leaves the call at once, inside
\* it runs the deferred Unlock first.
Panic(w, v) ==
    /\ out' = [out EXCEPT ![w] = v]
    /\ GoTo(w, IF pc[w] \in Critical THEN "unlock" ELSE "return")

Register(w, k) ==
    /\ pc[w] = "idle"
    /\ call' = [call EXCEPT ![w] = k]
    /\ GoTo(w, "validate")
    /\ UNCHANGED <<heap, registryPtr, registerMu, reg, next, info, applied, out, rvars>>

Validate(w) ==
    /\ pc[w] = "validate"
    /\ IF ArgVerdict(call[w]) = "ok"
       THEN GoTo(w, "lock") /\ UNCHANGED out
       ELSE Panic(w, ArgVerdict(call[w]))
    /\ UNCHANGED <<heap, registryPtr, registerMu, call, reg, next, info, applied, rvars>>

Lock(w) ==
    /\ pc[w] = "lock"
    /\ registerMu = Nobody
    /\ registerMu' = w
    /\ GoTo(w, "load")
    /\ UNCHANGED <<heap, registryPtr, call, reg, next, info, applied, out, rvars>>

Load(w) ==
    /\ pc[w] = "load"
    /\ reg' = [reg EXCEPT ![w] = registryPtr]
    /\ GoTo(w, "checkCode")
    /\ UNCHANGED <<heap, registryPtr, registerMu, call, next, info, applied, out, rvars>>

\* Bug: a code may be registered twice.
BugCheckCode(w) ==
    /\ pc[w] = "checkCode"
    /\ GoTo(w, "checkName")
    /\ UNCHANGED <<heap, registryPtr, registerMu, call, reg, next, info, applied, out, rvars>>

CheckCode(w) ==
    /\ pc[w] = "checkCode"
    /\ IF heap[reg[w]].codes[call[w].code] # Absent
       THEN Panic(w, "dupCode")
       ELSE GoTo(w, "checkName") /\ UNCHANGED out
    /\ UNCHANGED <<heap, registryPtr, registerMu, call, reg, next, info, applied, rvars>>

\* Bug: a name may be registered twice.
BugCheckName(w) ==
    /\ pc[w] = "checkName"
    /\ info' = [info EXCEPT ![w] = BareInfo(call[w])]
    /\ GoTo(w, "options")
    /\ UNCHANGED <<heap, registryPtr, registerMu, call, reg, next, applied, out, rvars>>

CheckName(w) ==
    /\ pc[w] = "checkName"
    /\ IF heap[reg[w]].names[call[w].name] # Absent
       THEN Panic(w, "dupName") /\ UNCHANGED info
       ELSE /\ info' = [info EXCEPT ![w] = BareInfo(call[w])]
            /\ GoTo(w, "options")
            /\ UNCHANGED out
    /\ UNCHANGED <<heap, registryPtr, registerMu, call, reg, next, applied, rvars>>

\* One turn of the option loop, or its end.
Options(w) ==
    LET n == applied[w] + 1
        o == call[w].opts[n]
    IN  /\ pc[w] = "options"
        /\ \/ /\ n > Len(call[w].opts)
              /\ GoTo(w, "clone")
              /\ UNCHANGED <<info, applied, out>>
           \/ /\ n <= Len(call[w].opts)
              /\ BadOption(o)
              /\ Panic(w, "badDelay")
              /\ UNCHANGED <<info, applied>>
           \/ /\ n <= Len(call[w].opts)
              /\ ~BadOption(o)
              /\ info' = [info EXCEPT ![w] = ApplyOption(o, @)]
              /\ applied' = [applied EXCEPT ![w] = n]
              /\ UNCHANGED <<pc, out>>
        /\ UNCHANGED <<heap, registryPtr, registerMu, call, reg, next, rvars>>

\* Bug: the "clone" shares its maps with the published snapshot.
BugClone(w) ==
    /\ pc[w] = "clone"
    /\ next' = [next EXCEPT ![w] = reg[w]]
    /\ GoTo(w, "setCode")
    /\ UNCHANGED <<heap, registryPtr, registerMu, call, reg, info, applied, out, rvars>>

\* clone() fills maps nobody else can reach yet: one step.
Clone(w) ==
    /\ pc[w] = "clone"
    /\ heap' = Append(heap, heap[reg[w]])
    /\ next' = [next EXCEPT ![w] = Len(heap) + 1]
    /\ GoTo(w, "setCode")
    /\ UNCHANGED <<registryPtr, registerMu, call, reg, info, applied, out, rvars>>

SetCode(w) ==
    /\ pc[w] = "setCode"
    /\ heap' = [heap EXCEPT ![next[w]].codes[call[w].code] = info[w]]
    /\ GoTo(w, "setName")
    /\ UNCHANGED <<registryPtr, registerMu, call, reg, next, info, applied, out, rvars>>

\* Bug: the reverse index is not updated.
BugSetName(w) ==
    /\ pc[w] = "setName"
    /\ GoTo(w, "store")
    /\ UNCHANGED <<heap, registryPtr, registerMu, call, reg, next, info, applied, out, rvars>>

SetName(w) ==
    /\ pc[w] = "setName"
    /\ heap' = [heap EXCEPT ![next[w]].names[call[w].name] = call[w].code]
    /\ GoTo(w, "store")
    /\ UNCHANGED <<registryPtr, registerMu, call, reg, next, info, applied, out, rvars>>

Store(w) ==
    /\ pc[w] = "store"
    /\ registryPtr' = next[w]
    /\ out' = [out EXCEPT ![w] = "ok"]
    /\ GoTo(w, "unlock")
    /\ UNCHANGED <<heap, registerMu, call, reg, next, info, applied, rvars>>

\* The deferred Unlock, on the way out of a return or of a panic.
Unlock(w) ==
    /\ pc[w] = "unlock"
    /\ registerMu' = Nobody
    /\ GoTo(w, "return")
    /\ UNCHANGED <<heap, registryPtr, call, reg, next, info, applied, out, rvars>>

\* The call is over; its locals die with it.
Return(w) ==
    /\ pc[w] = "return"
    /\ GoTo(w, "idle")
    /\ call' = [call EXCEPT ![w] = Absent]
    /\ reg' = [reg EXCEPT ![w] = 0]
    /\ next' = [next EXCEPT ![w] = 0]
    /\ info' = [info EXCEPT ![w] = Absent]
    /\ applied' = [applied EXCEPT ![w] = 0]
    /\ out' = [out EXCEPT ![w] = "none"]
    /\ UNCHANGED <<heap, registryPtr, registerMu, rvars>>

----------------------------------------------------------------------------
(* A lookup: CodeByName(name), or one of String, HTTPStatus, GRPCCode,     *)
(* Retryable and RetryDelay, which all read the entry of one code.         *)

LookupLoad(r, q) ==
    /\ rpc[r] = "idle"
    /\ rpc' = [rpc EXCEPT ![r] = "read"]
    /\ query' = [query EXCEPT ![r] = q]
    /\ rreg' = [rreg EXCEPT ![r] = registryPtr]
    /\ UNCHANGED <<heap, registryPtr, registerMu, wvars, result>>

AnswerIn(s, q) ==
    IF q.name = Absent THEN [info |-> s.codes[q.code], code |-> q.code]
                       ELSE [info |-> Absent, code |-> s.names[q.name]]

\* Bug: a lookup takes the writers' lock.
BugLookupRead(r) ==
    /\ rpc[r] = "read"
    /\ registerMu = Nobody
    /\ rpc' = [rpc EXCEPT ![r] = "idle"]
    /\ result' = [result EXCEPT ![r] = AnswerIn(heap[rreg[r]], query[r])]
    /\ query' = [query EXCEPT ![r] = Absent]
    /\ rreg' = [rreg EXCEPT ![r] = 0]
    /\ UNCHANGED <<heap, registryPtr, registerMu, wvars>>

LookupRead(r) ==
    /\ rpc[r] = "read"
    /\ rpc' = [rpc EXCEPT ![r] = "idle"]
    /\ result' = [result EXCEPT ![r] = AnswerIn(heap[rreg[r]], query[r])]
    /\ query' = [query EXCEPT ![r] = Absent]
    /\ rreg' = [rreg EXCEPT ![r] = 0]
    /\ UNCHANGED <<heap, registryPtr, registerMu, wvars>>

----------------------------------------------------------------------------
\* The steps of a call already begun, other than waiting for the mutex.
Proceed(w) ==
    \/ Validate(w) \/ Load(w) \/ CheckCode(w) \/ CheckName(w) \/ Options(w)
    \/ Clone(w) \/ SetCode(w) \/ SetName(w) \/ Store(w) \/ Unlock(w) \/ Return(w)

Next ==
    \/ \E w \in Writers : (\E k \in Calls : Register(w, k)) \/ Lock(w) \/ Proceed(w)
    \/ \E r \in Readers : (\E q \in Query : LookupLoad(r, q)) \/ LookupRead(r)

Spec == Init /\ [][Next]_vars

\* The scheduler runs every goroutine that can run, and sync.Mutex hands the
\* lock to a waiter it has kept waiting (starvation mode), so a goroutine
\* that finds the mutex free again and again does get it.  Nobody is obliged
\* to start a call.
Fairness ==
    /\ \A w \in Writers : WF_vars(Proceed(w)) /\ SF_vars(Lock(w))
    /\ \A r \in Readers : WF_vars(LookupRead(r))

FairSpec == Spec /\ Fairness

\* Only the readers are scheduled: a writer may stop for ever at any step,
\* inside the critical section included.
ReadersFairSpec == Spec /\ \A r \in Readers : WF_vars(LookupRead(r))

----------------------------------------------------------------------------
(* Properties.                                                             *)

\* registerMu serializes Register: its owner is the one writer inside the
\* critical section, so a panic never leaves it locked and no return path
\* skips the Unlock.
MutexHeldInside ==
    \A w \in Writers : registerMu = w <=> pc[w] \in Critical

\* In every snapshot a lookup can reach - the published one or an older one
\* a reader still holds - codes and names are inverse to each other: the
\* entry of a code bears the name that CodeByName maps back to it.
Published == 1..registryPtr

Inverse(s) ==
    /\ \A c \in Code : s.codes[c] # Absent => s.names[s.codes[c].name] = c
    /\ \A n \in Name : s.names[n] # Absent =>
          s.codes[s.names[n]] # Absent /\ s.codes[s.names[n]].name = n

SnapshotsConsistent == \A p \in Published : Inverse(heap[p])

\* "Never mutate a snapshot that has been stored": no step changes one.
SnapshotsFrozen == [][\A p \in Published : heap'[p] = heap[p]]_vars

\* "Entries are immutable once registered", and none is ever lost: what the
\* published snapshot says of a registered code and of a bound name it says
\* for ever, whichever writers clone and swap after that.
EntriesPermanent ==
    [][/\ \A c \in Code : heap[registryPtr].codes[c] # Absent =>
             heap'[registryPtr'].codes[c] = heap[registryPtr].codes[c]
       /\ \A n \in Name : heap[registryPtr].names[n] # Absent =>
             heap'[registryPtr'].names[n] = heap[registryPtr].names[n]]_vars

\* A Register call that ends well has its entry in the table, under its code
\* and under its name, when it returns.
SuccessIsVisible ==
    \A w \in Writers : pc[w] = "return" /\ out[w] = "ok" =>
        /\ heap[registryPtr].codes[call[w].code] = info[w]
        /\ heap[registryPtr].names[call[w].name] = call[w].code

\* What every converter relies on: a custom code a lookup can find has an
\* error status for HTTP, a gRPC code that is not OK (ToError would return
\* nil for it and drop the error), a name that is legal as an ErrorInfo
\* reason, and a delay only if it is retryable.
EntriesSound ==
    \A c \in Code :
        LET e == heap[registryPtr].codes[c]
        IN  e # Absent /\ Builtins[c] = Absent =>
               /\ c >= CustomCodeMin
               /\ e.httpStatus \in 400..599
               /\ e.grpcCode \in 1..16
               /\ e.name \in ValidName
               /\ e.retryDelay > 0 => e.retryable

\* The registry behaves as one table in which Register takes effect at an
\* instant and a lookup is answered at an instant.  A lookup is linearized at
\* its pointer load, a successful Register at its Store, a refused one where
\* it panics.
TableOf == heap[registryPtr].codes

OpOf == [w \in Writers |->
           [state |-> IF pc[w] = "idle" THEN "idle"
                      ELSE IF out[w] = "none" THEN "pending" ELSE "done",
            call  |-> call[w],
            out   |-> out[w]]]

AnswerOf == [r \in Readers |->
               IF rpc[r] = "read" THEN AnswerIn(heap[rreg[r]], query[r]) ELSE result[r]]

Table == INSTANCE CodeTable WITH table <- TableOf, op <- OpOf, answer <- AnswerOf

ImplementsTable == Table!Spec

\* Every Register call ends, by returning or by panicking.
RegisterEnds ==
    \A w \in Writers : pc[w] = "validate" ~> pc[w] = "idle"

\* A lookup ends even when a writer stops for ever while it owns the mutex.
LookupEnds == \A r \in Readers : rpc[r] = "read" ~> rpc[r] = "idle"

============================================================================
