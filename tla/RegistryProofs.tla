--------------------------- MODULE RegistryProofs ---------------------------
(***************************************************************************)
(* Theorems about Registry, for every set of writers, readers, codes,      *)
(* names and calls.                                                        *)
(***************************************************************************)
EXTENDS Registry, TLAPS

\* Where a writer holds a loaded snapshot, and where it holds a clone.
Filling == {"setCode", "setName", "store"}
Loaded  == {"checkCode", "checkName", "options", "clone"} \cup Filling

\* Control: a writer past the call has its arguments; one that has loaded
\* the pointer still holds the current snapshot, because only the owner of
\* the mutex moves the pointer; and the only snapshot beyond the published
\* ones is the clone of the writer that is filling it in.
Control ==
    /\ \A w \in Writers : pc[w] # "idle" => call[w] \in Calls
    /\ \A w \in Writers : pc[w] \in Loaded => reg[w] = registryPtr
    /\ \A w \in Writers : pc[w] \in Filling =>
          next[w] = registryPtr + 1 /\ Len(heap) = registryPtr + 1
    /\ (\A w \in Writers : pc[w] \notin Filling) => Len(heap) = registryPtr
    /\ \A w \in Writers : pc[w] \in {"options", "clone"} \cup Filling => info[w] \in CodeInfo
    /\ \A r \in Readers : rpc[r] = "read" => rreg[r] \in Published /\ query[r] \in Query

CInv == TypeOK /\ MutexHeldInside /\ Control

----------------------------------------------------------------------------
\* A verdict on the arguments is a verdict.
LEMMA ArgVerdictType == \A k : ArgVerdict(k) \in Verdict
BY DEF ArgVerdict, Verdict

\* The entry a call starts from is an entry.
LEMMA BareInfoType == \A k \in RegisterCall : BareInfo(k) \in CodeInfo
BY DEF BareInfo, RegisterCall, CodeInfo

\* Applying an option that is not refused to an entry yields an entry.
LEMMA ApplyOptionType ==
    ASSUME NEW o \in Option, ~BadOption(o), NEW e \in CodeInfo
    PROVE  ApplyOption(o, e) \in CodeInfo
<1>1. o.kind = "RetryAfter" => o.d \in Nat
  BY DEF Option, BadOption
<1> QED
  BY <1>1 DEF ApplyOption, CodeInfo

\* The control invariant holds initially.
LEMMA InitCInv == Init => CInv
<1> SUFFICES ASSUME Init PROVE CInv
  OBVIOUS
<1> USE CodesAssumption, BuiltinsAssumption, RegistryAssumption
<1>1. [codes |-> Builtins, names |-> InitialNames] \in Snapshot
  BY DEF InitialNames, Snapshot, CodeMap
<1>2. heap \in Seq(Snapshot) /\ Len(heap) = 1 /\ registryPtr = 1
  BY <1>1 DEF Init, InitialPtr
<1>3. TypeOK
  BY <1>2 DEF Init, TypeOK, PC, Answer, NoAnswer
<1>4. MutexHeldInside /\ Control
  BY <1>2 DEF Init, MutexHeldInside, Control, Critical, Loaded, Filling
<1> QED
  BY <1>3, <1>4 DEF CInv

\* Every step preserves the control invariant.
LEMMA NextCInv == CInv /\ [Next]_vars => CInv'
<1> SUFFICES ASSUME CInv, [Next]_vars PROVE CInv'
  OBVIOUS
<1> USE CodesAssumption, RegistryAssumption DEF CInv
<1> DEFINE Shape == TypeOK' /\ MutexHeldInside' /\ Control'
<1>1. ASSUME NEW w \in Writers, NEW k \in Calls, Register(w, k) PROVE Shape
  BY <1>1 DEF Register, GoTo, TypeOK, MutexHeldInside, Control, Critical, Loaded, Filling, PC, Published, rvars
<1>2. ASSUME NEW w \in Writers, Validate(w) PROVE Shape
  <2>1. CASE ArgVerdict(call[w]) = "ok"
    <3>1. /\ pc[w] = "validate" /\ pc' = [pc EXCEPT ![w] = "lock"]
          /\ UNCHANGED out
          /\ UNCHANGED <<heap, registryPtr, registerMu, call, reg, next, info, applied, rvars>>
      BY <1>2, <2>1 DEF Validate, GoTo
    <3> QED
      BY <3>1 DEF TypeOK, MutexHeldInside, Control, Critical, Loaded, Filling, PC, Published, rvars
  <2>2. CASE ArgVerdict(call[w]) # "ok"
    <3>1. /\ pc[w] = "validate" /\ pc' = [pc EXCEPT ![w] = "return"]
          /\ out' = [out EXCEPT ![w] = ArgVerdict(call[w])]
          /\ UNCHANGED <<heap, registryPtr, registerMu, call, reg, next, info, applied, rvars>>
      BY <1>2, <2>2 DEF Validate, Panic, GoTo, Critical
    <3> QED
      BY <3>1, ArgVerdictType DEF TypeOK, MutexHeldInside, Control, Critical, Loaded, Filling, PC, Published, rvars
  <2> QED
    BY <2>1, <2>2
<1>3. ASSUME NEW w \in Writers, Lock(w) PROVE Shape
  BY <1>3 DEF Lock, GoTo, TypeOK, MutexHeldInside, Control, Critical, Loaded, Filling, PC, Published, rvars
<1>4. ASSUME NEW w \in Writers, Load(w) PROVE Shape
  BY <1>4 DEF Load, GoTo, TypeOK, MutexHeldInside, Control, Critical, Loaded, Filling, PC, Published, rvars
<1>5. ASSUME NEW w \in Writers, CheckCode(w) PROVE Shape
  <2>1. CASE heap[reg[w]].codes[call[w].code] = Absent
    <3>1. /\ pc[w] = "checkCode" /\ pc' = [pc EXCEPT ![w] = "checkName"]
          /\ UNCHANGED out
          /\ UNCHANGED <<heap, registryPtr, registerMu, call, reg, next, info, applied, rvars>>
      BY <1>5, <2>1 DEF CheckCode, GoTo
    <3> QED
      BY <3>1 DEF TypeOK, MutexHeldInside, Control, Critical, Loaded, Filling, PC, Published, rvars
  <2>2. CASE heap[reg[w]].codes[call[w].code] # Absent
    <3>1. /\ pc[w] = "checkCode" /\ pc' = [pc EXCEPT ![w] = "unlock"]
          /\ out' = [out EXCEPT ![w] = "dupCode"]
          /\ UNCHANGED <<heap, registryPtr, registerMu, call, reg, next, info, applied, rvars>>
      BY <1>5, <2>2 DEF CheckCode, Panic, GoTo, Critical
    <3> QED
      BY <3>1 DEF Verdict, TypeOK, MutexHeldInside, Control, Critical, Loaded, Filling, PC, Published, rvars
  <2> QED
    BY <2>1, <2>2
<1>6. ASSUME NEW w \in Writers, CheckName(w) PROVE Shape
  <2>1. CASE heap[reg[w]].names[call[w].name] = Absent
    <3>1. BareInfo(call[w]) \in CodeInfo
      BY <1>6, BareInfoType DEF CheckName, Control
    <3>2. /\ pc[w] = "checkName" /\ pc' = [pc EXCEPT ![w] = "options"]
          /\ info' = [info EXCEPT ![w] = BareInfo(call[w])]
          /\ UNCHANGED <<out, heap, registryPtr, registerMu, call, reg, next, applied, rvars>>
      BY <1>6, <2>1 DEF CheckName, GoTo
    <3> QED
      BY <3>1, <3>2 DEF TypeOK, MutexHeldInside, Control, Critical, Loaded, Filling, PC, Published, rvars
  <2>2. CASE heap[reg[w]].names[call[w].name] # Absent
    <3>1. /\ pc[w] = "checkName" /\ pc' = [pc EXCEPT ![w] = "unlock"]
          /\ out' = [out EXCEPT ![w] = "dupName"]
          /\ UNCHANGED <<heap, registryPtr, registerMu, call, reg, next, info, applied, rvars>>
      BY <1>6, <2>2 DEF CheckName, Panic, GoTo, Critical
    <3> QED
      BY <3>1 DEF Verdict, TypeOK, MutexHeldInside, Control, Critical, Loaded, Filling, PC, Published, rvars
  <2> QED
    BY <2>1, <2>2
<1>7. ASSUME NEW w \in Writers, Options(w) PROVE Shape
  <2>1. call[w] \in RegisterCall /\ applied[w] \in Nat /\ info[w] \in CodeInfo
    BY <1>7 DEF Options, TypeOK, Control
  <2> DEFINE n == applied[w] + 1
             o == call[w].opts[n]
  <2>2. CASE n > Len(call[w].opts)
    <3>1. /\ pc[w] = "options" /\ pc' = [pc EXCEPT ![w] = "clone"]
          /\ UNCHANGED out
          /\ UNCHANGED <<heap, registryPtr, registerMu, call, reg, next, info, applied, rvars>>
      BY <1>7, <2>1, <2>2 DEF Options, GoTo, RegisterCall
    <3> QED
      BY <3>1 DEF TypeOK, MutexHeldInside, Control, Critical, Loaded, Filling, PC, Published, rvars
  <2>3. CASE n <= Len(call[w].opts) /\ BadOption(o)
    <3>1. /\ pc[w] = "options" /\ pc' = [pc EXCEPT ![w] = "unlock"]
          /\ out' = [out EXCEPT ![w] = "badDelay"]
          /\ UNCHANGED <<heap, registryPtr, registerMu, call, reg, next, info, applied, rvars>>
      BY <1>7, <2>1, <2>3 DEF Options, Panic, GoTo, Critical, RegisterCall
    <3> QED
      BY <3>1 DEF Verdict, TypeOK, MutexHeldInside, Control, Critical, Loaded, Filling, PC, Published, rvars
  <2>4. CASE n <= Len(call[w].opts) /\ ~BadOption(o)
    <3>1. o \in Option
      BY <2>1, <2>4 DEF RegisterCall
    <3>2. ApplyOption(o, info[w]) \in CodeInfo
      BY <2>1, <2>4, <3>1, ApplyOptionType
    <3>3. /\ pc[w] = "options"
          /\ info' = [info EXCEPT ![w] = ApplyOption(o, info[w])]
          /\ applied' = [applied EXCEPT ![w] = applied[w] + 1]
          /\ UNCHANGED <<pc, out, heap, registryPtr, registerMu, call, reg, next, rvars>>
      BY <1>7, <2>1, <2>4 DEF Options, RegisterCall
    <3> QED
      BY <2>1, <3>2, <3>3 DEF TypeOK, MutexHeldInside, Control, Critical, Loaded, Filling, PC, Published, rvars
  <2> QED
    BY <1>7, <2>1, <2>2, <2>3, <2>4 DEF Options, RegisterCall
<1>8. ASSUME NEW w \in Writers, Clone(w) PROVE Shape
  BY <1>8 DEF Clone, GoTo, TypeOK, MutexHeldInside, Control, Critical, Loaded, Filling, PC, Published, rvars
<1>9. ASSUME NEW w \in Writers, SetCode(w) PROVE Shape
  <2>1. /\ next[w] = Len(heap) /\ next[w] \in 1..Len(heap)
        /\ call[w] \in RegisterCall /\ info[w] \in CodeInfo
    BY <1>9 DEF SetCode, TypeOK, Control, Filling
  <2>2. heap' \in Seq(Snapshot) /\ Len(heap') = Len(heap)
    <3> DEFINE s == [heap[next[w]] EXCEPT !.codes[call[w].code] = info[w]]
    <3>1. heap[next[w]] \in Snapshot
      BY <2>1 DEF TypeOK
    <3>2. call[w].code \in Code
      BY <2>1 DEF RegisterCall
    <3>3. s \in Snapshot
      BY <2>1, <3>1, <3>2 DEF Snapshot, CodeMap
    <3>4. heap' = [heap EXCEPT ![next[w]] = s]
      BY <1>9 DEF SetCode
    <3> HIDE DEF s
    <3> QED
      BY <2>1, <3>3, <3>4 DEF TypeOK
  <2>3. /\ pc[w] = "setCode" /\ pc' = [pc EXCEPT ![w] = "setName"]
        /\ UNCHANGED <<registryPtr, registerMu, call, reg, next, info, applied, out, rvars>>
    BY <1>9 DEF SetCode, GoTo
  <2> QED
    BY <2>1, <2>2, <2>3 DEF TypeOK, MutexHeldInside, Control, Critical, Loaded, Filling, PC, Published, rvars
<1>10. ASSUME NEW w \in Writers, SetName(w) PROVE Shape
  <2>1. /\ next[w] = Len(heap) /\ next[w] \in 1..Len(heap)
        /\ call[w] \in RegisterCall
    BY <1>10 DEF SetName, TypeOK, Control, Filling
  <2>2. heap' \in Seq(Snapshot) /\ Len(heap') = Len(heap)
    <3> DEFINE s == [heap[next[w]] EXCEPT !.names[call[w].name] = call[w].code]
    <3>1. heap[next[w]] \in Snapshot
      BY <2>1 DEF TypeOK
    <3>2. call[w].code \in Code /\ call[w].name \in Name
      BY <2>1 DEF RegisterCall
    <3>3. s \in Snapshot
      BY <3>1, <3>2 DEF Snapshot
    <3>4. heap' = [heap EXCEPT ![next[w]] = s]
      BY <1>10 DEF SetName
    <3> HIDE DEF s
    <3> QED
      BY <2>1, <3>3, <3>4 DEF TypeOK
  <2>3. /\ pc[w] = "setName" /\ pc' = [pc EXCEPT ![w] = "store"]
        /\ UNCHANGED <<registryPtr, registerMu, call, reg, next, info, applied, out, rvars>>
    BY <1>10 DEF SetName, GoTo
  <2> QED
    BY <2>1, <2>2, <2>3 DEF TypeOK, MutexHeldInside, Control, Critical, Loaded, Filling, PC, Published, rvars
<1>11. ASSUME NEW w \in Writers, Store(w) PROVE Shape
  BY <1>11 DEF Store, GoTo, TypeOK, MutexHeldInside, Control, Critical, Loaded, Filling, PC, Published, rvars, Verdict
<1>12. ASSUME NEW w \in Writers, Unlock(w) PROVE Shape
  BY <1>12 DEF Unlock, GoTo, TypeOK, MutexHeldInside, Control, Critical, Loaded, Filling, PC, Published, rvars
<1>13. ASSUME NEW w \in Writers, Return(w) PROVE Shape
  <2>1. TypeOK'
    BY <1>13 DEF Return, GoTo, TypeOK, PC, rvars
  <2>2. MutexHeldInside'
    BY <1>13 DEF Return, GoTo, TypeOK, MutexHeldInside, Critical
  <2>3. Control'
    BY <1>13 DEF Return, GoTo, TypeOK, Control, Loaded, Filling, Published, rvars
  <2> QED
    BY <2>1, <2>2, <2>3
<1>14. ASSUME NEW r \in Readers, NEW q \in Query, LookupLoad(r, q) PROVE Shape
  BY <1>14 DEF LookupLoad, TypeOK, MutexHeldInside, Control, Critical, Loaded, Filling, PC, Published, wvars
<1>15. ASSUME NEW r \in Readers, LookupRead(r) PROVE Shape
  <2>1. rreg[r] \in 1..Len(heap) /\ query[r] \in Query
    BY <1>15 DEF LookupRead, Control, Published, TypeOK
  <2>2. AnswerIn(heap[rreg[r]], query[r]) \in Answer
    <3>1. heap[rreg[r]] \in Snapshot
      BY <2>1 DEF TypeOK
    <3>2. CASE query[r] \in [code: Code, name: {Absent}]
      <4>1. query[r].name = Absent /\ query[r].code \in Code
        BY <3>2
      <4>2. heap[rreg[r]].codes[query[r].code] \in CodeInfo \cup {Absent}
        BY <3>1, <4>1 DEF Snapshot, CodeMap
      <4> QED
        BY <4>1, <4>2 DEF AnswerIn, Answer
    <3>3. CASE query[r] \in [code: {Absent}, name: Name]
      <4>1. query[r].name # Absent /\ query[r].name \in Name
        BY <3>3
      <4>2. heap[rreg[r]].names[query[r].name] \in Code \cup {Absent}
        BY <3>1, <4>1 DEF Snapshot
      <4> QED
        BY <4>1, <4>2 DEF AnswerIn, Answer
    <3> QED
      BY <2>1, <3>2, <3>3 DEF Query
  <2> QED
    BY <1>15, <2>2 DEF LookupRead, wvars, TypeOK, MutexHeldInside, Control, Critical, Loaded, Filling, PC, Published
<1>16. CASE UNCHANGED vars
  BY <1>16 DEF vars, wvars, rvars, TypeOK, MutexHeldInside, Control, Published
<1> QED
  BY <1>1, <1>2, <1>3, <1>4, <1>5, <1>6, <1>7, <1>8, <1>9, <1>10, <1>11,
     <1>12, <1>13, <1>14, <1>15, <1>16 DEF Next, Proceed

\* Every state is well typed.
THEOREM TypeCorrect == Spec => []TypeOK
<1>1. CInv => TypeOK
  BY DEF CInv
<1> QED
  BY <1>1, InitCInv, NextCInv, PTL DEF Spec

\* The owner of the mutex is the one writer inside the critical section: the
\* lock is never leaked by a panic and never shared.
THEOREM MutexCorrect == Spec => []MutexHeldInside
<1>1. CInv => MutexHeldInside
  BY DEF CInv
<1> QED
  BY <1>1, InitCInv, NextCInv, PTL DEF Spec

----------------------------------------------------------------------------
(* No snapshot that a lookup can reach is ever written to.                 *)

\* A step leaves every published snapshot alone, and moves the pointer at
\* most to the clone of the writer that stores.
LEMMA StepFrozen ==
    ASSUME CInv, [Next]_vars
    PROVE  /\ \A p \in Published : heap'[p] = heap[p]
           /\ \/ registryPtr' = registryPtr
              \/ \E w \in Writers : Store(w)
<1> USE DEF CInv
<1>1. ASSUME NEW w \in Writers, Clone(w)
      PROVE  (\A p \in Published : heap'[p] = heap[p]) /\ registryPtr' = registryPtr
  BY <1>1 DEF Clone, TypeOK, Published
<1>2. ASSUME NEW w \in Writers, SetCode(w) \/ SetName(w)
      PROVE  (\A p \in Published : heap'[p] = heap[p]) /\ registryPtr' = registryPtr
  <2>1. next[w] = registryPtr + 1 /\ registryPtr \in Nat
    BY <1>2 DEF SetCode, SetName, Control, Filling, TypeOK
  <2>2. \A p \in Published : p \in DOMAIN heap /\ p # next[w]
    BY <2>1 DEF Published, TypeOK
  <2> QED
    BY <1>2, <2>2 DEF SetCode, SetName
<1>3. CASE UNCHANGED heap
  <2>1. UNCHANGED registryPtr \/ \E w \in Writers : Store(w)
    BY DEF Next, Proceed, vars, Register, Validate, Lock, Load, CheckCode, CheckName,
           Options, Clone, SetCode, SetName, Unlock, Return, LookupLoad, LookupRead
  <2> QED
    BY <1>3, <2>1
<1>4. \/ UNCHANGED heap
      \/ \E w \in Writers : Clone(w) \/ SetCode(w) \/ SetName(w)
  BY DEF Next, Proceed, vars, Register, Validate, Lock, Load, CheckCode, CheckName,
         Options, Store, Unlock, Return, LookupLoad, LookupRead
<1> QED
  BY <1>1, <1>2, <1>3, <1>4

\* A snapshot that has been stored is never mutated again.
THEOREM FrozenCorrect == Spec => SnapshotsFrozen
<1>1. CInv /\ [Next]_vars => [\A p \in Published : heap'[p] = heap[p]]_vars
  BY StepFrozen
<1> QED
  BY <1>1, InitCInv, NextCInv, PTL DEF Spec, SnapshotsFrozen

----------------------------------------------------------------------------
(* The entry a call builds is the one its options describe.                *)

LEMMA EntryAfterZero ==
    ASSUME NEW k \in RegisterCall
    PROVE  Table!EntryAfter(k, 0) = BareInfo(k)
<1>1. Table!LastDelay(k, 0) = 0
  BY DEF Table!LastDelay, Table!RetryAfters
<1>2. (0 > 0) = FALSE
  OBVIOUS
<1> QED
  BY <1>1, <1>2, Zenon DEF Table!EntryAfter, BareInfo

\* The entry after one option more is that option applied to the entry.
LEMMA EntryAfterStep ==
    ASSUME NEW k \in RegisterCall, NEW n \in Nat, n + 1 <= Len(k.opts)
    PROVE  Table!EntryAfter(k, n + 1) = ApplyOption(k.opts[n + 1], Table!EntryAfter(k, n))
<1> DEFINE o == k.opts[n + 1]
           A(m) == Table!RetryAfters(k, m)
           e == Table!EntryAfter(k, n)
           Updated(d) == [name |-> k.name, httpStatus |-> k.httpStatus,
                          grpcCode |-> k.grpcCode, retryable |-> TRUE, retryDelay |-> d]
<1>1. (n + 1 > 0) = TRUE
  OBVIOUS
<1>2. Table!EntryAfter(k, n + 1) = Updated(Table!LastDelay(k, n + 1))
  BY <1>1, Zenon DEF Table!EntryAfter
<1>3. CASE o.kind = "RetryAfter"
  <2>1. n + 1 \in A(n + 1) /\ \A j \in A(n + 1) : j <= n + 1
    BY <1>3 DEF Table!RetryAfters
  <2>2. \A i \in A(n + 1) : (\A j \in A(n + 1) : j <= i) => i = n + 1
    BY <2>1 DEF Table!RetryAfters
  <2>3. (CHOOSE i \in A(n + 1) : \A j \in A(n + 1) : j <= i) = n + 1
    BY <2>1, <2>2
  <2>4. Table!LastDelay(k, n + 1) = o.d
    BY <2>1, <2>3 DEF Table!LastDelay
  <2> QED
    BY <1>2, <1>3, <2>4 DEF ApplyOption, Table!EntryAfter
<1>4. CASE o.kind # "RetryAfter"
  <2>1. A(n + 1) = A(n)
    BY <1>4 DEF Table!RetryAfters
  <2>2. Table!LastDelay(k, n + 1) = Table!LastDelay(k, n)
    <3> DEFINE D(S) == IF S = {} THEN 0
                       ELSE k.opts[CHOOSE i \in S : \A j \in S : j <= i].d
    <3>1. Table!LastDelay(k, n + 1) = D(A(n + 1)) /\ Table!LastDelay(k, n) = D(A(n))
      BY DEF Table!LastDelay
    <3> HIDE DEF D, A
    <3> QED
      BY <2>1, <3>1
  <2> QED
    BY <1>2, <1>4, <2>2 DEF ApplyOption, Table!EntryAfter
<1> QED
  BY <1>3, <1>4

\* Whatever the options, the entry bears the name it is registered under.
LEMMA EntryAfterNames ==
    ASSUME NEW k, NEW n
    PROVE  Table!EntryAfter(k, n).name = k.name
BY DEF Table!EntryAfter

\* What a writer's own locals say: the verdict is known exactly on the way
\* out, the arguments were good if it got to the lock, and the entry under
\* construction is the bare one with the options applied so far, none of
\* which was refused.
Unapplied == {"idle", "validate", "lock", "load", "checkCode", "checkName"}
Building == {"options", "clone"} \cup Filling

Local(w) ==
    /\ out[w] # "none" <=> pc[w] \in {"unlock", "return"}
    /\ pc[w] = "idle" => call[w] = Absent
    /\ pc[w] \in {"lock"} \cup Critical => ArgVerdict(call[w]) = "ok"
    /\ pc[w] \in Unapplied => applied[w] = 0
    /\ pc[w] \in Building =>
          /\ applied[w] <= Len(call[w].opts)
          /\ info[w] = Table!EntryAfter(call[w], applied[w])
          /\ \A i \in 1..applied[w] : ~BadOption(call[w].opts[i])
    /\ pc[w] \in Building \ {"options"} => applied[w] = Len(call[w].opts)

LInv == CInv /\ \A w \in Writers : Local(w)

LEMMA InitLInv == Init => LInv
<1> SUFFICES ASSUME Init PROVE LInv
  OBVIOUS
<1> QED
  BY InitCInv DEF Init, LInv, Local, Unapplied, Building, Filling, Critical

\* Nobody but writer v changes v's locals.
LEMMA LocalFrame ==
    ASSUME CInv, NEW v \in Writers, Local(v),
           pc'[v] = pc[v], call'[v] = call[v], info'[v] = info[v],
           applied'[v] = applied[v], out'[v] = out[v]
    PROVE  Local(v)'
BY DEF Local

LEMMA NextLInv == LInv /\ [Next]_vars => LInv'
<1> SUFFICES ASSUME LInv, [Next]_vars PROVE LInv'
  OBVIOUS
<1> USE DEF LInv
<1>1. CInv'
  BY NextCInv
<1>2. ASSUME NEW w \in Writers, Proceed(w) \/ Lock(w) \/ \E k \in Calls : Register(w, k)
      PROVE  \A v \in Writers \ {w} :
                /\ pc'[v] = pc[v] /\ call'[v] = call[v] /\ info'[v] = info[v]
                /\ applied'[v] = applied[v] /\ out'[v] = out[v]
  BY <1>2 DEF CInv, TypeOK, Proceed, Register, Validate, Lock, Load, CheckCode, CheckName,
              Options, Clone, SetCode, SetName, Store, Unlock, Return, GoTo, Panic
<1>3. ASSUME NEW w \in Writers, Proceed(w) \/ Lock(w) \/ \E k \in Calls : Register(w, k)
      PROVE  Local(w)'
  <2>1. \A k \in Calls : k \in RegisterCall
    BY RegistryAssumption
  <2> USE DEF CInv, TypeOK, Control, Local, Building, Filling, Critical, Unapplied, GoTo
  <2>2. ASSUME NEW k \in Calls, Register(w, k) PROVE Local(w)'
    BY <2>2 DEF Register
  <2>3. CASE Validate(w)
    BY <2>3, ArgVerdictType DEF Validate, Panic, Verdict
  <2>4. CASE Lock(w)
    BY <2>4 DEF Lock
  <2>5. CASE Load(w)
    BY <2>5 DEF Load
  <2>6. CASE CheckCode(w)
    BY <2>6 DEF CheckCode, Panic
  <2>7. CASE CheckName(w)
    BY <2>1, <2>7, EntryAfterZero DEF CheckName, Panic, RegisterCall
  <2>8. CASE Options(w)
    <3> DEFINE n == applied[w] + 1
               o == call[w].opts[n]
    <3>1. call[w] \in RegisterCall /\ applied[w] \in Nat /\ pc[w] = "options"
      BY <2>1, <2>8 DEF Options
    <3>2. CASE n > Len(call[w].opts)
      <4>1. applied[w] = Len(call[w].opts)
        BY <3>1, <3>2 DEF RegisterCall
      <4>2. UNCHANGED <<call, info, applied, out>> /\ pc' = [pc EXCEPT ![w] = "clone"]
        BY <2>8, <3>1, <3>2 DEF Options, RegisterCall
      <4> QED
        BY <3>1, <4>1, <4>2
    <3>3. CASE n <= Len(call[w].opts) /\ BadOption(o)
      BY <2>8, <3>1, <3>3 DEF Options, Panic, RegisterCall
    <3>4. CASE n <= Len(call[w].opts) /\ ~BadOption(o)
      <4>1. /\ info' = [info EXCEPT ![w] = ApplyOption(o, info[w])]
            /\ applied' = [applied EXCEPT ![w] = n]
            /\ UNCHANGED <<pc, call, out>>
        BY <2>8, <3>1, <3>4 DEF Options, RegisterCall
      <4>2. info'[w] = Table!EntryAfter(call[w], n)
        BY <3>1, <3>4, <4>1, EntryAfterStep
      <4>3. \A i \in 1..n : ~BadOption(call[w].opts[i])
        BY <3>1, <3>4
      <4> QED
        BY <3>1, <3>4, <4>1, <4>2, <4>3
    <3> QED
      BY <2>8, <3>1, <3>2, <3>3, <3>4 DEF Options, RegisterCall
  <2>9. CASE Clone(w)
    BY <2>9 DEF Clone
  <2>10. CASE SetCode(w)
    BY <2>10 DEF SetCode
  <2>11. CASE SetName(w)
    BY <2>11 DEF SetName
  <2>12. CASE Store(w)
    BY <2>12 DEF Store
  <2>13. CASE Unlock(w)
    BY <2>13 DEF Unlock
  <2>14. CASE Return(w)
    BY <2>14 DEF Return
  <2> QED
    BY <1>3, <2>2, <2>3, <2>4, <2>5, <2>6, <2>7, <2>8, <2>9, <2>10, <2>11,
       <2>12, <2>13, <2>14 DEF Proceed
<1>4. CASE UNCHANGED wvars
  BY <1>1, <1>4 DEF wvars, Local
<1>5. \/ \E w \in Writers : Proceed(w) \/ Lock(w) \/ \E k \in Calls : Register(w, k)
      \/ UNCHANGED wvars
  BY DEF Next, vars, LookupLoad, LookupRead
<1> QED
  BY <1>1, <1>2, <1>3, <1>4, <1>5, LocalFrame

----------------------------------------------------------------------------
(* What the snapshots contain.                                             *)

\* The clone a writer fills in is the published snapshot plus what it has
\* written so far; the code and the name it is about to add are still free
\* there, and once stored they are bound to what it registered.
Contents(w) ==
    LET c == call[w].code
        n == call[w].name
        old == heap[registryPtr]
        new == heap[next[w]]
    IN  /\ pc[w] \in {"checkName"} \cup Building => old.codes[c] = Absent
        /\ pc[w] \in Building => old.names[n] = Absent
        /\ pc[w] = "setCode" => new.codes = old.codes /\ new.names = old.names
        /\ pc[w] = "setName" =>
              new.codes = [old.codes EXCEPT ![c] = info[w]] /\ new.names = old.names
        /\ pc[w] = "store" =>
              /\ new.codes = [old.codes EXCEPT ![c] = info[w]]
              /\ new.names = [old.names EXCEPT ![n] = c]
        /\ pc[w] \in {"unlock", "return"} /\ out[w] = "ok" =>
              info[w] \in CodeInfo /\ old.codes[c] = info[w] /\ old.names[n] = c

SInv == LInv /\ SnapshotsConsistent /\ \A w \in Writers : Contents(w)

LEMMA InitSInv == Init => SInv
<1> SUFFICES ASSUME Init PROVE SInv
  OBVIOUS
<1> USE CodesAssumption, BuiltinsAssumption
<1>1. LInv
  BY InitLInv
<1>2. \A w \in Writers : Contents(w)
  BY DEF Init, Contents, Building, Filling
<1>3. SnapshotsConsistent
  <2> DEFINE s == heap[1]
  <2>1. Published = {1}
    BY DEF Init, InitialPtr, Published
  <2>2. s.codes = Builtins /\ s.names = [n \in Name |->
            IF \E c \in Code : Builtins[c] # Absent /\ Builtins[c].name = n
            THEN CHOOSE c \in Code : Builtins[c] # Absent /\ Builtins[c].name = n
            ELSE Absent]
    BY DEF Init, InitialNames
  <2>3. ASSUME NEW n \in Name
        PROVE  /\ s.names[n] # Absent =>
                     s.names[n] \in Code /\ Builtins[s.names[n]] # Absent
                     /\ Builtins[s.names[n]].name = n
               /\ (\E c \in Code : Builtins[c] # Absent /\ Builtins[c].name = n)
                    => s.names[n] # Absent
    BY <2>2
  <2>4. ASSUME NEW c \in Code, Builtins[c] # Absent
        PROVE  s.names[Builtins[c].name] = c
    <3>1. Builtins[c].name \in Name
      BY <2>4 DEF CodeMap, CodeInfo
    <3> QED
      BY <2>3, <2>4, <3>1
  <2>5. Inverse(s)
    BY <2>2, <2>3, <2>4 DEF Inverse
  <2> QED
    BY <2>1, <2>5 DEF SnapshotsConsistent
<1> QED
  BY <1>1, <1>2, <1>3 DEF SInv

\* Adding a free code under a free name keeps codes and names inverse.
LEMMA InverseExtends ==
    ASSUME NEW s \in Snapshot, NEW t \in Snapshot, Inverse(s),
           NEW c \in Code, NEW n \in Name, NEW i \in CodeInfo, i.name = n,
           s.codes[c] = Absent, s.names[n] = Absent,
           t.codes = [s.codes EXCEPT ![c] = i], t.names = [s.names EXCEPT ![n] = c]
    PROVE  Inverse(t)
<1> USE CodesAssumption
<1>1. \A d \in Code : t.codes[d] = IF d = c THEN i ELSE s.codes[d]
  BY DEF Snapshot, CodeMap
<1>2. \A m \in Name : t.names[m] = IF m = n THEN c ELSE s.names[m]
  BY DEF Snapshot
<1>3. \A d \in Code : s.codes[d] # Absent => s.codes[d].name \in Name
  BY DEF Snapshot, CodeMap, CodeInfo
<1>4. \A m \in Name : s.names[m] # Absent => s.names[m] \in Code
  BY DEF Snapshot
<1>5. ASSUME NEW d \in Code, t.codes[d] # Absent
      PROVE  t.names[t.codes[d].name] = d
  <2>1. CASE d = c
    BY <1>1, <1>2, <2>1
  <2>2. CASE d # c
    BY <1>1, <1>2, <1>3, <1>5, <2>2 DEF Inverse
  <2> QED
    BY <2>1, <2>2
<1>6. ASSUME NEW m \in Name, t.names[m] # Absent
      PROVE  t.codes[t.names[m]] # Absent /\ t.codes[t.names[m]].name = m
  <2>1. CASE m = n
    BY <1>1, <1>2, <2>1
  <2>2. CASE m # n
    BY <1>1, <1>2, <1>4, <1>6, <2>2 DEF Inverse
  <2> QED
    BY <2>1, <2>2
<1> QED
  BY <1>5, <1>6 DEF Inverse

\* What a Store publishes.
LEMMA StoreStep ==
    ASSUME SInv, NEW w \in Writers, Store(w)
    PROVE  LET old == heap[registryPtr]
               new == heap[registryPtr']
           IN  /\ registryPtr' = registryPtr + 1 /\ registryPtr' \in 1..Len(heap)
               /\ heap' = heap
               /\ old \in Snapshot /\ new \in Snapshot
               /\ call[w] \in RegisterCall /\ info[w] \in CodeInfo
               /\ info[w].name = call[w].name
               /\ old.codes[call[w].code] = Absent
               /\ old.names[call[w].name] = Absent
               /\ new.codes = [old.codes EXCEPT ![call[w].code] = info[w]]
               /\ new.names = [old.names EXCEPT ![call[w].name] = call[w].code]
<1> USE DEF SInv, LInv, CInv, Store
<1>1. call[w] \in RegisterCall /\ info[w] \in CodeInfo
  BY RegistryAssumption DEF Control, Filling
<1>2. info[w].name = call[w].name
  BY EntryAfterNames DEF Local, Building, Filling
<1>3. next[w] = registryPtr + 1 /\ next[w] \in 1..Len(heap)
  BY DEF Control, Filling, TypeOK
<1>4. heap[registryPtr] \in Snapshot /\ heap[next[w]] \in Snapshot
  BY <1>3 DEF TypeOK
<1> QED
  BY <1>1, <1>2, <1>3, <1>4 DEF Contents, Building, Filling

\* No step changes what the published snapshot says of a registered code or
\* of a bound name.
LEMMA StepPermanent ==
    ASSUME SInv, [Next]_vars
    PROVE  /\ \A c \in Code : heap[registryPtr].codes[c] # Absent =>
                 heap'[registryPtr'].codes[c] = heap[registryPtr].codes[c]
           /\ \A n \in Name : heap[registryPtr].names[n] # Absent =>
                 heap'[registryPtr'].names[n] = heap[registryPtr].names[n]
<1>1. CASE registryPtr' = registryPtr
  BY <1>1, StepFrozen DEF SInv, LInv, CInv, TypeOK, Published
<1>2. ASSUME NEW w \in Writers, Store(w)
      PROVE  /\ \A c \in Code : heap[registryPtr].codes[c] # Absent =>
                   heap'[registryPtr'].codes[c] = heap[registryPtr].codes[c]
             /\ \A n \in Name : heap[registryPtr].names[n] # Absent =>
                   heap'[registryPtr'].names[n] = heap[registryPtr].names[n]
  <2> DEFINE old == heap[registryPtr]
             new == heap'[registryPtr']
  <2>1. /\ old \in Snapshot
        /\ old.codes[call[w].code] = Absent
        /\ old.names[call[w].name] = Absent
        /\ new.codes = [old.codes EXCEPT ![call[w].code] = info[w]]
        /\ new.names = [old.names EXCEPT ![call[w].name] = call[w].code]
    BY <1>2, StoreStep
  <2> HIDE DEF old, new
  <2>2. \A c \in Code : old.codes[c] # Absent => new.codes[c] = old.codes[c]
    BY <2>1 DEF Snapshot, CodeMap
  <2>3. \A n \in Name : old.names[n] # Absent => new.names[n] = old.names[n]
    BY <2>1 DEF Snapshot
  <2> QED
    BY <2>2, <2>3 DEF old, new
<1> QED
  BY <1>1, <1>2, StepFrozen DEF SInv, LInv

\* Every published snapshot stays consistent, the new one included.
LEMMA NextConsistent ==
    ASSUME SInv, [Next]_vars
    PROVE  SnapshotsConsistent'
<1> USE DEF SInv, LInv, CInv
<1>1. \A p \in Published : Inverse(heap[p])'
  BY StepFrozen DEF SnapshotsConsistent, Inverse
<1>2. CASE registryPtr' = registryPtr
  BY <1>1, <1>2 DEF SnapshotsConsistent, Published
<1>3. ASSUME NEW w \in Writers, Store(w) PROVE SnapshotsConsistent'
  <2>1. Inverse(heap[registryPtr])
    BY DEF SnapshotsConsistent, Published, TypeOK
  <2>2. call[w].code \in Code /\ call[w].name \in Name
    BY <1>3, StoreStep DEF RegisterCall
  <2>3. Inverse(heap[registryPtr'])
    <3> DEFINE old == heap[registryPtr]
               new == heap[registryPtr']
    <3>1. /\ old \in Snapshot /\ new \in Snapshot /\ info[w] \in CodeInfo
          /\ info[w].name = call[w].name
          /\ old.codes[call[w].code] = Absent
          /\ old.names[call[w].name] = Absent
          /\ new.codes = [old.codes EXCEPT ![call[w].code] = info[w]]
          /\ new.names = [old.names EXCEPT ![call[w].name] = call[w].code]
      BY <1>3, StoreStep
    <3> DEFINE c == call[w].code
               n == call[w].name
               i == info[w]
    <3>2. /\ c \in Code /\ n \in Name /\ i \in CodeInfo /\ i.name = n /\ Inverse(old)
          /\ old \in Snapshot /\ new \in Snapshot
          /\ old.codes[c] = Absent /\ old.names[n] = Absent
          /\ new.codes = [old.codes EXCEPT ![c] = i]
          /\ new.names = [old.names EXCEPT ![n] = c]
      BY <2>1, <2>2, <3>1
    <3> HIDE DEF old, new, c, n, i
    <3>3. Inverse(new)
      BY <3>2, InverseExtends
    <3> QED
      BY <3>3 DEF new
  <2>4. \A p \in 1..registryPtr' : p \in Published \/ p = registryPtr'
    <3>1. registryPtr' = registryPtr + 1 /\ registryPtr \in Nat
      <4>1. registryPtr' = registryPtr + 1
        BY <1>3, StoreStep
      <4> QED
        BY <4>1 DEF TypeOK
    <3> QED
      BY <3>1 DEF Published
  <2> QED
    BY <1>1, <1>3, <2>3, <2>4, StoreStep DEF SnapshotsConsistent, Published
<1> QED
  BY <1>2, <1>3, StepFrozen

\* The contents of a writer w that does not move survive a step of another
\* one: if w is inside the critical section nobody else can publish or fill
\* in a clone, and if it is on its way out what it registered is permanent.
LEMMA ContentsFrame ==
    ASSUME SInv, [Next]_vars, NEW v \in Writers,
           pc'[v] = pc[v], call'[v] = call[v], info'[v] = info[v], out'[v] = out[v],
           next'[v] = next[v],
           pc[v] \in Critical => heap' = heap /\ registryPtr' = registryPtr
    PROVE  Contents(v)'
<1> USE DEF SInv, LInv, CInv
<1>1. CASE pc[v] \in Critical
  BY <1>1 DEF Contents
<1>2. CASE pc[v] = "return" /\ out[v] = "ok"
  <2>1. call[v] \in RegisterCall
    BY <1>2, RegistryAssumption DEF Control
  <2>2. heap[registryPtr].codes[call[v].code] = info[v]
        /\ heap[registryPtr].names[call[v].name] = call[v].code
        /\ info[v] \in CodeInfo
    BY <1>2 DEF Contents
  <2>3. call[v].code \in Code /\ call[v].name \in Name
    BY <2>1 DEF RegisterCall
  <2>4. heap[registryPtr].codes[call[v].code] # Absent
        /\ heap[registryPtr].names[call[v].name] # Absent
    BY <2>2, <2>3, CodesAssumption
  <2>5. heap'[registryPtr'].codes[call[v].code] = info[v]
        /\ heap'[registryPtr'].names[call[v].name] = call[v].code
    BY <2>2, <2>3, <2>4, StepPermanent
  <2> QED
    BY <1>2, <2>2, <2>5 DEF Contents, Building, Filling
<1>3. CASE pc[v] \notin Critical /\ ~(pc[v] = "return" /\ out[v] = "ok")
  BY <1>3 DEF Contents, Critical, Building, Filling
<1> QED
  BY <1>1, <1>2, <1>3

LEMMA NextSInv == SInv /\ [Next]_vars => SInv'
<1> SUFFICES ASSUME SInv, [Next]_vars PROVE SInv'
  OBVIOUS
<1> USE DEF SInv, LInv, CInv
<1>1. LInv' /\ SnapshotsConsistent'
  BY NextLInv, NextConsistent
<1> DEFINE Move(w) == Proceed(w) \/ Lock(w) \/ \E k \in Calls : Register(w, k)
<1>2. ASSUME NEW w \in Writers, Move(w), NEW v \in Writers \ {w}
      PROVE  Contents(v)'
  <2>1. /\ pc'[v] = pc[v] /\ call'[v] = call[v] /\ info'[v] = info[v]
        /\ out'[v] = out[v] /\ next'[v] = next[v]
    BY <1>2 DEF TypeOK, Proceed, Register, Validate, Lock, Load, CheckCode, CheckName,
                Options, Clone, SetCode, SetName, Store, Unlock, Return, GoTo, Panic
  <2>2. ASSUME pc[v] \in Critical PROVE heap' = heap /\ registryPtr' = registryPtr
    <3>1. pc[w] \notin Critical
      BY <1>2, <2>2 DEF MutexHeldInside
    <3> QED
      BY <1>2, <3>1 DEF Critical, Proceed, Register, Validate, Lock, Load, CheckCode, CheckName,
                Options, Clone, SetCode, SetName, Store, Unlock, Return
  <2> QED
    BY <2>1, <2>2, ContentsFrame
<1>3. ASSUME NEW w \in Writers, Move(w) PROVE Contents(w)'
  <2> USE DEF Contents, Building, Filling, GoTo, Panic
  <2>1. ASSUME NEW k \in Calls, Register(w, k) PROVE Contents(w)'
    BY <2>1 DEF Register, TypeOK
  <2>2. CASE Validate(w)
    BY <2>2 DEF Validate, TypeOK, Critical, ArgVerdict
  <2>3. CASE Lock(w)
    BY <2>3 DEF Lock, TypeOK
  <2>4. CASE Load(w)
    BY <2>4 DEF Load, TypeOK
  <2>5. CASE CheckCode(w)
    BY <2>5 DEF CheckCode, TypeOK, Critical, Control, Loaded
  <2>6. CASE CheckName(w)
    BY <2>6 DEF CheckName, TypeOK, Critical, Control, Loaded
  <2>7. CASE Options(w)
    BY <2>7 DEF Options, TypeOK, Critical
  <2>8. CASE Clone(w)
    <3>1. /\ reg[w] = registryPtr /\ registryPtr \in 1..Len(heap)
          /\ heap[registryPtr].codes[call[w].code] = Absent
          /\ heap[registryPtr].names[call[w].name] = Absent
      BY <2>8 DEF Clone, TypeOK, Control, Loaded
    <3>2. /\ next'[w] = Len(heap) + 1 /\ heap'[Len(heap) + 1] = heap[registryPtr]
          /\ heap'[registryPtr] = heap[registryPtr] /\ pc'[w] = "setCode"
          /\ UNCHANGED <<registryPtr, call, info, out>>
      BY <2>8, <3>1 DEF Clone, TypeOK
    <3> QED
      BY <3>1, <3>2
  <2>9. CASE SetCode(w)
    <3>1. /\ next[w] = registryPtr + 1 /\ next[w] \in 1..Len(heap)
          /\ registryPtr \in 1..Len(heap) /\ registryPtr # next[w]
      BY <2>9 DEF SetCode, TypeOK, Control
    <3>2. /\ heap'[registryPtr] = heap[registryPtr] /\ pc'[w] = "setName"
          /\ heap'[next[w]] = [heap[next[w]] EXCEPT !.codes[call[w].code] = info[w]]
          /\ UNCHANGED <<registryPtr, call, info, out, next>>
      <4> DEFINE t == [heap[next[w]] EXCEPT !.codes[call[w].code] = info[w]]
      <4>1. heap' = [heap EXCEPT ![next[w]] = t]
        BY <2>9 DEF SetCode
      <4> HIDE DEF t
      <4>2. heap'[registryPtr] = heap[registryPtr] /\ heap'[next[w]] = t
        BY <3>1, <4>1 DEF TypeOK
      <4> QED
        BY <2>9, <4>2 DEF SetCode, TypeOK, t
    <3>3. heap[next[w]] \in Snapshot
      BY <3>1 DEF TypeOK
    <3>4. /\ heap'[next[w]].codes = [heap[next[w]].codes EXCEPT ![call[w].code] = info[w]]
          /\ heap'[next[w]].names = heap[next[w]].names
      BY <3>2, <3>3 DEF Snapshot
    <3> QED
      <4>1. pc[w] = "setCode"
        BY <2>9 DEF SetCode
      <4>2. /\ heap[registryPtr].codes[call[w].code] = Absent
            /\ heap[registryPtr].names[call[w].name] = Absent
            /\ heap[next[w]].codes = heap[registryPtr].codes
            /\ heap[next[w]].names = heap[registryPtr].names
        BY <4>1
      <4> QED
        BY <3>2, <3>4, <4>2
  <2>10. CASE SetName(w)
    <3>1. /\ next[w] = registryPtr + 1 /\ next[w] \in 1..Len(heap)
          /\ registryPtr \in 1..Len(heap) /\ registryPtr # next[w]
      BY <2>10 DEF SetName, TypeOK, Control
    <3>2. /\ heap'[registryPtr] = heap[registryPtr] /\ pc'[w] = "store"
          /\ heap'[next[w]] = [heap[next[w]] EXCEPT !.names[call[w].name] = call[w].code]
          /\ UNCHANGED <<registryPtr, call, info, out, next>>
      <4> DEFINE t == [heap[next[w]] EXCEPT !.names[call[w].name] = call[w].code]
      <4>1. heap' = [heap EXCEPT ![next[w]] = t]
        BY <2>10 DEF SetName
      <4> HIDE DEF t
      <4>2. heap'[registryPtr] = heap[registryPtr] /\ heap'[next[w]] = t
        BY <3>1, <4>1 DEF TypeOK
      <4> QED
        BY <2>10, <4>2 DEF SetName, TypeOK, t
    <3>3. heap[next[w]] \in Snapshot
      BY <3>1 DEF TypeOK
    <3>4. /\ heap'[next[w]].codes = heap[next[w]].codes
          /\ heap'[next[w]].names = [heap[next[w]].names EXCEPT ![call[w].name] = call[w].code]
      BY <3>2, <3>3 DEF Snapshot
    <3> QED
      <4>1. pc[w] = "setName"
        BY <2>10 DEF SetName
      <4>2. /\ heap[registryPtr].codes[call[w].code] = Absent
            /\ heap[registryPtr].names[call[w].name] = Absent
            /\ heap[next[w]].codes = [heap[registryPtr].codes EXCEPT ![call[w].code] = info[w]]
            /\ heap[next[w]].names = heap[registryPtr].names
        BY <4>1
      <4> QED
        BY <3>2, <3>4, <4>2
  <2>11. CASE Store(w)
    <3> DEFINE old == heap[registryPtr]
               new == heap'[registryPtr']
    <3>1. /\ old \in Snapshot /\ call[w] \in RegisterCall /\ info[w] \in CodeInfo
          /\ new.codes = [old.codes EXCEPT ![call[w].code] = info[w]]
          /\ new.names = [old.names EXCEPT ![call[w].name] = call[w].code]
      BY <2>11, StoreStep
    <3>2. /\ pc'[w] = "unlock" /\ UNCHANGED <<call, info>>
      BY <2>11 DEF Store, TypeOK
    <3> HIDE DEF old, new
    <3>3. new.codes[call[w].code] = info[w] /\ new.names[call[w].name] = call[w].code
      BY <3>1 DEF Snapshot, CodeMap, RegisterCall
    <3> QED
      BY <3>1, <3>2, <3>3 DEF new
  <2>12. CASE Unlock(w)
    BY <2>12 DEF Unlock, TypeOK
  <2>13. CASE Return(w)
    BY <2>13 DEF Return, TypeOK
  <2> QED
    BY <1>3, <2>1, <2>2, <2>3, <2>4, <2>5, <2>6, <2>7, <2>8, <2>9, <2>10, <2>11,
       <2>12, <2>13 DEF Proceed
<1>4. CASE UNCHANGED <<heap, registryPtr, wvars>>
  <2>1. UNCHANGED heap /\ UNCHANGED registryPtr /\ UNCHANGED pc /\ UNCHANGED call
        /\ UNCHANGED info /\ UNCHANGED out /\ UNCHANGED next
    BY <1>4 DEF wvars
  <2> QED
    BY <1>1, <2>1 DEF Contents
<1>5. \/ \E w \in Writers : Move(w)
      \/ UNCHANGED <<heap, registryPtr, wvars>>
  BY DEF Next, vars, LookupLoad, LookupRead
<1> QED
  BY <1>1, <1>2, <1>3, <1>4, <1>5

\* Codes and names are inverse to each other in every snapshot a lookup can
\* be reading.
THEOREM ConsistentCorrect == Spec => []SnapshotsConsistent
<1>1. SInv => SnapshotsConsistent
  BY DEF SInv
<1> QED
  BY <1>1, InitSInv, NextSInv, PTL DEF Spec

\* A registered code and a bound name keep their meaning for ever.
THEOREM PermanentCorrect == Spec => EntriesPermanent
<1>1. SInv /\ [Next]_vars =>
        [/\ \A c \in Code : heap[registryPtr].codes[c] # Absent =>
               heap'[registryPtr'].codes[c] = heap[registryPtr].codes[c]
         /\ \A n \in Name : heap[registryPtr].names[n] # Absent =>
               heap'[registryPtr'].names[n] = heap[registryPtr].names[n]]_vars
  BY StepPermanent
<1> QED
  BY <1>1, InitSInv, NextSInv, PTL DEF Spec, EntriesPermanent

\* A Register call that ends well is in the table, whoever registered since.
THEOREM SuccessCorrect == Spec => []SuccessIsVisible
<1>1. SInv => SuccessIsVisible
  BY DEF SInv, SuccessIsVisible, Contents
<1> QED
  BY <1>1, InitSInv, NextSInv, PTL DEF Spec

----------------------------------------------------------------------------
(* What an entry can say.                                                  *)

\* Arguments that pass are in their ranges.
LEMMA GoodArguments ==
    ASSUME NEW k \in RegisterCall, ArgVerdict(k) = "ok"
    PROVE  /\ k.code >= CustomCodeMin /\ k.name \in ValidName
           /\ k.httpStatus \in 400..599 /\ k.grpcCode \in 1..16
<1>1. ~BadCode(k) /\ ~BadName(k) /\ ~BadHTTP(k) /\ ~BadGRPC(k)
  BY Zenon DEF ArgVerdict
<1>2. k.code \in Nat /\ k.httpStatus \in Int /\ k.grpcCode \in Nat
  BY CodesAssumption DEF RegisterCall
<1> QED
  BY <1>1, <1>2 DEF BadCode, BadName, BadHTTP, BadGRPC, CustomCodeMin

\* Only a retryable entry has a delay.
LEMMA DelayMeansRetryable ==
    ASSUME NEW k \in RegisterCall, NEW n \in Nat, Table!EntryAfter(k, n).retryDelay > 0
    PROVE  Table!EntryAfter(k, n).retryable
<1>1. n = 0 => Table!LastDelay(k, n) = 0
  BY DEF Table!LastDelay, Table!RetryAfters
<1>2. Table!EntryAfter(k, n).retryDelay = Table!LastDelay(k, n)
      /\ (Table!EntryAfter(k, n).retryable <=> n > 0)
  BY DEF Table!EntryAfter
<1>3. n # 0
  BY <1>1, <1>2
<1> QED
  BY <1>2, <1>3

LEMMA NextSound == SInv /\ EntriesSound /\ [Next]_vars => EntriesSound'
<1> SUFFICES ASSUME SInv, EntriesSound, [Next]_vars PROVE EntriesSound'
  OBVIOUS
<1> USE DEF SInv, LInv, CInv
<1>1. CASE registryPtr' = registryPtr
  <2>1. heap'[registryPtr'] = heap[registryPtr]
    BY <1>1, StepFrozen DEF TypeOK, Published
  <2> QED
    BY <2>1 DEF EntriesSound
<1>2. ASSUME NEW w \in Writers, Store(w) PROVE EntriesSound'
  <2> DEFINE old == heap[registryPtr].codes
             new == heap'[registryPtr'].codes
             k == call[w]
             i == info[w]
  <2>1. /\ heap[registryPtr] \in Snapshot /\ k \in RegisterCall
        /\ new = [old EXCEPT ![k.code] = i]
    BY <1>2, StoreStep
  <2>2. ArgVerdict(k) = "ok" /\ applied[w] \in Nat /\ i = Table!EntryAfter(k, applied[w])
    BY <1>2 DEF Store, Local, Building, Filling, Critical, TypeOK
  <2>3. /\ i.name = k.name /\ i.httpStatus = k.httpStatus /\ i.grpcCode = k.grpcCode
    BY <2>2 DEF Table!EntryAfter
  <2>4. /\ k.code >= CustomCodeMin /\ i.httpStatus \in 400..599
        /\ i.grpcCode \in 1..16 /\ i.name \in ValidName
        /\ i.retryDelay > 0 => i.retryable
    BY <2>1, <2>2, <2>3, GoodArguments, DelayMeansRetryable
  <2>5. old \in CodeMap
    BY <2>1 DEF Snapshot
  <2> HIDE DEF old, new, k, i
  <2>6. \A c \in Code : new[c] = IF c = k.code THEN i ELSE old[c]
    BY <2>1, <2>5 DEF CodeMap
  <2> QED
    BY <2>4, <2>6 DEF EntriesSound, old, new
<1> QED
  BY <1>1, <1>2, StepFrozen

\* A custom code a lookup can find never maps to a success status or to the
\* gRPC code OK, and its name is legal on the wire.
THEOREM SoundCorrect == Spec => []EntriesSound
<1>1. Init => EntriesSound
  BY DEF Init, InitialPtr, EntriesSound
<1> QED
  BY <1>1, InitSInv, NextSInv, NextSound, PTL DEF Spec

----------------------------------------------------------------------------
(* The registry implements the table.                                      *)

\* How a writer's step shows in the table's history of calls.
LEMMA OpStep ==
    ASSUME NEW w \in Writers,
           \A v \in Writers \ {w} : pc'[v] = pc[v] /\ call'[v] = call[v] /\ out'[v] = out[v]
    PROVE  OpOf' = [OpOf EXCEPT ![w] =
              [state |-> IF pc'[w] = "idle" THEN "idle"
                         ELSE IF out'[w] = "none" THEN "pending" ELSE "done",
               call |-> call'[w], out |-> out'[w]]]
BY DEF OpOf

\* A lookup already linearized keeps its answer while others move: its
\* snapshot is published, so nobody writes to it.
LEMMA AnswerFrame ==
    ASSUME CInv, [Next]_vars, UNCHANGED rvars
    PROVE  AnswerOf' = AnswerOf
<1>1. \A r \in Readers : rpc[r] = "read" => heap'[rreg[r]] = heap[rreg[r]]
  BY StepFrozen DEF CInv, Control
<1>2. UNCHANGED rpc /\ UNCHANGED query /\ UNCHANGED rreg /\ UNCHANGED result
  BY DEF rvars
<1> QED
  BY <1>1, <1>2 DEF AnswerOf

\* The reverse index answers CodeByName as a search of the table would.
LEMMA AnswerAgrees ==
    ASSUME SInv, NEW q \in Query
    PROVE  AnswerIn(heap[registryPtr], q) = Table!TableAnswer(TableOf, q)
<1> DEFINE s == heap[registryPtr]
<1>1. s \in Snapshot /\ Inverse(s)
  BY DEF SInv, LInv, CInv, TypeOK, SnapshotsConsistent, Published
<1>2. CASE q.name = Absent
  BY <1>2 DEF AnswerIn, Table!TableAnswer, TableOf
<1>3. CASE q.name # Absent
  <2>1. q.name \in Name
    BY <1>3 DEF Query
  <2> DEFINE n == q.name
             Bears(c) == s.codes[c] # Absent /\ s.codes[c].name = n
  <2>2. \A c \in Code : Bears(c) => s.names[n] = c
    BY <1>1 DEF Inverse
  <2>3. s.names[n] # Absent => s.names[n] \in Code /\ Bears(s.names[n])
    BY <1>1, <2>1 DEF Inverse, Snapshot
  <2>4. s.names[n] = IF \E c \in Code : Bears(c) THEN CHOOSE c \in Code : Bears(c) ELSE Absent
    <3> HIDE DEF s, Bears
    <3> QED
      BY <2>2, <2>3, CodesAssumption
  <2> QED
    BY <1>3, <2>4 DEF AnswerIn, Table!TableAnswer, Table!Taken, TableOf
<1> QED
  BY <1>2, <1>3

LEMMA InitRefines == Init => Table!Init
<1> SUFFICES ASSUME Init PROVE Table!Init
  OBVIOUS
<1>1. TableOf = Builtins
  BY DEF Init, InitialPtr, TableOf
<1>2. OpOf = [w \in Writers |-> Table!Idle]
  BY DEF Init, OpOf, Table!Idle
<1>3. AnswerOf = [r \in Readers |-> Table!NoAnswer]
  BY DEF Init, AnswerOf, NoAnswer, Table!NoAnswer
<1> QED
  BY <1>1, <1>2, <1>3 DEF Table!Init

\* The reverse index tells whether a name is taken.
LEMMA NamesTell ==
    ASSUME SInv, NEW n \in Name
    PROVE  heap[registryPtr].names[n] # Absent <=> Table!Taken(TableOf, n)
<1>1. heap[registryPtr] \in Snapshot /\ Inverse(heap[registryPtr])
  BY DEF SInv, LInv, CInv, TypeOK, SnapshotsConsistent, Published
<1> QED
  BY <1>1, CodesAssumption DEF Inverse, Snapshot, Table!Taken, TableOf

LEMMA VerdictAgrees == \A k : Table!ArgVerdict(k) = ArgVerdict(k)
BY DEF Table!ArgVerdict, ArgVerdict, Table!BadCode, BadCode, Table!BadName, BadName,
       Table!BadHTTP, BadHTTP, Table!BadGRPC, BadGRPC, Table!CustomCodeMin, CustomCodeMin

\* A step of writer w that gives its call the verdict v, without publishing.
LEMMA RefusalStep ==
    ASSUME SInv, [Next]_vars, NEW w \in Writers, NEW v \in Verdict, v # "ok",
           pc[w] # "idle", out[w] = "none", v = Table!Outcome(call[w], TableOf),
           NEW l \in PC, l # "idle", pc' = [pc EXCEPT ![w] = l],
           out' = [out EXCEPT ![w] = v], UNCHANGED <<heap, registryPtr, call, rvars>>
    PROVE  Table!TakeEffect(w)
<1> USE DEF SInv, LInv, CInv
<1>1. OpOf[w] = [state |-> "pending", call |-> call[w], out |-> "none"]
  BY DEF OpOf
<1>2. OpOf' = [OpOf EXCEPT ![w] = [state |-> "done", call |-> call[w], out |-> v]]
  <2>1. /\ \A u \in Writers \ {w} : pc'[u] = pc[u] /\ call'[u] = call[u] /\ out'[u] = out[u]
        /\ pc'[w] = l /\ out'[w] = v /\ call'[w] = call[w] /\ v # "none"
    BY DEF TypeOK, Verdict
  <2> QED
    BY <2>1, OpStep
<1>3. TableOf' = TableOf
  BY DEF TableOf
<1>4. AnswerOf' = AnswerOf
  BY AnswerFrame
<1> QED
  BY <1>1, <1>2, <1>3, <1>4 DEF Table!TakeEffect

\* A step of writer w that the table does not see.
LEMMA HiddenStep ==
    ASSUME SInv, [Next]_vars, NEW w \in Writers,
           \A v \in Writers \ {w} : pc'[v] = pc[v],
           pc[w] # "idle", pc'[w] # "idle",
           UNCHANGED <<registryPtr, call, out, rvars>>
    PROVE  UNCHANGED Table!vars
<1> USE DEF SInv, LInv, CInv
<1>1. OpOf' = OpOf
  BY DEF OpOf
<1>2. TableOf' = TableOf
  BY StepFrozen DEF TableOf, Published, TypeOK
<1>3. AnswerOf' = AnswerOf
  BY AnswerFrame
<1> QED
  BY <1>1, <1>2, <1>3 DEF Table!vars

\* Every step of the registry is a step of the table, or invisible there.
LEMMA NextRefines == SInv /\ [Next]_vars => [Table!Next]_(Table!vars)
<1> SUFFICES ASSUME SInv, [Next]_vars PROVE Table!Next \/ UNCHANGED Table!vars
  OBVIOUS
<1> USE DEF SInv, LInv, CInv
<1>1. ASSUME NEW w \in Writers, NEW k \in Calls, Register(w, k) PROVE Table!Invoke(w, k)
  <2>1. OpOf[w].state = "idle"
    BY <1>1 DEF Register, OpOf
  <2>2. out[w] = "none"
    BY <1>1 DEF Register, Local
  <2>3. OpOf' = [OpOf EXCEPT ![w] = [state |-> "pending", call |-> k, out |-> "none"]]
    <3>1. /\ \A v \in Writers \ {w} : pc'[v] = pc[v] /\ call'[v] = call[v] /\ out'[v] = out[v]
          /\ pc'[w] = "validate" /\ call'[w] = k /\ out'[w] = "none"
      BY <1>1, <2>2 DEF Register, GoTo, TypeOK
    <3> QED
      BY <3>1, OpStep
  <2>4. TableOf' = TableOf /\ AnswerOf' = AnswerOf
    BY <1>1, AnswerFrame DEF Register, TableOf
  <2> QED
    BY <2>1, <2>3, <2>4 DEF Table!Invoke
<1>2. ASSUME NEW w \in Writers, Validate(w) PROVE Table!TakeEffect(w) \/ UNCHANGED Table!vars
  <2>1. CASE ArgVerdict(call[w]) = "ok"
    <3>1. /\ pc[w] = "validate" /\ pc' = [pc EXCEPT ![w] = "lock"]
          /\ UNCHANGED <<registryPtr, call, out, rvars>>
      BY <1>2, <2>1 DEF Validate, GoTo
    <3> QED
      BY <3>1, HiddenStep DEF TypeOK
  <2>2. CASE ArgVerdict(call[w]) # "ok"
    <3>1. /\ pc[w] = "validate" /\ pc' = [pc EXCEPT ![w] = "return"]
          /\ out' = [out EXCEPT ![w] = ArgVerdict(call[w])]
          /\ UNCHANGED <<heap, registryPtr, call, rvars>>
      BY <1>2, <2>2 DEF Validate, Panic, GoTo, Critical
    <3>2. out[w] = "none"
      BY <3>1 DEF Local
    <3>3. ArgVerdict(call[w]) = Table!Outcome(call[w], TableOf)
      BY <2>2, VerdictAgrees DEF Table!Outcome
    <3>4. ArgVerdict(call[w]) \in Verdict /\ "return" \in PC
      BY ArgVerdictType DEF PC
    <3> QED
      BY <2>2, <3>1, <3>2, <3>3, <3>4, RefusalStep
  <2> QED
    BY <2>1, <2>2
<1>3. ASSUME NEW w \in Writers, Lock(w) \/ Load(w) \/ Clone(w) \/ SetCode(w) \/ SetName(w) \/ Unlock(w)
      PROVE  UNCHANGED Table!vars
  <2>1. /\ \A v \in Writers \ {w} : pc'[v] = pc[v]
        /\ pc[w] # "idle" /\ pc'[w] # "idle"
        /\ UNCHANGED <<registryPtr, call, out, rvars>>
    BY <1>3 DEF Lock, Load, Clone, SetCode, SetName, Unlock, GoTo, TypeOK
  <2> QED
    BY <2>1, HiddenStep
<1>4. ASSUME NEW w \in Writers, CheckCode(w) PROVE Table!TakeEffect(w) \/ UNCHANGED Table!vars
  <2>1. /\ pc[w] \in Loaded /\ reg[w] = registryPtr /\ out[w] = "none"
        /\ ArgVerdict(call[w]) = "ok" /\ call[w] \in RegisterCall
    BY <1>4, RegistryAssumption DEF CheckCode, Control, Loaded, Filling, Local, Critical
  <2>2. CASE heap[registryPtr].codes[call[w].code] = Absent
    <3>1. /\ pc[w] = "checkCode" /\ pc' = [pc EXCEPT ![w] = "checkName"]
          /\ UNCHANGED <<registryPtr, call, out, rvars>>
      BY <1>4, <2>1, <2>2 DEF CheckCode, GoTo
    <3> QED
      BY <3>1, HiddenStep DEF TypeOK
  <2>3. CASE heap[registryPtr].codes[call[w].code] # Absent
    <3>1. /\ pc[w] # "idle" /\ pc' = [pc EXCEPT ![w] = "unlock"]
          /\ out' = [out EXCEPT ![w] = "dupCode"]
          /\ UNCHANGED <<heap, registryPtr, call, rvars>>
      BY <1>4, <2>1, <2>3 DEF CheckCode, Panic, GoTo, Critical
    <3>2. "dupCode" = Table!Outcome(call[w], TableOf)
      BY <2>1, <2>3, VerdictAgrees DEF Table!Outcome, TableOf
    <3>3. "dupCode" \in Verdict /\ "dupCode" # "ok" /\ "unlock" \in PC
      BY DEF Verdict, PC, Critical
    <3> QED
      BY <2>1, <3>1, <3>2, <3>3, RefusalStep
  <2> QED
    BY <2>2, <2>3
<1>5. ASSUME NEW w \in Writers, CheckName(w) PROVE Table!TakeEffect(w) \/ UNCHANGED Table!vars
  <2>1. /\ pc[w] \in Loaded /\ reg[w] = registryPtr /\ out[w] = "none"
        /\ ArgVerdict(call[w]) = "ok" /\ call[w] \in RegisterCall
    BY <1>5, RegistryAssumption DEF CheckName, Control, Loaded, Filling, Local, Critical
  <2>2. CASE heap[registryPtr].names[call[w].name] = Absent
    <3>1. /\ pc[w] = "checkName" /\ pc' = [pc EXCEPT ![w] = "options"]
          /\ UNCHANGED <<registryPtr, call, out, rvars>>
      BY <1>5, <2>1, <2>2 DEF CheckName, GoTo
    <3> QED
      BY <3>1, HiddenStep DEF TypeOK
  <2>3. CASE heap[registryPtr].names[call[w].name] # Absent
    <3>1. /\ pc[w] # "idle" /\ pc' = [pc EXCEPT ![w] = "unlock"]
          /\ out' = [out EXCEPT ![w] = "dupName"]
          /\ UNCHANGED <<heap, registryPtr, call, rvars>>
      BY <1>5, <2>1, <2>3 DEF CheckName, Panic, GoTo, Critical
    <3>2. "dupName" = Table!Outcome(call[w], TableOf)
      <4>1. TableOf[call[w].code] = Absent
        BY <1>5 DEF CheckName, Contents, TableOf
      <4>2. Table!Taken(TableOf, call[w].name)
        BY <2>1, <2>3, NamesTell DEF RegisterCall
      <4> QED
        BY <2>1, <4>1, <4>2, VerdictAgrees DEF Table!Outcome
    <3>3. "dupName" \in Verdict /\ "dupName" # "ok" /\ "unlock" \in PC
      BY DEF Verdict, PC, Critical
    <3> QED
      BY <2>1, <3>1, <3>2, <3>3, RefusalStep
  <2> QED
    BY <2>2, <2>3
<1>6. ASSUME NEW w \in Writers, Options(w) PROVE Table!TakeEffect(w) \/ UNCHANGED Table!vars
  <2> DEFINE n == applied[w] + 1
             o == call[w].opts[n]
  <2>1. /\ pc[w] = "options" /\ out[w] = "none" /\ ArgVerdict(call[w]) = "ok"
        /\ call[w] \in RegisterCall /\ applied[w] \in Nat
    BY <1>6, RegistryAssumption DEF Options, Control, Local, Critical, TypeOK
  <2>2. CASE n <= Len(call[w].opts) /\ BadOption(o)
    <3>1. /\ pc' = [pc EXCEPT ![w] = "unlock"]
          /\ out' = [out EXCEPT ![w] = "badDelay"]
          /\ UNCHANGED <<heap, registryPtr, call, rvars>>
      BY <1>6, <2>1, <2>2 DEF Options, Panic, GoTo, Critical, RegisterCall
    <3>2. "badDelay" = Table!Outcome(call[w], TableOf)
      <4>1. TableOf[call[w].code] = Absent
        BY <2>1 DEF Contents, TableOf, Building
      <4>2. ~Table!Taken(TableOf, call[w].name)
        <5>1. heap[registryPtr].names[call[w].name] = Absent
          BY <2>1 DEF Contents, Building
        <5> QED
          BY <2>1, <5>1, NamesTell DEF RegisterCall
      <4>3. n \in 1..Len(call[w].opts) /\ Table!BadOption(call[w].opts[n])
        BY <2>1, <2>2 DEF Table!BadOption, BadOption, RegisterCall
      <4> QED
        BY <2>1, <4>1, <4>2, <4>3, VerdictAgrees DEF Table!Outcome
    <3>3. "badDelay" \in Verdict /\ "badDelay" # "ok" /\ "unlock" \in PC
      BY DEF Verdict, PC, Critical
    <3> QED
      BY <2>1, <3>1, <3>2, <3>3, RefusalStep
  <2>3. CASE ~(n <= Len(call[w].opts) /\ BadOption(o))
    <3>1. /\ pc' = [pc EXCEPT ![w] = "clone"] \/ UNCHANGED pc
          /\ UNCHANGED <<registryPtr, call, out, rvars>>
      BY <1>6, <2>1, <2>3 DEF Options, GoTo, RegisterCall
    <3> QED
      BY <2>1, <3>1, HiddenStep DEF TypeOK
  <2> QED
    BY <2>2, <2>3
<1>7. ASSUME NEW w \in Writers, Store(w) PROVE Table!TakeEffect(w)
  <2> DEFINE k == call[w]
  <2>1. /\ pc[w] = "store" /\ pc' = [pc EXCEPT ![w] = "unlock"]
        /\ out' = [out EXCEPT ![w] = "ok"] /\ UNCHANGED <<heap, call, rvars>>
    BY <1>7 DEF Store, GoTo
  <2>2. /\ out[w] = "none" /\ ArgVerdict(k) = "ok" /\ k \in RegisterCall
        /\ applied[w] = Len(k.opts) /\ info[w] = Table!EntryAfter(k, applied[w])
        /\ \A i \in 1..applied[w] : ~BadOption(k.opts[i])
    BY <2>1, RegistryAssumption DEF Local, Control, Building, Filling, Critical
  <2>3. /\ TableOf[k.code] = Absent
        /\ heap[registryPtr].names[k.name] = Absent
        /\ TableOf' = [TableOf EXCEPT ![k.code] = info[w]]
    BY <1>7, <2>1, StoreStep DEF TableOf
  <2>4. Table!Outcome(k, TableOf) = "ok"
    <3>1. ~Table!Taken(TableOf, k.name)
      BY <2>2, <2>3, NamesTell DEF RegisterCall
    <3>2. \A i \in 1..Len(k.opts) : ~Table!BadOption(k.opts[i])
      BY <2>2 DEF Table!BadOption, BadOption
    <3> QED
      BY <2>2, <2>3, <3>1, <3>2, VerdictAgrees DEF Table!Outcome
  <2>5. TableOf' = [TableOf EXCEPT ![k.code] = Table!Entry(k)]
    BY <2>2, <2>3 DEF Table!Entry
  <2>6. OpOf[w] = [state |-> "pending", call |-> k, out |-> "none"]
    BY <2>1, <2>2 DEF OpOf
  <2>7. OpOf' = [OpOf EXCEPT ![w] = [state |-> "done", call |-> k, out |-> "ok"]]
    <3>1. /\ \A v \in Writers \ {w} : pc'[v] = pc[v] /\ call'[v] = call[v] /\ out'[v] = out[v]
          /\ pc'[w] = "unlock" /\ call'[w] = k /\ out'[w] = "ok"
      BY <2>1 DEF TypeOK
    <3> QED
      BY <3>1, OpStep
  <2>8. AnswerOf' = AnswerOf
    BY <2>1, AnswerFrame
  <2> HIDE DEF k
  <2> QED
    BY <2>4, <2>5, <2>6, <2>7, <2>8 DEF Table!TakeEffect
<1>8. ASSUME NEW w \in Writers, Return(w) PROVE Table!Respond(w)
  <2>1. OpOf[w].state = "done"
    BY <1>8 DEF Return, OpOf, Local
  <2>2. OpOf' = [OpOf EXCEPT ![w] = Table!Idle]
    <3>1. /\ \A v \in Writers \ {w} : pc'[v] = pc[v] /\ call'[v] = call[v] /\ out'[v] = out[v]
          /\ pc'[w] = "idle" /\ call'[w] = Absent /\ out'[w] = "none"
      BY <1>8 DEF Return, GoTo, TypeOK
    <3> QED
      BY <3>1, OpStep DEF Table!Idle
  <2>3. TableOf' = TableOf /\ AnswerOf' = AnswerOf
    BY <1>8, AnswerFrame DEF Return, TableOf
  <2> QED
    BY <2>1, <2>2, <2>3 DEF Table!Respond
<1>9. ASSUME NEW r \in Readers, NEW q \in Query, LookupLoad(r, q) PROVE Table!Lookup(r, q)
  <2>1. TableOf' = TableOf /\ OpOf' = OpOf
    BY <1>9 DEF LookupLoad, wvars, TableOf, OpOf
  <2>2. AnswerOf' = [AnswerOf EXCEPT ![r] = AnswerIn(heap[registryPtr], q)]
    BY <1>9 DEF LookupLoad, AnswerOf, TypeOK
  <2> QED
    BY <2>1, <2>2, AnswerAgrees DEF Table!Lookup
<1>10. ASSUME NEW r \in Readers, LookupRead(r) PROVE UNCHANGED Table!vars
  <2>1. TableOf' = TableOf /\ OpOf' = OpOf
    BY <1>10 DEF LookupRead, wvars, TableOf, OpOf
  <2>2. AnswerOf' = AnswerOf
    BY <1>10 DEF LookupRead, AnswerOf, TypeOK
  <2> QED
    BY <2>1, <2>2 DEF Table!vars
<1>11. CASE UNCHANGED vars
  <2>1. UNCHANGED heap /\ UNCHANGED registryPtr /\ UNCHANGED wvars /\ UNCHANGED rvars
    BY <1>11 DEF vars
  <2>2. TableOf' = TableOf /\ OpOf' = OpOf /\ AnswerOf' = AnswerOf
    BY <2>1 DEF wvars, rvars, TableOf, OpOf, AnswerOf
  <2> QED
    BY <2>2 DEF Table!vars
<1>12. Query = Table!Query
  BY DEF Query, Table!Query
<1> QED
  BY <1>1, <1>2, <1>3, <1>4, <1>5, <1>6, <1>7, <1>8, <1>9, <1>10, <1>11, <1>12
     DEF Next, Proceed, Table!Next

\* The registry, with its snapshots, its mutex and its reverse index, is one
\* table in which every Register call and every lookup is a single step.
THEOREM RegistryImplementsTable == Spec => ImplementsTable
<1> QED
  BY InitRefines, InitSInv, NextSInv, NextRefines, PTL DEF Spec, ImplementsTable, Table!Spec

============================================================================
