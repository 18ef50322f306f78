---------------------------- MODULE ProblemProofs ----------------------------
(***************************************************************************)
(* The properties of Problem, for every set of names, errors and options.  *)
(* The invariant says what the options have made of the problem so far,    *)
(* and, once MarshalJSON is through, what is in the body and why the call  *)
(* ended as it did.                                                        *)
(***************************************************************************)
EXTENDS Problem, TLAPS

Extra == Key \ (Reserved \cup {""})
DerivedExtra(k) ==
    IF k = "errors" /\ err.fields[k] = Absent THEN err.violations ELSE err.fields[k]

BadIn(b) == {b[k] : k \in Extra} \cap Bad

\* The fields and the extensions after the options applied so far.
Fields ==
    /\ problem.fields = [k \in Key |-> problem.fields[k]]
    /\ \A k \in Reserved : /\ Chosen(opts, applied, k, problem.fields[k], Derived(k))
                           /\ problem.fields[k] \notin Bad
Extensible ==
    /\ problem.extensions = [k \in Key |-> problem.extensions[k]]
    /\ \A k \in Extra : Chosen(opts, applied, k, problem.extensions[k], DerivedExtra(k))
    /\ problem.extensions = Nothing => Extensions(err) = Nothing

\* The body that has been made of them.
Marshalled ==
    /\ applied = Len(opts)
    /\ \A k \in Reserved : Chosen(opts, applied, k, body[k], Derived(k))
    /\ \A k \in Extra : Chosen(opts, applied, k, body[k], DerivedExtra(k))
    /\ body["status"] = problem.fields["status"]

IInv ==
    /\ err \in Errors /\ opts \in Options /\ applied \in 0..Len(opts)
    /\ problem = [fields |-> problem.fields, extensions |-> problem.extensions]
    /\ pc \in {"from", "options", "encoded", "failed", "panicked", "done"}
    /\ pc = "from" => applied = 0
    /\ pc # "done" => response = NoResponse
    /\ pc = "options" => Fields /\ Extensible
    /\ pc \in {"encoded", "failed"} => Marshalled
    /\ pc = "encoded" => BadIn(body) = {}
    /\ pc = "failed" => Unencodable \in BadIn(body)
    /\ pc = "panicked" => Panicking \in BadIn(body) \/ Extensions(err) = Nothing
    /\ pc = "done" => ResponseAgrees

----------------------------------------------------------------------------
(* Options.                                                                *)

\* One more option that sets another member changes nothing for k, and one
\* that sets k decides it.
LEMMA ChosenKept ==
    ASSUME NEW os, NEW n \in Nat, NEW k, NEW v, NEW x,
           Chosen(os, n, k, v, x), os[n + 1].member # k
    PROVE  Chosen(os, n + 1, k, v, x)
<1>1. CASE \E i \in 1..n : /\ os[i].member = k /\ os[i].value = v
                           /\ \A j \in (i + 1)..n : os[j].member # k
  <2>1. PICK i \in 1..n : /\ os[i].member = k /\ os[i].value = v
                          /\ \A j \in (i + 1)..n : os[j].member # k
    BY <1>1
  <2>2. i \in 1..(n + 1)
    OBVIOUS
  <2>3. \A j \in (i + 1)..(n + 1) : j = n + 1 \/ j \in (i + 1)..n
    OBVIOUS
  <2> QED
    BY <2>1, <2>2, <2>3 DEF Chosen
<1>2. CASE v = x /\ \A i \in 1..n : os[i].member # k
  <2>1. \A j \in 1..(n + 1) : j = n + 1 \/ j \in 1..n
    OBVIOUS
  <2> QED
    BY <1>2, <2>1 DEF Chosen
<1> QED
  BY <1>1, <1>2 DEF Chosen

LEMMA ChosenSet ==
    ASSUME NEW os, NEW n \in Nat, NEW k, NEW v, NEW x,
           os[n + 1].member = k, os[n + 1].value = v
    PROVE  Chosen(os, n + 1, k, v, x)
<1>1. n + 1 \in 1..(n + 1) /\ ((n + 1) + 1)..(n + 1) = {}
  OBVIOUS
<1> QED
  BY <1>1 DEF Chosen

LEMMA Member ==
    ASSUME NEW S, NEW os \in Seq(S), NEW i \in 1..Len(os)
    PROVE  os[i] \in S
OBVIOUS

\* What an option is.
LEMMA OptionType ==
    ASSUME NEW os \in Options, NEW n \in 0..Len(os), n < Len(os)
    PROVE  /\ os[n + 1].member \in Key
           /\ n \in Nat /\ n + 1 \in 0..Len(os)
           /\ os[n + 1].member \in Reserved => os[n + 1].value \notin Bad
           /\ os[n + 1].member \notin Reserved => os[n + 1].value # Absent
<1>1. os \in Seq([member: Key, value: Value])
  BY ProblemAssumption
<1>2. Len(os) \in Nat /\ DOMAIN os = 1..Len(os)
  BY <1>1
<1>3. n \in Nat /\ n + 1 \in DOMAIN os /\ n + 1 \in 0..Len(os)
  BY <1>2
<1>4. os[n + 1] \in [member: Key, value: Value]
  BY <1>1, <1>2, <1>3, Member
<1> QED
  BY <1>3, <1>4, ProblemAssumption

----------------------------------------------------------------------------
(* The steps.                                                              *)

LEMMA Starts == Init => IInv
<1> SUFFICES ASSUME Init PROVE IInv
  OBVIOUS
<1>1. opts \in Seq([member: Key, value: Value])
  BY ProblemAssumption DEF Init
<1>2. 0 \in 0..Len(opts)
  BY <1>1
<1> QED
  BY <1>2 DEF Init, IInv, NoProblem

LEMMA FromStep ==
    ASSUME IInv, From
    PROVE  IInv'
<1> USE DEF IInv
<1>1. pc = "from" /\ pc' = "options" /\ applied' = 0 /\ applied = 0 /\ err' = err /\ opts' = opts
      /\ response' = NoResponse
  BY DEF From
<1>2. 1..0 = {}
  OBVIOUS
<1>3. \A os, k, v : Chosen(os, 0, k, v, v)
  BY <1>2 DEF Chosen
<1>4. Fields'
  <2>1. \A k \in Reserved : problem'.fields[k] = Derived(k) /\ k \in Key
    BY ProblemAssumption DEF From, Derived, Reserved
  <2>2. problem'.fields = [k \in Key |-> problem'.fields[k]]
    BY DEF From
  <2>3. \A k \in Reserved : Derived(k) \notin Bad
    BY ProblemAssumption DEF Derived, Reserved, Bad
  <2>4. \A k \in Reserved : Derived(k)' = Derived(k)
    BY <1>1 DEF Derived
  <2> QED
    BY <1>1, <1>3, <2>1, <2>2, <2>3, <2>4 DEF Fields
<1>5. Extensible'
  <2>1. problem'.extensions = Extensions(err)
    BY DEF From
  <2>2. err.fields = [k \in Key |-> err.fields[k]] /\ "errors" \in Key
    BY ProblemAssumption
  <2>3. Extensions(err) = [k \in Key |-> Extensions(err)[k]]
    BY <2>2 DEF Extensions
  <2>4. \A k \in Extra : Extensions(err)[k] = DerivedExtra(k)
    BY <2>2 DEF Extensions, DerivedExtra, Extra
  <2>5. (Extensions(err) = Extensions(err)') /\ \A k : DerivedExtra(k)' = DerivedExtra(k)
    BY <1>1 DEF Extensions, DerivedExtra
  <2> QED
    BY <1>1, <1>3, <2>1, <2>3, <2>4, <2>5 DEF Extensible
<1>6. problem' = [fields |-> problem'.fields, extensions |-> problem'.extensions]
  BY DEF From
<1> QED
  BY <1>1, <1>4, <1>5, <1>6

LEMMA ApplyStep ==
    ASSUME IInv, Apply
    PROVE  IInv'
<1> DEFINE m == opts[applied + 1].member
           w == opts[applied + 1].value
<1>1. /\ pc = "options" /\ applied < Len(opts) /\ applied' = applied + 1
      /\ err' = err /\ opts' = opts /\ response' = response /\ body' = body
      /\ applied \in 0..Len(opts) /\ opts \in Options
  BY DEF Apply, IInv
<1>2. /\ m \in Key /\ applied \in Nat /\ applied' \in 0..Len(opts')
      /\ m \in Reserved => w \notin Bad
      /\ m \notin Reserved => w # Absent
  BY <1>1, OptionType
<1>3. /\ Fields /\ Extensible /\ response = NoResponse
      /\ problem = [fields |-> problem.fields, extensions |-> problem.extensions]
  BY <1>1 DEF IInv
<1>4. \A k, v, x : Chosen(opts, applied, k, v, x) /\ m # k => Chosen(opts', applied', k, v, x)
  BY <1>1, <1>2, ChosenKept
<1>5. \A x : Chosen(opts', applied', m, w, x)
  BY <1>1, <1>2, ChosenSet
<1>6. \A k : Derived(k)' = Derived(k) /\ DerivedExtra(k)' = DerivedExtra(k)
  BY <1>1 DEF Derived, DerivedExtra
<1>7. Extensions(err)' = Extensions(err)
  BY <1>1 DEF Extensions
<1>8. \/ m \in Reserved /\ problem' = [problem EXCEPT !.fields[m] = w] /\ pc' = pc
      \/ m \notin Reserved /\ problem' = [problem EXCEPT !.extensions[m] = w] /\ pc' = pc
      \/ problem.extensions = Nothing /\ pc' = "panicked" /\ problem' = problem
  BY DEF Apply
<1> HIDE DEF m, w
<1>9. CASE m \in Reserved /\ problem' = [problem EXCEPT !.fields[m] = w] /\ pc' = pc
  <2>1. problem'.extensions = problem.extensions /\ m \notin Extra
    BY <1>3, <1>9 DEF Extra
  <2>2. problem'.fields = [problem.fields EXCEPT ![m] = w]
    BY <1>3, <1>9
  <2>3. /\ problem'.fields = [k \in Key |-> problem'.fields[k]]
        /\ \A k \in Key : problem'.fields[k] = IF k = m THEN w ELSE problem.fields[k]
    BY <1>2, <1>3, <2>2 DEF Fields
  <2>4. Fields'
    BY <1>2, <1>3, <1>4, <1>5, <1>6, <1>9, <2>3, ProblemAssumption DEF Fields
  <2>5. Extensible'
    BY <1>3, <1>4, <1>6, <1>7, <2>1 DEF Extensible, Nothing
  <2>6. problem' = [fields |-> problem'.fields, extensions |-> problem'.extensions]
    BY <1>3, <1>9
  <2> QED
    BY <1>1, <1>2, <1>3, <1>9, <2>4, <2>5, <2>6 DEF IInv
<1>10. CASE m \notin Reserved /\ problem' = [problem EXCEPT !.extensions[m] = w] /\ pc' = pc
  <2>1. problem'.fields = problem.fields
    BY <1>3, <1>10
  <2>2. problem'.extensions = [problem.extensions EXCEPT ![m] = w]
    BY <1>3, <1>10
  <2>3. /\ problem'.extensions = [k \in Key |-> problem'.extensions[k]]
        /\ \A k \in Key : problem'.extensions[k] = IF k = m THEN w ELSE problem.extensions[k]
    BY <1>2, <1>3, <2>2 DEF Extensible
  <2>4. Fields'
    BY <1>3, <1>4, <1>6, <1>10, <2>1 DEF Fields
  <2>5. problem'.extensions # Nothing
    BY <1>2, <1>10, <2>3 DEF Nothing
  <2>6. Extensible'
    BY <1>2, <1>3, <1>4, <1>5, <1>6, <2>3, <2>5 DEF Extensible, Extra, Nothing
  <2>7. problem' = [fields |-> problem'.fields, extensions |-> problem'.extensions]
    BY <1>3, <1>10
  <2> QED
    BY <1>1, <1>2, <1>3, <1>10, <2>4, <2>6, <2>7 DEF IInv
<1>11. CASE problem.extensions = Nothing /\ pc' = "panicked" /\ problem' = problem
  BY <1>1, <1>2, <1>3, <1>7, <1>11 DEF IInv, Extensible
<1> QED
  BY <1>8, <1>9, <1>10, <1>11

LEMMA MarshalStep ==
    ASSUME IInv, MarshalJSON
    PROVE  IInv'
<1>1. /\ pc = "options" /\ applied = Len(opts) /\ applied' = applied /\ problem' = problem
      /\ err' = err /\ opts' = opts /\ response' = response
      /\ pc' \in Outcomes(body')
  BY DEF MarshalJSON
<1>2. Fields /\ Extensible
  BY <1>1 DEF IInv
<1>3. \A k \in Key : body'[k] =
          IF k \in Reserved /\ (k \in OmitEmpty => problem.fields[k] # Absent)
          THEN problem.fields[k] ELSE Kept(problem.extensions)[k]
  BY DEF MarshalJSON
<1>4. \A k \in Key : k \in Reserved => body'[k] = problem.fields[k]
  BY <1>3 DEF Kept, OmitEmpty, Reserved
<1>5. \A k \in Extra : body'[k] = problem.extensions[k]
  BY <1>3 DEF Kept, Extra
<1>6. \A k \in Key : body'[k] \in Bad => k \in Extra
  <2>1. \A k \in Key : k \in Reserved => body'[k] \notin Bad
    BY <1>2, <1>4 DEF Fields
  <2>2. "" \notin Reserved
    BY DEF Reserved
  <2>3. "" \in Key => body'[""] = Absent
    BY <1>3, <2>2 DEF Kept
  <2> QED
    BY <2>1, <2>3, ProblemAssumption DEF Extra
<1>7. \A b \in Bad : (\E k \in Key : body'[k] = b) <=> b \in BadIn(body')
  BY <1>6 DEF BadIn, Extra
<1>8. /\ pc' \in {"encoded", "failed", "panicked"}
      /\ pc' = "encoded" => BadIn(body') = {}
      /\ pc' = "failed" => Unencodable \in BadIn(body')
      /\ pc' = "panicked" => Panicking \in BadIn(body')
  <2>1. Outcomes(body') =
            LET stops == (IF Unencodable \in BadIn(body') THEN {"failed"} ELSE {})
                            \cup (IF Panicking \in BadIn(body') THEN {"panicked"} ELSE {})
            IN  IF stops = {} THEN {"encoded"} ELSE stops
    BY <1>7 DEF Outcomes, Bad
  <2>2. BadIn(body') \subseteq Bad
    BY DEF BadIn
  <2> QED
    BY <1>1, <2>1, <2>2 DEF Bad
<1>9. Marshalled'
  <2>1. \A k : Derived(k)' = Derived(k) /\ DerivedExtra(k)' = DerivedExtra(k)
    BY <1>1 DEF Derived, DerivedExtra
  <2>2. Reserved \subseteq Key /\ "status" \in Reserved
    BY ProblemAssumption DEF Reserved
  <2> QED
    BY <1>1, <1>2, <1>4, <1>5, <2>1, <2>2 DEF Marshalled, Fields, Extensible
<1>10. BadIn(body)' = BadIn(body')
  BY DEF BadIn
<1> QED
  BY <1>1, <1>8, <1>9, <1>10 DEF IInv

LEMMA WriteStep ==
    ASSUME IInv, WriteFailed \/ WriteEncoded
    PROVE  IInv'
<1>1. /\ pc \in {"encoded", "failed"} /\ pc' = "done"
      /\ err' = err /\ opts' = opts /\ applied' = applied /\ problem' = problem /\ body' = body
  BY DEF WriteFailed, WriteEncoded
<1>2. Marshalled /\ (pc = "encoded" => BadIn(body) = {}) /\ (pc = "failed" => Unencodable \in BadIn(body))
  BY <1>1 DEF IInv
<1>3. BadIn(body)' = BadIn(body)
  BY <1>1 DEF BadIn
<1>4. CASE WriteFailed
  <2>1. Unencodable \in BadIn(body)' /\ response' = [status |-> 500, contentType |-> Absent, body |-> "none"]
    BY <1>2, <1>3, <1>4 DEF WriteFailed, Bare, NoResponse
  <2>2. ResponseAgrees'
    BY <1>1, <2>1 DEF ResponseAgrees, BadIn, Extra
  <2> QED
    BY <1>1, <2>2 DEF IInv
<1>5. CASE WriteEncoded
  <2>1. /\ BadIn(body)' = {} /\ response'.status = body'["status"]
        /\ response'.body # "none"
    BY <1>1, <1>2, <1>3, <1>5 DEF WriteEncoded, Marshalled
  <2>2. ResponseAgrees'
    BY <1>1, <2>1 DEF ResponseAgrees, BadIn, Extra
  <2> QED
    BY <1>1, <2>2 DEF IInv
<1> QED
  BY <1>4, <1>5

LEMMA Stutters ==
    ASSUME IInv, UNCHANGED vars
    PROVE  IInv'
<1>1. /\ err' = err /\ opts' = opts /\ applied' = applied /\ problem' = problem
      /\ body' = body /\ response' = response /\ pc' = pc
  BY DEF vars
<1>2. /\ \A k : Derived(k)' = Derived(k) /\ DerivedExtra(k)' = DerivedExtra(k)
      /\ Extensions(err)' = Extensions(err) /\ BadIn(body)' = BadIn(body)
  BY <1>1 DEF Derived, DerivedExtra, Extensions, BadIn
<1>3. (Fields => Fields') /\ (Marshalled => Marshalled') /\ (Extensible => Extensible')
  BY <1>1, <1>2 DEF Fields, Extensible, Marshalled
<1>4. ResponseAgrees' <=> ResponseAgrees
  BY <1>1, <1>2 DEF ResponseAgrees
<1> QED
  BY <1>1, <1>2, <1>3, <1>4 DEF IInv

LEMMA Invariant == Spec => []IInv
<1>1. IInv /\ [Next]_vars => IInv'
  BY FromStep, ApplyStep, MarshalStep, WriteStep, Stutters DEF Next
<1> QED
  BY Starts, <1>1, PTL DEF Spec

----------------------------------------------------------------------------
(* The theorems.                                                           *)

\* No extension member, whatever its name, forges or replaces a defined one:
\* MarshalJSON drops reserved names even where the field is omitted.
THEOREM MembersIntactCorrect == Spec => []MembersIntact
<1>1. IInv => MembersIntact
  BY DEF IInv, Marshalled, MembersIntact
<1> QED
  BY <1>1, Invariant, PTL

\* A public field is in the response as it was set, the violations give way
\* to one of their name, and an option beats both.
THEOREM ExplicitWinsCorrect == Spec => []ExplicitWins
<1>1. IInv => ExplicitWins
  BY DEF IInv, Marshalled, ExplicitWins, DerivedExtra, Extra
<1> QED
  BY <1>1, Invariant, PTL

\* Status and body of a response agree, a failure to encode is a bare 500,
\* and nothing has been sent where a panic passes through.
THEOREM ResponseAgreesCorrect == Spec => []ResponseAgrees
<1>1. IInv => ResponseAgrees
  <2> SUFFICES ASSUME IInv PROVE ResponseAgrees
    OBVIOUS
  <2>1. CASE pc = "panicked"
    BY <2>1 DEF IInv, ResponseAgrees, BadIn, Extra
  <2>2. CASE pc = "done"
    BY <2>2 DEF IInv
  <2> QED
    BY <2>1, <2>2 DEF ResponseAgrees
<1> QED
  BY <1>1, Invariant, PTL

=============================================================================
