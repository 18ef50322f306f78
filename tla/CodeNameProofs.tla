--------------------------- MODULE CodeNameProofs ---------------------------
(***************************************************************************)
(* validCodeName answers as the pattern does, for names of every length.   *)
(***************************************************************************)
EXTENDS CodeName, TLAPS

USE CodeNameAssumption

\* A byte that a name may have at place k.
Fits(k) ==
    /\ name[k] \in {"letter", "digit", "underscore"}
    /\ k = 1 => name[k] = "letter"
    /\ k = Len(name) => name[k] # "underscore"

\* All bytes before the one the loop looks at fit.
IInv ==
    /\ name \in Seq(Class)
    /\ i \in Nat \ {0}
    /\ pc \in {"call", "loop", "valid", "invalid"}
    /\ pc \in {"loop", "valid"} => Len(name) >= 3 /\ Len(name) <= MaxLen
    /\ pc = "call" => i = 1
    /\ pc = "loop" => i <= Len(name) + 1 /\ \A k \in 1..(i - 1) : Fits(k)
    /\ AnswersPattern

\* The pattern, byte by byte.
LEMMA MatchesFits ==
    ASSUME name \in Seq(Class)
    PROVE  Matches(name) <=>
              /\ Len(name) >= 3 /\ Len(name) <= MaxLen
              /\ \A k \in 1..Len(name) : Fits(k)
<1>1. Len(name) \in Nat
  OBVIOUS
<1>2. CASE Len(name) < 3
  BY <1>1, <1>2 DEF Matches
<1>3. CASE Len(name) >= 3
  <2>1. (\A k \in 1..Len(name) : Fits(k)) <=>
          /\ name[1] = "letter"
          /\ \A k \in 2..(Len(name) - 1) : name[k] \in {"letter", "digit", "underscore"}
          /\ name[Len(name)] \in {"letter", "digit"}
    BY <1>1, <1>3 DEF Fits
  <2> QED
    BY <1>1, <1>3, <2>1 DEF Matches
<1> QED
  BY <1>1, <1>2, <1>3

LEMMA StepIInv == IInv /\ [Next]_vars => IInv'
<1> SUFFICES ASSUME IInv, [Next]_vars PROVE IInv'
  OBVIOUS
<1>0. name \in Seq(Class) /\ Len(name) \in Nat /\ i \in Nat \ {0} /\ MaxLen \in Nat
  BY DEF IInv
<1>1. CASE CheckLength
  <2>1. name' = name /\ i' = i /\ pc = "call" /\ pc' \in {"invalid", "loop"}
    BY <1>1 DEF CheckLength
  <2>2. CASE pc' = "loop"
    BY <1>0, <1>1, <2>1, <2>2 DEF CheckLength, IInv, AnswersPattern
  <2>3. CASE pc' = "invalid"
    <3>1. ~Matches(name)
      BY <1>0, <1>1, <2>3, MatchesFits DEF CheckLength
    <3> QED
      BY <1>0, <2>1, <2>3, <3>1 DEF IInv, AnswersPattern, Matches
  <2> QED
    BY <2>1, <2>2, <2>3
<1>2. CASE CheckByte
  <2>1. name' = name /\ pc = "loop" /\ i \in 1..Len(name) /\ Len(name) >= 3 /\ Len(name) <= MaxLen
    BY <1>0, <1>2 DEF CheckByte, IInv
  <2>2. Refused(name[i]) <=> ~Fits(i)
    BY <1>0, <2>1 DEF Refused, Fits
  <2>3. CASE Refused(name[i])
    <3>1. ~Matches(name) /\ pc' = "invalid" /\ i' = i
      BY <1>0, <1>2, <2>1, <2>2, <2>3, MatchesFits DEF CheckByte
    <3> QED
      BY <1>0, <2>1, <3>1 DEF IInv, AnswersPattern, Matches
  <2>4. CASE ~Refused(name[i])
    <3>1. pc' = "loop" /\ i' = i + 1 /\ \A k \in 1..i : Fits(k)
      BY <1>0, <1>2, <2>1, <2>2, <2>4 DEF CheckByte, IInv
    <3>2. \A k \in 1..(i' - 1) : Fits(k)'
      BY <1>0, <2>1, <3>1 DEF Fits
    <3> QED
      BY <1>0, <2>1, <3>1, <3>2 DEF IInv, AnswersPattern
  <2> QED
    BY <2>3, <2>4
<1>3. CASE EndLoop
  <2>1. name' = name /\ i' = i /\ pc = "loop" /\ pc' = "valid" /\ i > Len(name)
    BY <1>3 DEF EndLoop
  <2>2. Matches(name)
    BY <1>0, <2>1, MatchesFits DEF IInv
  <2> QED
    BY <1>0, <2>1, <2>2 DEF IInv, AnswersPattern, Matches
<1>4. CASE UNCHANGED vars
  BY <1>4 DEF IInv, AnswersPattern, Matches, Fits, vars
<1> QED
  BY <1>1, <1>2, <1>3, <1>4 DEF Next

\* validCodeName accepts exactly the names that match the pattern, whatever
\* their length (code.go:218-239).
THEOREM AnswersPatternCorrect == Spec => []AnswersPattern
<1>1. Init => IInv
  BY DEF Init, IInv, AnswersPattern
<1>2. IInv => AnswersPattern
  BY DEF IInv
<1> QED
  BY <1>1, <1>2, StepIInv, PTL DEF Spec

============================================================================
