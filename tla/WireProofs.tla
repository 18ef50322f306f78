----------------------------- MODULE WireProofs -----------------------------
(***************************************************************************)
(* What the services of a chain send and recover: details fail one by one, *)
(* the delay and the code survive, and nothing a service received is       *)
(* passed on, for any number of services and layers, any registries,       *)
(* domains and trust, and any foreign status at the start.                 *)
(***************************************************************************)
EXTENDS Wire, WellFoundedInduction, SequenceTheorems, TLAPS

\* A non-empty set of naturals has a least element.
LEMMA LeastNat ==
    ASSUME NEW T, T \subseteq Nat, T # {}
    PROVE  \E x \in T : \A y \in T : x <= y
<1> DEFINE R == OpToRel(<, Nat)
<1>1. IsWellFoundedOn(R, Nat)
  BY NatLessThanWellFounded
<1>2. \A x, y \in Nat : y < x => <<y, x>> \in R
  BY DEF OpToRel
<1> HIDE DEF R
<1>3. PICK x \in T : \A y \in T : ~ (<<y, x>> \in R)
  BY <1>1, WFMin
<1>4. \A y \in T : ~ (y < x)
  BY <1>2, <1>3
<1> QED
  BY <1>3, <1>4

LEMMA MinIsIn ==
    ASSUME NEW T, T \subseteq Nat, T # {}
    PROVE  Min(T) \in T
BY LeastNat DEF Min

----------------------------------------------------------------------------
(* Lists of details.                                                       *)

\* One detail or none.
One(q) == q = <<>> \/ \E d : q = <<d>>

LEMMA OneIs ==
    ASSUME NEW q, One(q)
    PROVE  /\ q \in Seq(Range(q))
           /\ \A d : d \in Range(q) <=> q = <<d>>
           /\ One(Sendable(q))
           /\ \A d : Sendable(q) = <<d>> <=> q = <<d>> /\ Marshals(d)
<1>1. CASE q = <<>>
  <2>1. Sendable(q) = <<>>
    BY <1>1 DEF Sendable
  <2>2. \A d : <<d>> # <<>>
    OBVIOUS
  <2> QED
    BY <1>1, <2>1, <2>2 DEF Range, One
<1>2. CASE q # <<>>
  <2>1. PICK d : q = <<d>>
    BY <1>2 DEF One
  <2>2. DOMAIN q = {1} /\ q[1] = d /\ \A e : q = <<e>> => e = d
    BY <2>1
  <2>3. Range(q) = {d}
    BY <2>2 DEF Range
  <2>4. Sendable(q) = IF Marshals(d) THEN <<d>> ELSE <<>>
    BY <2>1, <2>2 DEF Sendable
  <2>5. \A e : <<e>> # <<>> /\ (<<e>> = <<d>> => e = d)
    OBVIOUS
  <2>6. q \in Seq({d})
    BY <2>1
  <2>7. One(Sendable(q))
    BY <2>4 DEF One
  <2>8. \A e : Sendable(q) = <<e>> <=> q = <<e>> /\ Marshals(e)
    BY <2>1, <2>4, <2>5
  <2> QED
    BY <2>1, <2>2, <2>3, <2>6, <2>7, <2>8
<1> QED
  BY <1>1, <1>2

\* Three lists of a detail or none are joined to a list.
LEMMA JoinedSeq ==
    ASSUME NEW x, NEW y, NEW z, One(x), One(y), One(z)
    PROVE  \E S : x \in Seq(S) /\ y \in Seq(S) /\ z \in Seq(S) /\ x \o y \o z \in Seq(S)
<1> DEFINE S == Range(x) \cup Range(y) \cup Range(z)
<1>1. x \in Seq(S) /\ y \in Seq(S) /\ z \in Seq(S)
  <2>1. x \in Seq(Range(x)) /\ y \in Seq(Range(y)) /\ z \in Seq(Range(z))
    BY OneIs
  <2> QED
    BY <2>1
<1> HIDE DEF S
<1>2. x \o y \in Seq(S)
  BY <1>1, ConcatProperties
<1>3. x \o y \o z \in Seq(S)
  BY <1>1, <1>2, ConcatProperties
<1> QED
  BY <1>1, <1>3

\* Three such parts in a row.
LEMMA Joined ==
    ASSUME NEW x, NEW y, NEW z, One(x), One(y), One(z)
    PROVE  /\ \E S : /\ x \in Seq(S) /\ y \in Seq(S) /\ z \in Seq(S)
                     /\ y \o z \in Seq(S) /\ x \o y \o z \in Seq(S)
           /\ x \o y \o z = x \o (y \o z)
           /\ x \o y \o z = <<>> => x = <<>> /\ y = <<>> /\ z = <<>>
           /\ \A d : d \in Range(x \o y \o z) <=> x = <<d>> \/ y = <<d>> \/ z = <<d>>
<1>1. PICK S : x \in Seq(S) /\ y \in Seq(S) /\ z \in Seq(S) /\ x \o y \o z \in Seq(S)
  BY JoinedSeq
<1>2. x \o y \in Seq(S) /\ y \o z \in Seq(S)
  BY <1>1, ConcatProperties
<1>3. x \o y \o z = x \o (y \o z)
  BY <1>1, ConcatAssociative
<1>4. x \o y \o z = <<>> => x = <<>> /\ y = <<>> /\ z = <<>>
  BY <1>1, <1>2, ConcatEqualIffEmpty
<1>5. Range(x \o y \o z) = Range(x) \cup Range(y) \cup Range(z)
  <2>1. Range(x \o y) = Range(x) \cup Range(y)
    BY <1>1, RangeConcatenation
  <2>2. PICK w : w = x \o y /\ w \in Seq(S)
    BY <1>2
  <2>3. Range(w \o z) = Range(w) \cup Range(z)
    BY <1>1, <2>2, RangeConcatenation
  <2> QED
    BY <2>1, <2>2, <2>3
<1>6. \A d : d \in Range(x \o y \o z) <=> x = <<d>> \/ y = <<d>> \/ z = <<d>>
  <2>1. \A d : /\ d \in Range(x) <=> x = <<d>>
               /\ d \in Range(y) <=> y = <<d>>
               /\ d \in Range(z) <=> z = <<d>>
    BY OneIs
  <2> QED
    BY <1>5, <2>1
<1> QED
  BY <1>1, <1>2, <1>3, <1>4, <1>6

----------------------------------------------------------------------------
(* What an error says.                                                     *)

USE WireAssumption, CodesAssumption

\* What an error says does not change while it stays as it is.
LEMMA SameError ==
    ASSUME UNCHANGED <<config, at, layers>>
    PROVE  /\ CodeOf' = CodeOf /\ Table' = Table /\ Public' = Public /\ Delay' = Delay
           /\ InfoFor' = InfoFor /\ RetryFor' = RetryFor
           /\ BadRequestFor' = BadRequestFor /\ DetailsFor' = DetailsFor
<1>1. Open' = Open
  BY DEF Open, SelectInSeq
<1>2. Public' = Public
  BY <1>1 DEF Public
<1>3. CodeOf' = CodeOf
  BY DEF CodeOf
<1>4. OwnDelay' = OwnDelay
  BY <1>1 DEF OwnDelay
<1>5. Table' = Table
  BY DEF Table
<1>6. Delay' = Delay
  BY <1>3, <1>4, <1>5 DEF Delay
<1>7. Violations' = Violations
  BY <1>1 DEF Violations
<1>8. InfoFor' = InfoFor
  BY <1>3, <1>5 DEF InfoFor
<1>9. RetryFor' = RetryFor /\ BadRequestFor' = BadRequestFor
  BY <1>6, <1>7 DEF RetryFor, BadRequestFor
<1>10. DetailsFor' = DetailsFor
  BY <1>8, <1>9 DEF DetailsFor
<1> QED
  BY <1>2, <1>3, <1>5, <1>6, <1>8, <1>9, <1>10

\* The first of the values that is set is one of them.
LEMMA FirstSetIs ==
    ASSUME NEW S, NEW q \in Seq(S), NEW unset
    PROVE  \/ FirstSet(q, unset) = unset /\ \A i \in 1..Len(q) : q[i] = unset
           \/ \E i \in 1..Len(q) : q[i] # unset /\ FirstSet(q, unset) = q[i]
<1> DEFINE I == {i \in 1..Len(q) : q[i] # unset}
<1>1. CASE I = {}
  BY <1>1 DEF FirstSet, SelectInSeq
<1>2. CASE I # {}
  <2>1. Min(I) \in I
    BY <1>2, MinIsIn
  <2>2. SelectInSeq(q, LAMBDA v : v # unset) = Min(I)
    BY <1>2 DEF SelectInSeq
  <2>3. Min(I) # 0 /\ FirstSet(q, unset) = q[Min(I)]
    BY <2>1, <2>2 DEF FirstSet
  <2> QED
    BY <2>1, <2>3
<1> QED
  BY <1>1, <1>2

LEMMA OpenIsPart ==
    ASSUME layers \in Seq(Layer)
    PROVE  /\ Open \in Seq(Layer)
           /\ \A i \in 1..Len(Open) : i \in 1..Len(layers) /\ Open[i] = layers[i]
<1> DEFINE I == {i \in 1..Len(layers) : layers[i].barrier}
<1>1. CASE I = {}
  BY <1>1 DEF Open, SelectInSeq
<1>2. CASE I # {}
  <2>1. SelectInSeq(layers, LAMBDA x : x.barrier) = Min(I)
    BY <1>2 DEF SelectInSeq
  <2>2. I \subseteq 1..Len(layers) /\ 1..Len(layers) \subseteq Nat
    OBVIOUS
  <2> HIDE DEF I
  <2>3. PICK b : b = Min(I) /\ b \in 1..Len(layers)
    BY <1>2, <2>2, MinIsIn
  <2>4. b # 0 /\ Open = SubSeq(layers, 1, b)
    BY <2>1, <2>3 DEF Open
  <2>5. /\ SubSeq(layers, 1, b) \in Seq(Layer) /\ Len(SubSeq(layers, 1, b)) = b
        /\ \A i \in 1..b : SubSeq(layers, 1, b)[i] = layers[i]
    BY <2>3
  <2> QED
    BY <2>3, <2>4, <2>5
<1> QED
  BY <1>1, <1>2

\* An error is never OK.
LEMMA CodeOfIs ==
    ASSUME layers \in Seq(Layer)
    PROVE  /\ CodeOf \in Code \ {0}
           /\ \/ \A i \in 1..Len(layers) : layers[i].code = 0
              \/ \E i \in 1..Len(layers) : layers[i].code # 0 /\ CodeOf = layers[i].code
<1> DEFINE q == [i \in DOMAIN layers |-> layers[i].code]
<1>1. q \in Seq(Code \cup {0}) /\ Len(q) = Len(layers)
  <2>1. \A i \in 1..Len(layers) : layers[i] \in Layer /\ q[i] = layers[i].code
    OBVIOUS
  <2>2. \A x \in Layer : x.code \in Code \cup {0}
    BY DEF Layer
  <2>3. q = [i \in 1..Len(layers) |-> q[i]] /\ Len(layers) \in Nat
    OBVIOUS
  <2> HIDE DEF q
  <2>4. q \in [1..Len(layers) -> Code \cup {0}]
    BY <2>1, <2>2, <2>3
  <2> QED
    BY <2>3, <2>4
<1>2. \A i \in 1..Len(layers) : q[i] = layers[i].code
  OBVIOUS
<1>3. CodeOf = IF FirstSet(q, 0) = 0 THEN Unknown ELSE FirstSet(q, 0)
  BY DEF CodeOf
<1> HIDE DEF q
<1>4. Unknown \in Code \ {0}
  BY DEF Unknown
<1>5. \/ FirstSet(q, 0) = 0 /\ \A i \in 1..Len(q) : q[i] = 0
      \/ \E i \in 1..Len(q) : q[i] # 0 /\ FirstSet(q, 0) = q[i]
  BY <1>1, FirstSetIs
<1> QED
  BY <1>1, <1>2, <1>3, <1>4, <1>5

LEMMA PublicIs ==
    ASSUME layers \in Seq(Layer)
    PROVE  \/ Public = Absent
           \/ \E i \in 1..Len(layers) : /\ layers[i].public # Absent
                                        /\ Public = layers[i].public
<1> DEFINE q == [i \in DOMAIN Open |-> Open[i].public]
<1>1. /\ Open \in Seq(Layer)
      /\ \A i \in 1..Len(Open) : i \in 1..Len(layers) /\ Open[i] = layers[i]
  BY OpenIsPart
<1>2. \A i \in 1..Len(Open) : i \in 1..Len(layers) /\ q[i] = layers[i].public
  BY <1>1
<1>3. q \in Seq(Text \cup {Absent}) /\ Len(q) = Len(Open)
  <2>1. \A i \in 1..Len(layers) : layers[i] \in Layer
    OBVIOUS
  <2>2. \A x \in Layer : x.public \in Text \cup {Absent}
    BY DEF Layer
  <2>3. q = [i \in 1..Len(Open) |-> q[i]] /\ Len(Open) \in Nat
    BY <1>1
  <2> HIDE DEF q
  <2>4. q \in [1..Len(Open) -> Text \cup {Absent}]
    BY <1>2, <2>1, <2>2, <2>3
  <2> QED
    BY <2>3, <2>4
<1>4. Public = FirstSet(q, Absent)
  BY DEF Public
<1> HIDE DEF q
<1> QED
  BY <1>2, <1>3, <1>4, FirstSetIs

LEMMA OwnDelayIs ==
    ASSUME layers \in Seq(Layer)
    PROVE  /\ OwnDelay \in 0..MaxDuration
           /\ OwnDelay # 0 => \E i \in 1..Len(layers) : OwnDelay = layers[i].delay
<1> DEFINE q == [i \in DOMAIN Open |-> Open[i].delay]
<1>1. /\ Open \in Seq(Layer)
      /\ \A i \in 1..Len(Open) : i \in 1..Len(layers) /\ Open[i] = layers[i]
  BY OpenIsPart
<1>2. \A i \in 1..Len(Open) : i \in 1..Len(layers) /\ q[i] = layers[i].delay
  BY <1>1
<1>3. q \in Seq(0..MaxDuration) /\ Len(q) = Len(Open)
  <2>1. \A i \in 1..Len(layers) : layers[i] \in Layer
    OBVIOUS
  <2>2. \A x \in Layer : x.delay \in 0..MaxDuration
    BY DEF Layer
  <2>3. q = [i \in 1..Len(Open) |-> q[i]] /\ Len(Open) \in Nat
    BY <1>1
  <2> HIDE DEF q
  <2>4. q \in [1..Len(Open) -> 0..MaxDuration]
    BY <1>2, <2>1, <2>2, <2>3
  <2> QED
    BY <2>3, <2>4
<1>4. OwnDelay = FirstSet(q, 0)
  BY DEF OwnDelay
<1> HIDE DEF q
<1> QED
  BY <1>2, <1>3, <1>4, FirstSetIs

LEMMA TableIs ==
    ASSUME config \in [1..Final -> Configs], at \in 1..Final
    PROVE  Sound(Table)
BY DEF Table

LEMMA DelayIs ==
    ASSUME config \in [1..Final -> Configs], at \in 1..Final, layers \in Seq(Layer)
    PROVE  /\ Delay \in 0..MaxDuration
           /\ \/ \E i \in 1..Len(layers) : Delay = layers[i].delay /\ Delay # 0
              \/ Delay = RetryDelayOf(Table[CodeOf])
<1>1. CodeOf \in Code
  BY CodeOfIs
<1>2. /\ Table[CodeOf] \in CodeInfo \cup {Absent}
      /\ Table[CodeOf] # Absent => Table[CodeOf].retryDelay <= MaxDuration
  BY <1>1, TableIs DEF Sound, CodeMap
<1>3. RetryDelayOf(Table[CodeOf]) \in 0..MaxDuration
  BY <1>2 DEF RetryDelayOf, CodeInfo
<1>4. /\ OwnDelay \in 0..MaxDuration
      /\ OwnDelay # 0 => \E i \in 1..Len(layers) : OwnDelay = layers[i].delay
  BY OwnDelayIs
<1> QED
  BY <1>3, <1>4 DEF Delay

\* The loop that appends the violations of one layer after the other.
More(n, q) == IF n = 0 THEN <<>> ELSE q \o Open[n].violations

LEMMA ViolationsBuilt ==
    ASSUME Len(Open) \in Nat
    PROVE  \E f : /\ \A n \in 0..Len(Open) : f[n] = More(n, f[n - 1])
                  /\ Violations = f[Len(Open)]
<1> DEFINE N == Len(Open)
           Upto(n, f) == f = [i \in 0..n |-> More(i, f[i - 1])]
           T == {n \in 0..N : ~ \E f : Upto(n, f)}
<1>1. T = {}
  <2> SUFFICES ASSUME T # {} PROVE FALSE
    OBVIOUS
  <2>1. T \subseteq Nat
    OBVIOUS
  <2> HIDE DEF T
  <2>2. PICK m \in T : \A y \in T : m <= y
    BY <2>1, LeastNat
  <2> USE DEF T
  <2>3. CASE m = 0
    <3> DEFINE f == [i \in 0..0 |-> <<>>]
    <3>1. \A i \in 0..0 : More(i, f[i - 1]) = <<>>
      BY DEF More
    <3>2. Upto(0, f)
      BY <3>1
    <3> QED
      BY <2>2, <2>3, <3>2
  <2>4. CASE m # 0
    <3>1. m - 1 \in 0..N /\ m - 1 \notin T
      <4>1. m \in 0..N
        BY <2>2
      <4> HIDE DEF T
      <4> QED
        BY <2>2, <2>4, <4>1
    <3>2. PICK f : Upto(m - 1, f)
      BY <3>1
    <3> DEFINE g == [i \in 0..m |-> IF i = m THEN More(m, f[m - 1]) ELSE f[i]]
    <3>3. m \in Nat /\ \A i \in 0..m - 1 : f[i] = More(i, f[i - 1])
      BY <2>2, <3>2
    <3>4. ASSUME NEW i \in 0..m PROVE g[i] = More(i, g[i - 1])
      <4>1. CASE i = 0
        BY <2>4, <3>3, <4>1 DEF More
      <4>2. CASE i # 0
        <5>1. i - 1 \in 0..m /\ i - 1 # m /\ g[i - 1] = f[i - 1]
          BY <3>3, <4>2
        <5>2. g[i] = More(i, f[i - 1])
          BY <3>3
        <5> HIDE DEF g
        <5> QED
          BY <5>1, <5>2
      <4> QED
        BY <4>1, <4>2
    <3>5. g = [i \in 0..m |-> g[i]]
      OBVIOUS
    <3> HIDE DEF g
    <3>6. Upto(m, g)
      BY <3>4, <3>5
    <3> QED
      BY <2>2, <3>6
  <2> QED
    BY <2>3, <2>4
<1> DEFINE f == CHOOSE g : Upto(N, g)
<1>2. N \in 0..N
  OBVIOUS
<1>3. \E g : Upto(N, g)
  BY <1>1, <1>2
<1>4. Upto(N, f)
  BY <1>3, Zenon
<1>5. Violations = f[N]
  BY DEF Violations, More
<1> HIDE DEF f
<1>6. \A n \in 0..N : f[n] = More(n, f[n - 1])
  BY <1>4
<1> QED
  BY <1>5, <1>6

\* All text of the chain was set by the service that has it, and FromError has
\* set no delay.
Own == {t \in Text : t.from = at}
OwnLayer(x) ==
    /\ x.public = Absent \/ x.public \in Own
    /\ x.violations \in Seq(Own)
    /\ x.by \in {0, at} /\ (x.by = 0 => x.delay = 0)
OwnLayers == \A i \in 1..Len(layers) : OwnLayer(layers[i])

LEMMA ViolationsOwn ==
    ASSUME layers \in Seq(Layer), OwnLayers
    PROVE  Violations \in Seq(Own)
<1>1. /\ Open \in Seq(Layer)
      /\ \A i \in 1..Len(Open) : i \in 1..Len(layers) /\ Open[i] = layers[i]
  BY OpenIsPart
<1> DEFINE N == Len(Open)
<1>2. N \in Nat
  BY <1>1
<1>3. PICK f : /\ \A n \in 0..N : f[n] = More(n, f[n - 1])
               /\ Violations = f[N]
  BY <1>2, ViolationsBuilt
<1>4. \A i \in 1..N : Open[i].violations \in Seq(Own)
  BY <1>1 DEF OwnLayers, OwnLayer
<1> DEFINE T == {n \in 0..N : f[n] \notin Seq(Own)}
<1>5. T = {}
  <2> SUFFICES ASSUME T # {} PROVE FALSE
    OBVIOUS
  <2>1. T \subseteq Nat
    OBVIOUS
  <2> HIDE DEF T
  <2>2. PICK m \in T : \A y \in T : m <= y
    BY <2>1, LeastNat
  <2> USE DEF T
  <2>3. f[m] \notin Seq(Own)
    BY <2>2
  <2>4. CASE m = 0
    <3>1. f[0] = <<>>
      BY <1>2, <1>3 DEF More
    <3>2. <<>> \in Seq(Own)
      OBVIOUS
    <3> QED
      BY <2>4, <2>3, <3>1, <3>2
  <2>5. CASE m # 0
    <3>1. m \in 1..N /\ m - 1 \in 0..N /\ m - 1 \notin T
      BY <1>2, <2>2, <2>5
    <3>2. f[m] = f[m - 1] \o Open[m].violations
      BY <1>3, <2>2, <2>5 DEF More
    <3>3. f[m - 1] \in Seq(Own) /\ Open[m].violations \in Seq(Own)
      BY <1>4, <3>1
    <3>4. \A q, r : q \in Seq(Own) /\ r \in Seq(Own) => q \o r \in Seq(Own)
      BY ConcatProperties, Zenon
    <3> QED
      BY <2>3, <3>2, <3>3, <3>4
  <2> QED
    BY <2>4, <2>5
<1> QED
  BY <1>2, <1>3, <1>5

----------------------------------------------------------------------------
(* What is sent of it.                                                     *)

LEMMA PartsAreOne == One(InfoFor) /\ One(RetryFor) /\ One(BadRequestFor)
BY DEF One, InfoFor, RetryFor, BadRequestFor

\* A status that may be on its way.
Carried(st) ==
    /\ \E S : st \in [grpc: Nat \ {0}, message: Text, details: Seq(S)]
    /\ st.grpc <= 16 => st.grpc \in Code

\* One detail of those left is tried.
LEMMA AttachOneTries ==
    ASSUME AttachOne, Carried(status), NEW S, NEW x \in Seq(S), NEW y \in Seq(S),
           One(x), x # <<>>, todo = x \o y
    PROVE  /\ todo' = y
           /\ Carried(status')
           /\ status'.details = status.details \o Sendable(x)
           /\ status'.grpc = status.grpc /\ status'.message = status.message
<1>1. PICK d : x = <<d>>
  BY DEF One
<1>2. d \in S
  <2>1. x[1] = d /\ 1 \in DOMAIN x
    BY <1>1
  <2> QED
    BY <2>1
<1>3. todo[1] = d /\ Tail(todo) = y
  <2>1. todo \in Seq(S) /\ Len(todo) = Len(y) + 1 /\ Len(y) \in Nat /\ todo[1] = d
    BY <1>1, <1>2
  <2>2. \A i \in 1..Len(y) : todo[i + 1] = y[i]
    BY <1>1, <1>2
  <2>3. Tail(todo) \in Seq(S) /\ Len(Tail(todo)) = Len(y)
    BY <2>1
  <2>4. \A i \in 1..Len(y) : Tail(todo)[i] = y[i]
    BY <2>1, <2>2
  <2> QED
    BY <2>1, <2>3, <2>4, SeqEqual
<1>4. Sendable(x) = IF Marshals(d) THEN <<d>> ELSE <<>>
  <2>1. DOMAIN x = {1} /\ x[1] = d
    BY <1>1
  <2> QED
    BY <1>1, <2>1 DEF Sendable
<1>5. PICK T : status \in [grpc: Nat \ {0}, message: Text, details: Seq(T)]
  BY DEF Carried
<1>6. Accepts(status, <<d>>) <=> Marshals(d)
  BY <1>5 DEF Accepts
<1>7. CASE Marshals(d)
  <2>1. status' = [status EXCEPT !.details = status.details \o <<d>>]
    BY <1>3, <1>6, <1>7 DEF AttachOne, Attach
  <2>2. PICK q : q = status.details /\ q \in Seq(T)
    BY <1>5
  <2>3. q \o <<d>> \in Seq(T \cup {d})
    BY <2>2
  <2>4. status' \in [grpc: Nat \ {0}, message: Text, details: Seq(T \cup {d})]
    BY <1>5, <2>1, <2>2, <2>3
  <2>5. /\ status'.details = q \o <<d>>
        /\ status'.grpc = status.grpc /\ status'.message = status.message
    BY <1>5, <2>1, <2>2
  <2> QED
    BY <1>3, <1>4, <1>7, <2>2, <2>4, <2>5 DEF Carried, AttachOne
<1>8. CASE ~Marshals(d)
  <2>1. status' = status
    BY <1>3, <1>6, <1>8 DEF AttachOne
  <2>2. status.details \o <<>> = status.details
    BY <1>5, ConcatEmptySeq
  <2> QED
    BY <1>3, <1>4, <1>8, <2>1, <2>2 DEF AttachOne
<1> QED
  BY <1>7, <1>8

----------------------------------------------------------------------------
(* The invariant.                                                          *)

Sending == {"attach", "one by one", "sent"}

TypeInv ==
    /\ config \in [1..Final -> Configs]
    /\ at \in 1..Final
    /\ pc \in Sending \cup {"idle", "handling"}
    /\ layers \in Seq(Layer)
    /\ cause = Absent \/ Carried(cause)
    /\ pc \in Sending => at < Final /\ Carried(status)
    /\ pc = "idle" => at = 1 /\ cause = Absent /\ sent = Absent

\* The status being made, but for its details, and what its error was.
Made ==
    pc \in Sending /\ sent # Absent =>
        /\ status.grpc = GRPCCodeOf(Table[CodeOf])
        /\ status.message = IF Public = Absent THEN CodeName ELSE Public
        /\ sent = [code |-> CodeOf, entry |-> Table[CodeOf], delay |-> Delay]

\* The details that have been tried, and those that are left.
Attaching ==
    /\ pc = "attach" => sent # Absent /\ todo = DetailsFor /\ status.details = <<>>
    /\ pc = "one by one" =>
          /\ sent # Absent
          /\ \/ todo = DetailsFor /\ status.details = <<>>
             \/ todo = RetryFor \o BadRequestFor /\ status.details = Sendable(InfoFor)
             \/ /\ todo = BadRequestFor
                /\ status.details = Sendable(InfoFor) \o Sendable(RetryFor)

\* Status st says what there is to say of an error e from this domain.
Says(st, e, domain) ==
    /\ e.entry \in CodeInfo \cup {Absent} /\ e.delay \in 0..MaxDuration
    /\ st.grpc = GRPCCodeOf(e.entry)
    /\ \A d \in Range(st.details) :
          /\ d.kind = "ErrorInfo" => e.entry # Absent /\ d = Info(e.entry.name, domain)
          /\ d.kind = "RetryInfo" => e.delay # 0 /\ d = Retry(e.delay)
    /\ e.entry # Absent /\ domain \in ValidDomain =>
          Info(e.entry.name, domain) \in Range(st.details)
    /\ e.delay # 0 => Retry(e.delay) \in Range(st.details)

\* What a service has received.
Handled ==
    pc = "handling" /\ sent # Absent =>
        /\ at > 1
        /\ cause = Delivered(status) /\ Carried(status) /\ cause # Absent
        /\ Says(status, sent, config[at - 1].domain)

IInv == TypeInv /\ OwnLayers /\ Made /\ Attaching /\ DetailsIsolated /\ Handled

\* The details that were sent are those of the error that can be marshalled.
LEMMA SentDetails ==
    ASSUME IInv, pc = "sent", sent # Absent
    PROVE  \A d : d \in Range(status.details) <=>
              Marshals(d) /\ (InfoFor = <<d>> \/ RetryFor = <<d>> \/ BadRequestFor = <<d>>)
<1>1. status.details = Sendable(InfoFor) \o Sendable(RetryFor) \o Sendable(BadRequestFor)
  BY DEF IInv, DetailsIsolated
<1>2. One(Sendable(InfoFor)) /\ One(Sendable(RetryFor)) /\ One(Sendable(BadRequestFor))
  BY PartsAreOne, OneIs
<1>3. \A d : d \in Range(status.details) <=>
         \/ Sendable(InfoFor) = <<d>>
         \/ Sendable(RetryFor) = <<d>>
         \/ Sendable(BadRequestFor) = <<d>>
  BY <1>1, <1>2, Joined
<1>4. \A d : /\ Sendable(InfoFor) = <<d>> <=> InfoFor = <<d>> /\ Marshals(d)
             /\ Sendable(RetryFor) = <<d>> <=> RetryFor = <<d>> /\ Marshals(d)
             /\ Sendable(BadRequestFor) = <<d>> <=> BadRequestFor = <<d>> /\ Marshals(d)
  BY PartsAreOne, OneIs
<1> QED
  BY <1>3, <1>4

LEMMA SentSays ==
    ASSUME IInv, pc = "sent", sent # Absent
    PROVE  Says(status, sent, config[at].domain)
<1>1. /\ config \in [1..Final -> Configs] /\ at \in 1..Final /\ layers \in Seq(Layer)
      /\ status.grpc = GRPCCodeOf(sent.entry)
      /\ sent.entry = Table[CodeOf] /\ sent.delay = Delay
  BY DEF IInv, TypeInv, Made, Sending
<1>2. sent.entry \in CodeInfo \cup {Absent}
  BY <1>1, CodeOfIs, TableIs DEF Sound, CodeMap
<1>3. sent.delay \in 0..MaxDuration
  BY <1>1, DelayIs
<1> DEFINE domain == config[at].domain
           A == Range(status.details)
<1>4. /\ InfoFor = IF domain = Absent \/ sent.entry = Absent THEN <<>>
                   ELSE <<Info(sent.entry.name, domain)>>
      /\ RetryFor = IF sent.delay = 0 THEN <<>> ELSE <<Retry(sent.delay)>>
      /\ BadRequestFor = IF Violations = <<>> THEN <<>> ELSE <<BadRequest(Violations)>>
  BY <1>1 DEF InfoFor, RetryFor, BadRequestFor
<1>5. \A d : d \in A <=>
         Marshals(d) /\ (InfoFor = <<d>> \/ RetryFor = <<d>> \/ BadRequestFor = <<d>>)
  BY SentDetails
<1> HIDE DEF A, domain
<1>6. \A d, e : <<d>> # <<>> /\ (<<d>> = <<e>> => d = e)
  OBVIOUS
<1>7. /\ \A r, x : Info(r, x).kind = "ErrorInfo" /\ Info(r, x).domain = x
      /\ \A n : Retry(n).kind = "RetryInfo"
      /\ \A t : BadRequest(t).kind = "BadRequest"
  BY DEF Info, Retry, BadRequest
<1>8. /\ \A r, x : Marshals(Info(r, x)) <=> x \in ValidDomain
      /\ \A n : Marshals(Retry(n))
  BY DEF Marshals, Info, Retry
<1>9. \A d \in A : d.kind = "ErrorInfo" =>
         sent.entry # Absent /\ d = Info(sent.entry.name, domain)
  BY <1>4, <1>5, <1>6, <1>7
<1>10. \A d \in A : d.kind = "RetryInfo" => sent.delay # 0 /\ d = Retry(sent.delay)
  BY <1>4, <1>5, <1>6, <1>7
<1>11. sent.entry # Absent /\ domain \in ValidDomain => Info(sent.entry.name, domain) \in A
  <2>1. domain \in ValidDomain => domain # Absent
    OBVIOUS
  <2> QED
    BY <1>4, <1>5, <1>8, <2>1
<1>12. sent.delay # 0 => Retry(sent.delay) \in A
  BY <1>4, <1>5, <1>8
<1> QED
  BY <1>1, <1>2, <1>3, <1>9, <1>10, <1>11, <1>12 DEF Says, A, domain

----------------------------------------------------------------------------
(* Every step keeps it.                                                    *)

LEMMA InitIInv == Init => IInv
<1> SUFFICES ASSUME Init PROVE IInv
  OBVIOUS
<1>1. TypeInv
  BY DEF Init, TypeInv, Sending
<1>2. OwnLayers
  BY DEF Init, OwnLayers
<1> QED
  BY <1>1, <1>2 DEF Init, IInv, Made, Attaching, DetailsIsolated, Handled, Sending

\* What a service adds is its own.
LEMMA AddedIsOwn ==
    ASSUME IInv, NEW x \in Added(at)
    PROVE  /\ x \in Layer
           /\ OwnLayer(x)
<1>1. /\ at \in 1..Final /\ x \in Layer /\ x.by = at /\ at # 0
      /\ x.public = Absent \/ x.public.from = at
      /\ \A i \in DOMAIN x.violations : x.violations[i].from = at
  BY DEF IInv, TypeInv
<1>2. x.public \in Text \cup {Absent} /\ x.violations \in Seq(Text)
  BY <1>1 DEF Layer
<1>3. \A i \in 1..Len(x.violations) : x.violations[i] \in Own
  BY <1>1, <1>2 DEF Own
<1>4. x.violations \in Seq(Own)
  BY <1>2, <1>3
<1> QED
  BY <1>1, <1>2, <1>4 DEF Own, OwnLayer

\* A service puts a layer on the chain.
LEMMA LayerKeeps ==
    ASSUME IInv, pc \in {"idle", "handling"}, pc' = "handling",
           NEW x \in Layer, OwnLayer(x),
           layers' = <<x>> \o layers \/ layers' = <<x>>,
           UNCHANGED <<config, at, cause, status, sent>>
    PROVE  IInv'
<1>1. layers \in Seq(Layer)
  BY DEF IInv, TypeInv
<1>2. /\ layers' \in Seq(Layer)
      /\ \A i \in 1..Len(layers') : \/ layers'[i] = x
                                    \/ \E j \in 1..Len(layers) : layers'[i] = layers[j]
  <2>1. CASE layers' = <<x>>
    BY <2>1
  <2>2. CASE layers' = <<x>> \o layers
    <3>1. <<x>> \in Seq(Layer) /\ Len(<<x>>) = 1 /\ <<x>>[1] = x
      OBVIOUS
    <3>2. PICK q : q = <<x>>
      OBVIOUS
    <3>3. /\ q \o layers \in Seq(Layer)
          /\ Len(q \o layers) = 1 + Len(layers)
          /\ \A i \in 1..1 + Len(layers) :
                (q \o layers)[i] = IF i <= 1 THEN x ELSE layers[i - 1]
      BY <1>1, <3>1, <3>2
    <3>4. \A i \in 1..1 + Len(layers) : i <= 1 \/ i - 1 \in 1..Len(layers)
      BY <1>1
    <3> QED
      BY <2>2, <3>2, <3>3, <3>4
  <2> QED
    BY <2>1, <2>2
<1>3. Own' = Own
  BY DEF Own
<1>4. OwnLayers'
  <2>1. \A i \in 1..Len(layers') : OwnLayer(layers'[i])
    BY <1>2 DEF IInv, OwnLayers
  <2> SUFFICES ASSUME NEW i \in 1..Len(layers') PROVE OwnLayer(layers[i])'
    BY DEF OwnLayers
  <2>2. PICK y : y = layers'[i] /\ OwnLayer(y)
    BY <2>1
  <2> QED
    BY <1>3, <2>2 DEF OwnLayer
<1>5. TypeInv'
  BY <1>2 DEF IInv, TypeInv, Sending
<1>6. Handled'
  BY DEF IInv, TypeInv, Handled
<1> QED
  BY <1>4, <1>5, <1>6 DEF IInv, Made, Attaching, DetailsIsolated, Sending

\* The code of a status is its number, or is named by a detail.
LEMMA CodeFromStatusIs ==
    ASSUME NEW st, Carried(st)
    PROVE  \/ /\ CodeFromStatus(st) = WireCode(st)
              /\ \A d \in Range(st.details) : Named(st, d) = {}
           \/ \E d \in Range(st.details) : CodeFromStatus(st) \in Named(st, d)
<1>1. PICK S : st \in [grpc: Nat \ {0}, message: Text, details: Seq(S)]
  BY DEF Carried
<1> DEFINE q == st.details
           I == {i \in 1..Len(q) : Named(st, q[i]) # {}}
<1>2. Range(q) = {q[i] : i \in 1..Len(q)}
  BY <1>1, RangeEquality
<1>3. CASE I = {}
  <2>1. CodeFromStatus(st) = WireCode(st)
    BY <1>3 DEF CodeFromStatus, SelectInSeq
  <2>2. \A i \in 1..Len(q) : Named(st, q[i]) = {}
    BY <1>3
  <2> HIDE DEF q, I
  <2>3. \A d \in Range(q) : Named(st, d) = {}
    BY <1>2, <2>2
  <2> QED
    BY <2>1, <2>3 DEF q
<1>4. CASE I # {}
  <2>1. SelectInSeq(q, LAMBDA d : Named(st, d) # {}) = Min(I)
    BY <1>4 DEF SelectInSeq
  <2>2. Min(I) \in I
    <3>1. I \subseteq Nat
      OBVIOUS
    <3> HIDE DEF I
    <3> QED
      BY <1>4, <3>1, MinIsIn
  <2>3. PICK i \in 1..Len(q) : i = Min(I) /\ Named(st, q[i]) # {}
    BY <2>2
  <2>4. i # 0 /\ SelectInSeq(q, LAMBDA d : Named(st, d) # {}) = i
    BY <2>1, <2>3
  <2> HIDE DEF I
  <2>5. CodeFromStatus(st) = CHOOSE c \in Named(st, q[i]) : TRUE
    BY <2>4 DEF CodeFromStatus
  <2>6. PICK d \in Range(q) : d = q[i]
    BY <1>2
  <2> QED
    BY <2>3, <2>5, <2>6
<1> QED
  BY <1>3, <1>4

\* Nothing is kept of a status but the code of an error, which is not OK, and
\* this service's registry maps it back to the status's number.
LEMMA ReceivedIs ==
    ASSUME IInv, NEW st, Carried(st)
    PROVE  /\ Received(st) \in Layer /\ OwnLayer(Received(st))
           /\ Received(st).code = CodeFromStatus(st)
           /\ Received(st).code \in Code \ {0}
           /\ GRPCCodeOf(Table[Received(st).code]) = WireCode(st)
<1> DEFINE c == CodeFromStatus(st)
<1>1. PICK t : t = Table /\ Sound(t)
  BY TableIs DEF IInv, TypeInv
<1>2. PICK S : st \in [grpc: Nat \ {0}, message: Text, details: Seq(S)]
  BY DEF Carried
<1>3. WireCode(st) \in (Code \cap 0..16) \ {0}
  BY <1>2 DEF Carried, WireCode, Unknown
<1>4. c \in Code \ {0} /\ GRPCCodeOf(t[c]) = WireCode(st)
  <2>1. CASE c = WireCode(st)
    BY <1>1, <1>3, <2>1 DEF Sound, GRPCCodeOf
  <2>2. ASSUME NEW d, c \in Named(st, d)
        PROVE  c \in Code \ {0} /\ GRPCCodeOf(t[c]) = WireCode(st)
    <3> HIDE DEF c
    <3>1. c \in Code /\ t[c] # Absent /\ t[c].grpcCode = st.grpc
      BY <1>1, <2>2 DEF Named
    <3>2. t[c].grpcCode \in 0..16 /\ (c = 0 => t[c].grpcCode = 0)
      BY <1>1, <3>1 DEF Sound
    <3> QED
      BY <1>2, <3>1, <3>2 DEF GRPCCodeOf, WireCode
  <2> QED
    BY <2>1, <2>2, CodeFromStatusIs
<1>5. Received(st) \in Layer /\ OwnLayer(Received(st)) /\ Received(st).code = c
  BY <1>4 DEF Received, Layer, OwnLayer
<1> QED
  BY <1>1, <1>4, <1>5

\* A status is being made of the error, which stays as it is.
LEMMA StatusKeeps ==
    ASSUME IInv, UNCHANGED <<config, at, layers, cause>>,
           pc' \in Sending, at < Final, Carried(status'), Made', Attaching', DetailsIsolated'
    PROVE  IInv'
<1>1. TypeInv'
  BY DEF IInv, TypeInv, Sending
<1>2. OwnLayers'
  BY DEF IInv, OwnLayers, OwnLayer, Own
<1> QED
  BY <1>1, <1>2 DEF IInv, Handled, Sending

LEMMA ForeignKeeps ==
    ASSUME IInv, ForeignStatus
    PROVE  IInv'
<1>1. at = 1 /\ sent = Absent /\ 1 < Final
  BY DEF IInv, TypeInv, ForeignStatus
<1>2. PICK st \in Foreign : status' = st
  BY DEF ForeignStatus
<1>3. /\ st \in [grpc: Nat \ {0}, message: Text,
                 details: Seq({st.details[i] : i \in DOMAIN st.details})]
      /\ st.grpc <= 16 => st.grpc \in Code
  OBVIOUS
<1>4. Carried(status')
  BY <1>2, <1>3 DEF Carried
<1>5. Made' /\ Attaching' /\ DetailsIsolated'
  BY <1>1 DEF ForeignStatus, Made, Attaching, DetailsIsolated
<1> QED
  BY <1>1, <1>4, <1>5, StatusKeeps DEF ForeignStatus, Sending

LEMMA ToStatusKeeps ==
    ASSUME IInv, ToStatus
    PROVE  IInv'
<1>1. /\ config \in [1..Final -> Configs] /\ at \in 1..Final /\ layers \in Seq(Layer)
      /\ at < Final /\ UNCHANGED <<config, at, layers, cause>>
  BY DEF IInv, TypeInv, ToStatus
<1>2. CodeOf \in Code \ {0} /\ Sound(Table)
  BY <1>1, CodeOfIs, TableIs
<1>3. GRPCCodeOf(Table[CodeOf]) \in (Code \cap 0..16) \ {0}
  BY <1>2 DEF Sound, GRPCCodeOf, Unknown
<1>4. (IF Public = Absent THEN CodeName ELSE Public) \in Text
  <2>1. \A i \in 1..Len(layers) : layers[i].public \in Text \cup {Absent}
    <3>1. \A i \in 1..Len(layers) : layers[i] \in Layer
      BY <1>1
    <3> QED
      BY <3>1 DEF Layer
  <2>2. CodeName \in Text
    BY DEF CodeName, Text
  <2> QED
    BY <1>1, <2>1, <2>2, PublicIs
<1>5. status' = [grpc |-> GRPCCodeOf(Table[CodeOf]),
                 message |-> IF Public = Absent THEN CodeName ELSE Public,
                 details |-> <<>>]
  BY DEF ToStatus
<1>6. Carried(status')
  <2>1. status' \in [grpc: Nat \ {0}, message: Text, details: Seq({})]
    BY <1>3, <1>4, <1>5
  <2> QED
    BY <1>3, <1>5, <2>1 DEF Carried
<1>7. /\ CodeOf' = CodeOf /\ Table' = Table /\ Public' = Public /\ Delay' = Delay
      /\ InfoFor' = InfoFor /\ RetryFor' = RetryFor
      /\ BadRequestFor' = BadRequestFor /\ DetailsFor' = DetailsFor
  BY <1>1, SameError
<1>8. Made'
  BY <1>5, <1>7 DEF ToStatus, Made
<1>9. sent' # Absent
  <2>1. Table[CodeOf] \in CodeInfo \cup {Absent} /\ Delay \in 0..MaxDuration
    BY <1>1, <1>2, DelayIs DEF Sound, CodeMap
  <2>2. sent' \in Origin
    BY <1>2, <2>1 DEF ToStatus, Origin
  <2> QED
    BY <2>2
<1>10. CASE DetailsFor = <<>>
  <2>1. InfoFor = <<>> /\ RetryFor = <<>> /\ BadRequestFor = <<>>
    BY <1>10, PartsAreOne, Joined DEF DetailsFor
  <2>2. Sendable(<<>>) = <<>> /\ <<>> \o <<>> = <<>>
    BY DEF Sendable
  <2>3. pc' = "sent" /\ status'.details = <<>>
    BY <1>5, <1>10 DEF ToStatus
  <2>4. DetailsIsolated' /\ Attaching'
    BY <1>7, <2>1, <2>2, <2>3 DEF DetailsIsolated, Attaching
  <2> QED
    BY <1>1, <1>6, <1>8, <2>3, <2>4, StatusKeeps DEF Sending
<1>11. CASE DetailsFor # <<>>
  <2>1. pc' = "attach" /\ todo' = DetailsFor /\ status'.details = <<>>
    BY <1>5, <1>11 DEF ToStatus
  <2>2. DetailsIsolated' /\ Attaching'
    BY <1>7, <1>9, <2>1 DEF DetailsIsolated, Attaching
  <2> QED
    BY <1>1, <1>6, <1>8, <2>1, <2>2, StatusKeeps DEF Sending
<1> QED
  BY <1>10, <1>11

LEMMA AttachAllKeeps ==
    ASSUME IInv, AttachAll
    PROVE  IInv'
<1>1. /\ at < Final /\ UNCHANGED <<config, at, layers, cause, sent>>
      /\ sent # Absent /\ todo = DetailsFor /\ status.details = <<>> /\ Carried(status)
  BY DEF IInv, TypeInv, Attaching, AttachAll, Sending
<1>2. /\ CodeOf' = CodeOf /\ Table' = Table /\ Public' = Public /\ Delay' = Delay
      /\ InfoFor' = InfoFor /\ RetryFor' = RetryFor
      /\ BadRequestFor' = BadRequestFor /\ DetailsFor' = DetailsFor
  BY <1>1, SameError
<1>3. PICK S : status \in [grpc: Nat \ {0}, message: Text, details: Seq(S)]
  BY <1>1 DEF Carried
<1>4. CASE Accepts(status, todo)
  <2>1. status' = [status EXCEPT !.details = status.details \o todo] /\ pc' = "sent"
    BY <1>4 DEF AttachAll, Attach
  <2>2. PICK T : /\ InfoFor \in Seq(T) /\ RetryFor \in Seq(T) /\ BadRequestFor \in Seq(T)
                 /\ DetailsFor \in Seq(T)
    <3>1. One(InfoFor) /\ One(RetryFor) /\ One(BadRequestFor)
      BY PartsAreOne
    <3>2. PICK x, y, z : x = InfoFor /\ y = RetryFor /\ z = BadRequestFor
      OBVIOUS
    <3>3. One(x) /\ One(y) /\ One(z)
      BY <3>1, <3>2
    <3>4. PICK T : x \in Seq(T) /\ y \in Seq(T) /\ z \in Seq(T) /\ x \o y \o z \in Seq(T)
      BY <3>3, JoinedSeq
    <3>5. DetailsFor = x \o y \o z
      BY <3>2 DEF DetailsFor
    <3> QED
      BY <3>2, <3>4, <3>5
  <2>3. <<>> \o DetailsFor = DetailsFor
    BY <2>2, ConcatEmptySeq
  <2>4. /\ status'.details = DetailsFor
        /\ status'.grpc = status.grpc /\ status'.message = status.message
        /\ status' \in [grpc: Nat \ {0}, message: Text, details: Seq(T)]
    <3>1. status' = [status EXCEPT !.details = DetailsFor]
      BY <1>1, <2>1, <2>3
    <3> QED
      BY <1>3, <2>2, <3>1
  <2>5. Carried(status') /\ Made'
    BY <1>1, <1>2, <2>1, <2>4 DEF Carried, IInv, Made, AttachAll, Sending
  <2>6. \A d \in Range(DetailsFor) : Marshals(d)
    BY <1>1, <1>4 DEF Accepts, Range
  <2>7. ASSUME NEW x, x \in {InfoFor, RetryFor, BadRequestFor}
        PROVE  Sendable(x) = x
    <3>1. One(x)
      BY <2>7, PartsAreOne
    <3>2. CASE x = <<>>
      BY <3>2 DEF Sendable
    <3>3. ASSUME NEW d, x = <<d>> PROVE Sendable(x) = x
      <4>1. d \in Range(DetailsFor)
        BY <2>7, <3>3, PartsAreOne, Joined DEF DetailsFor
      <4> QED
        BY <2>6, <3>1, <3>3, <4>1, OneIs
    <3> QED
      BY <3>1, <3>2, <3>3 DEF One
  <2>8. DetailsIsolated' /\ Attaching'
    BY <1>2, <2>1, <2>4, <2>7 DEF DetailsIsolated, Attaching, DetailsFor
  <2> QED
    BY <1>1, <2>1, <2>5, <2>8, StatusKeeps DEF Sending
<1>5. CASE ~Accepts(status, todo)
  <2>1. pc' = "one by one" /\ UNCHANGED <<status, todo>>
    BY <1>5 DEF AttachAll
  <2>2. Made' /\ Attaching' /\ DetailsIsolated'
    BY <1>1, <1>2, <2>1 DEF IInv, Made, Attaching, DetailsIsolated, AttachAll, Sending
  <2> QED
    BY <1>1, <2>1, <2>2, StatusKeeps DEF Sending
<1> QED
  BY <1>4, <1>5

LEMMA AttachOneKeeps ==
    ASSUME IInv, AttachOne
    PROVE  IInv'
<1> DEFINE x == InfoFor
           y == RetryFor
           z == BadRequestFor
<1>1. /\ at < Final /\ UNCHANGED <<config, at, layers, cause, sent>>
      /\ sent # Absent /\ Carried(status) /\ todo # <<>>
      /\ pc = "one by one" /\ pc' = IF todo' = <<>> THEN "sent" ELSE pc
      /\ \/ todo = x \o y \o z /\ status.details = <<>>
         \/ todo = y \o z /\ status.details = Sendable(x)
         \/ todo = z /\ status.details = Sendable(x) \o Sendable(y)
  BY DEF IInv, TypeInv, Attaching, AttachOne, Sending, DetailsFor
<1>2. /\ CodeOf' = CodeOf /\ Table' = Table /\ Public' = Public /\ Delay' = Delay
      /\ InfoFor' = x /\ RetryFor' = y /\ BadRequestFor' = z /\ DetailsFor' = DetailsFor
  BY <1>1, SameError
<1>3. One(x) /\ One(y) /\ One(z)
  BY PartsAreOne
<1> HIDE DEF x, y, z
<1>4. PICK S : x \in Seq(S) /\ y \in Seq(S) /\ z \in Seq(S) /\ y \o z \in Seq(S)
  BY <1>3, Joined
<1>5. x \o y \o z = x \o (y \o z)
  BY <1>3, Joined
<1>6. /\ <<>> \o y = y /\ <<>> \o z = z /\ y \o <<>> = y /\ z \o <<>> = z
      /\ <<>> \o (y \o z) = y \o z
  BY <1>4, ConcatEmptySeq
<1>7. Sendable(<<>>) = <<>>
  BY DEF Sendable
<1>8. /\ Sendable(x) \in Seq(S) /\ Sendable(y) \in Seq(S) /\ Sendable(z) \in Seq(S)
      /\ Sendable(x) \o Sendable(y) \in Seq(S)
  <2>1. Sendable(x) \in Seq(S) /\ Sendable(y) \in Seq(S) /\ Sendable(z) \in Seq(S)
    BY <1>4 DEF Sendable
  <2> QED
    BY <2>1, ConcatProperties
<1>9. /\ Sendable(x) \o <<>> = Sendable(x) /\ <<>> \o Sendable(x) = Sendable(x)
      /\ Sendable(x) \o Sendable(y) \o <<>> = Sendable(x) \o Sendable(y)
  BY <1>8, ConcatEmptySeq
\* What is left when the details before it have been tried.
<1> DEFINE Tried(q, left) ==
              \/ left = y \o z /\ q = Sendable(x)
              \/ left = z /\ q = Sendable(x) \o Sendable(y)
              \/ left = <<>> /\ q = Sendable(x) \o Sendable(y) \o Sendable(z)
<1>10. /\ Carried(status') /\ status'.grpc = status.grpc /\ status'.message = status.message
       /\ Tried(status'.details, todo')
  <2>1. CASE z # <<>> /\ todo = z /\ status.details = Sendable(x) \o Sendable(y)
    <3>1. todo = z \o <<>> /\ <<>> \in Seq(S)
      BY <1>6, <2>1
    <3> QED
      BY <1>1, <1>3, <1>4, <2>1, <3>1, AttachOneTries
  <2>2. CASE y # <<>> /\ todo = y \o z /\ status.details = Sendable(x)
    BY <1>1, <1>3, <1>4, <2>2, AttachOneTries
  <2>3. CASE x # <<>> /\ todo = x \o (y \o z) /\ status.details = <<>>
    BY <1>1, <1>3, <1>4, <1>9, <2>3, AttachOneTries
  <2>4. CASE y = <<>> /\ todo = y \o z /\ status.details = Sendable(x)
    <3>1. todo = z /\ status.details = Sendable(x) \o Sendable(y)
      BY <1>6, <1>7, <1>9, <2>4
    <3> QED
      BY <1>1, <2>1, <3>1
  <2>5. CASE x = <<>> /\ todo = x \o (y \o z) /\ status.details = <<>>
    <3>1. todo = y \o z /\ status.details = Sendable(x)
      BY <1>6, <1>7, <2>5
    <3> QED
      BY <2>2, <2>4, <3>1
  <2> QED
    BY <1>1, <1>5, <2>1, <2>2, <2>3, <2>4, <2>5
<1>11. Made'
  BY <1>1, <1>2, <1>10 DEF IInv, Made, Sending
<1>12. CASE todo' = <<>>
  <2>1. status'.details = Sendable(x) \o Sendable(y) \o Sendable(z)
    <3>1. CASE <<>> = y \o z /\ status'.details = Sendable(x)
      <4>1. y = <<>> /\ z = <<>>
        <5>1. \A q, r \in Seq(S) : q \o r = <<>> => q = <<>> /\ r = <<>>
          BY ConcatEqualIffEmpty
        <5> QED
          BY <1>4, <3>1, <5>1
      <4>2. Sendable(y) = <<>> /\ Sendable(z) = <<>>
        BY <1>7, <4>1
      <4>3. Sendable(x) \o <<>> \o <<>> = Sendable(x)
        BY <1>9
      <4> QED
        BY <3>1, <4>2, <4>3
    <3>2. CASE <<>> = z /\ status'.details = Sendable(x) \o Sendable(y)
      BY <1>7, <1>9, <3>2
    <3> QED
      BY <1>10, <1>12, <3>1, <3>2
  <2>2. pc' = "sent"
    BY <1>1, <1>12
  <2>3. DetailsIsolated' /\ Attaching'
    BY <1>2, <2>1, <2>2 DEF DetailsIsolated, Attaching
  <2> QED
    BY <1>1, <1>10, <1>11, <2>2, <2>3, StatusKeeps DEF Sending
<1>13. CASE todo' # <<>>
  <2>1. pc' = "one by one"
    BY <1>1, <1>13
  <2>2. DetailsIsolated' /\ Attaching'
    BY <1>1, <1>2, <1>10, <1>13, <2>1 DEF DetailsIsolated, Attaching
  <2> QED
    BY <1>1, <1>10, <1>11, <2>1, <2>2, StatusKeeps DEF Sending
<1> QED
  BY <1>12, <1>13

LEMMA DeliveredIs ==
    ASSUME NEW st, Carried(st)
    PROVE  /\ Carried(Delivered(st))
           /\ Delivered(st).grpc = st.grpc
           /\ Delivered(st).details = IF st.message.utf8 THEN st.details ELSE <<>>
<1>1. PICK S : st \in [grpc: Nat \ {0}, message: Text, details: Seq(S)]
  BY DEF Carried
<1>2. CASE st.message.utf8
  BY <1>2 DEF Delivered
<1>3. CASE ~st.message.utf8
  <2>1. Delivered(st) = [st EXCEPT !.details = <<>>]
    BY <1>3 DEF Delivered
  <2>2. <<>> \in Seq(S)
    OBVIOUS
  <2>3. /\ Delivered(st) \in [grpc: Nat \ {0}, message: Text, details: Seq(S)]
        /\ Delivered(st).grpc = st.grpc /\ Delivered(st).details = <<>>
    BY <1>1, <2>1, <2>2
  <2> QED
    BY <1>3, <2>3 DEF Carried
<1> QED
  BY <1>2, <1>3

LEMMA SentIsStatus ==
    ASSUME IInv, pc = "sent", sent # Absent
    PROVE  Delivered(status) # Absent
<1>1. /\ config \in [1..Final -> Configs] /\ at \in 1..Final /\ layers \in Seq(Layer)
      /\ Carried(status)
  BY DEF IInv, TypeInv, Sending
<1>2. PICK S : status \in [grpc: Nat \ {0}, message: Text, details: Seq(S)]
  BY <1>1 DEF Carried
<1>3. ASSUME NEW d \in Range(status.details) PROVE d \in Detail
  <2>1. InfoFor = <<d>> \/ RetryFor = <<d>> \/ BadRequestFor = <<d>>
    BY SentDetails
  <2>2. \A a, b : <<a>> # <<>> /\ (<<a>> = <<b>> => a = b)
    OBVIOUS
  <2>3. CASE InfoFor = <<d>>
    <3>1. d = Info(Table[CodeOf].name, config[at].domain) /\ Table[CodeOf] # Absent
      BY <2>2, <2>3 DEF InfoFor
    <3>2. Table[CodeOf] \in CodeInfo
      <4>1. Table \in CodeMap /\ CodeOf \in Code
        BY <1>1, CodeOfIs, TableIs DEF Sound
      <4> QED
        BY <3>1, <4>1 DEF CodeMap
    <3>3. Table[CodeOf].name \in Name
      BY <3>2 DEF CodeInfo
    <3>4. config[at].domain \in {f.domain : f \in Configs}
      BY <1>1
    <3> QED
      BY <3>1, <3>3, <3>4 DEF Info, Detail
  <2>4. CASE RetryFor = <<d>>
    <3>1. d = Retry(Delay)
      BY <2>2, <2>4 DEF RetryFor
    <3> QED
      BY <1>1, <3>1, DelayIs DEF Retry, Detail
  <2>5. CASE BadRequestFor = <<d>>
    <3>1. d = BadRequest(Violations)
      BY <2>2, <2>5 DEF BadRequestFor
    <3>2. Violations \in Seq(Own)
      BY <1>1, ViolationsOwn DEF IInv
    <3>3. Violations \in Seq(Text)
      BY <3>2 DEF Own
    <3> QED
      BY <3>1, <3>3 DEF BadRequest, Detail
  <2> QED
    BY <2>1, <2>3, <2>4, <2>5
<1>4. status.details \in Seq(Detail)
  <2>1. status.details \in Seq(Range(status.details))
    BY <1>2, SeqOfRange
  <2> QED
    BY <1>3, <2>1
<1>5. Delivered(status) \in Status
  <2>1. status \in Status
    BY <1>2, <1>4 DEF Status
  <2>2. <<>> \in Seq(Detail)
    OBVIOUS
  <2>3. [status EXCEPT !.details = <<>>] \in Status
    BY <2>1, <2>2 DEF Status
  <2> QED
    BY <2>1, <2>3 DEF Delivered
<1> QED
  BY <1>5

LEMMA ReceiveKeeps ==
    ASSUME IInv, Receive
    PROVE  IInv'
<1>1. /\ config \in [1..Final -> Configs] /\ at \in 1..Final /\ at < Final
      /\ pc = "sent" /\ pc' = "handling" /\ at' = at + 1 /\ layers' = <<>>
      /\ cause' = Delivered(status) /\ Carried(status)
      /\ UNCHANGED <<config, status, sent>>
  BY DEF IInv, TypeInv, Receive, Sending
<1>2. at + 1 \in 1..Final /\ at + 1 > 1 /\ at + 1 - 1 = at
  BY <1>1
<1>3. TypeInv'
  BY <1>1, <1>2, DeliveredIs DEF TypeInv, Sending
<1>4. OwnLayers'
  BY <1>1 DEF OwnLayers
<1>5. Handled'
  BY <1>1, <1>2, SentSays, SentIsStatus DEF Handled
<1> QED
  BY <1>1, <1>3, <1>4, <1>5 DEF IInv, Made, Attaching, DetailsIsolated, Sending

LEMMA StatusOfIs ==
    ASSUME IInv
    PROVE  Carried(StatusOf)
<1>1. CASE cause = Absent
  <2>1. StatusOf \in [grpc: Nat \ {0}, message: Text, details: Seq({})]
    BY <1>1 DEF StatusOf, Unknown, CodeName, Text
  <2> QED
    BY <1>1, <2>1 DEF Carried, StatusOf
<1>2. CASE cause # Absent
  BY <1>2 DEF IInv, TypeInv, StatusOf
<1> QED
  BY <1>1, <1>2

LEMMA FromErrorKeeps ==
    ASSUME IInv, FromError
    PROVE  IInv'
<1>1. Received(StatusOf) \in Layer /\ OwnLayer(Received(StatusOf))
  BY StatusOfIs, ReceivedIs
<1> QED
  BY <1>1, LayerKeeps DEF FromError

LEMMA DoneKeeps ==
    ASSUME IInv, Done
    PROVE  IInv'
<1>1. TypeInv'
  BY DEF IInv, TypeInv, Done, Sending
<1>2. OwnLayers'
  BY DEF Done, OwnLayers
<1> QED
  BY <1>1, <1>2 DEF Done, IInv, Made, Attaching, DetailsIsolated, Handled, Sending

\* All that is sent and received is what the errors of the services say.
LEMMA StepIInv == IInv /\ [Next]_vars => IInv'
<1> SUFFICES ASSUME IInv, [Next]_vars PROVE IInv'
  OBVIOUS
<1>1. ASSUME NEW x \in Added(at), New(x) PROVE IInv'
  BY <1>1, AddedIsOwn, LayerKeeps DEF New
<1>2. ASSUME NEW x \in Added(at), Wrap(x) PROVE IInv'
  BY <1>2, AddedIsOwn, LayerKeeps DEF Wrap
<1>3. CASE UNCHANGED vars
  <2>1. UNCHANGED <<config, at, pc, layers, cause, status, todo, sent>>
    BY <1>3 DEF vars
  <2>2. /\ CodeOf' = CodeOf /\ Table' = Table /\ Public' = Public /\ Delay' = Delay
        /\ InfoFor' = InfoFor /\ RetryFor' = RetryFor
        /\ BadRequestFor' = BadRequestFor /\ DetailsFor' = DetailsFor
    BY <2>1, SameError
  <2>3. OwnLayers'
    BY <2>1 DEF IInv, OwnLayers, OwnLayer, Own
  <2> QED
    BY <2>1, <2>2, <2>3 DEF IInv, TypeInv, Made, Attaching, DetailsIsolated, Handled
<1> QED
  BY <1>1, <1>2, <1>3, ForeignKeeps, ToStatusKeeps, AttachAllKeeps, AttachOneKeeps,
     ReceiveKeeps, FromErrorKeeps, DoneKeeps
  DEF Next

----------------------------------------------------------------------------
(* What follows.                                                           *)

LEMMA Invariant == Spec => []IInv
BY InitIInv, StepIInv, PTL DEF Spec

\* "Only that detail is dropped; the others and the status itself survive":
\* the status that is sent has exactly the details that can be marshalled, in
\* their order (DetailsIsolated).
THEOREM DetailsIsolatedCorrect == Spec => []DetailsIsolated
<1>1. IInv => DetailsIsolated
  BY DEF IInv
<1> QED
  BY <1>1, Invariant, PTL

\* The delay that is read is that of a detail that holds a usable one.
LEMMA RetryDelayIs ==
    ASSUME NEW st, Carried(st)
    PROVE  \/ /\ RetryDelay(st) = 0
              /\ \A d \in Range(st.details) :
                    d.kind = "RetryInfo" => d.delay \notin 1..MaxProto
           \/ \E d \in Range(st.details) :
                 /\ d.kind = "RetryInfo" /\ d.delay \in 1..MaxProto
                 /\ RetryDelay(st) = IF d.delay > MaxDuration THEN MaxDuration ELSE d.delay
<1>1. PICK S : st \in [grpc: Nat \ {0}, message: Text, details: Seq(S)]
  BY DEF Carried
<1> DEFINE q == st.details
           I == {i \in 1..Len(q) : q[i].kind = "RetryInfo" /\ q[i].delay \in 1..MaxProto}
<1>2. Range(q) = {q[i] : i \in 1..Len(q)}
  BY <1>1, RangeEquality
<1>3. CASE I = {}
  <2>1. SelectInSeq(q, LAMBDA d : d.kind = "RetryInfo" /\ d.delay \in 1..MaxProto) = 0
    BY <1>3 DEF SelectInSeq
  <2>2. RetryDelay(st) = 0
    BY <2>1 DEF RetryDelay
  <2> QED
    BY <1>2, <1>3, <2>2
<1>4. CASE I # {}
  <2>1. SelectInSeq(q, LAMBDA d : d.kind = "RetryInfo" /\ d.delay \in 1..MaxProto) = Min(I)
    BY <1>4 DEF SelectInSeq
  <2>2. Min(I) \in I
    <3>1. I \subseteq Nat
      OBVIOUS
    <3> HIDE DEF I
    <3> QED
      BY <1>4, <3>1, MinIsIn
  <2>3. PICK i \in 1..Len(q) :
            i = Min(I) /\ q[i].kind = "RetryInfo" /\ q[i].delay \in 1..MaxProto
    BY <2>2
  <2>4. RetryDelay(st) = IF q[i].delay > MaxDuration THEN MaxDuration ELSE q[i].delay
    <3>1. i # 0 /\ SelectInSeq(q, LAMBDA d : /\ d.kind = "RetryInfo"
                                            /\ d.delay \in 1..MaxProto) = i
      BY <2>1, <2>3
    <3> HIDE DEF I
    <3> QED
      BY <3>1 DEF RetryDelay
  <2>5. PICK d \in Range(q) : d = q[i]
    BY <1>2, <2>3
  <2> QED
    BY <2>3, <2>4, <2>5
<1> QED
  BY <1>3, <1>4

\* Whatever details a status has, foreign ones included, the delay that is
\* read is one a time.Duration can hold, and none is read only if none is
\* usable (DelayIsSound).
THEOREM DelayIsSoundCorrect == Spec => []DelayIsSound
<1>1. IInv => DelayIsSound
  <2> SUFFICES ASSUME IInv, pc = "handling", cause # Absent
               PROVE  /\ RetryDelay(cause) \in 0..MaxDuration
                      /\ RetryDelay(cause) = 0 =>
                            \A i \in DOMAIN cause.details :
                                cause.details[i].kind = "RetryInfo" =>
                                    cause.details[i].delay \notin 1..MaxProto
    BY DEF DelayIsSound
  <2>1. Carried(cause)
    BY DEF IInv, TypeInv
  <2>2. \A i \in DOMAIN cause.details : cause.details[i] \in Range(cause.details)
    BY DEF Range
  <2>3. \/ /\ RetryDelay(cause) = 0
           /\ \A d \in Range(cause.details) :
                 d.kind = "RetryInfo" => d.delay \notin 1..MaxProto
        \/ /\ RetryDelay(cause) \in 1..MaxDuration
    <3>1. \A n \in 1..MaxProto :
              (IF n > MaxDuration THEN MaxDuration ELSE n) \in 1..MaxDuration
      OBVIOUS
    <3> QED
      BY <2>1, <3>1, RetryDelayIs
  <2> QED
    BY <2>2, <2>3
<1> QED
  BY <1>1, Invariant, PTL

\* A client reads the delay that the server's error asked for, whichever
\* other details failed, unless a message that is not UTF-8 cost them all
\* (DelaySurvives).
THEOREM DelaySurvivesCorrect == Spec => []DelaySurvives
<1>1. IInv => DelaySurvives
  <2> SUFFICES ASSUME IInv, pc = "handling", sent # Absent
               PROVE  RetryDelay(cause) = IF status.message.utf8 THEN sent.delay ELSE 0
    BY DEF DelaySurvives
  <2>1. /\ cause = Delivered(status) /\ Carried(status)
        /\ Says(status, sent, config[at - 1].domain)
    BY DEF IInv, Handled
  <2>2. /\ Carried(cause)
        /\ cause.details = IF status.message.utf8 THEN status.details ELSE <<>>
    BY <2>1, DeliveredIs
  <2>3. CASE status.message.utf8
    <3>1. cause.details = status.details /\ sent.delay \in 0..MaxDuration
      BY <2>1, <2>2, <2>3 DEF Says
    <3>2. \A d \in Range(cause.details) : d.kind = "RetryInfo" =>
              sent.delay # 0 /\ d.delay = sent.delay
      <4>1. \A n : Retry(n).delay = n
        BY DEF Retry
      <4> QED
        BY <2>1, <3>1, <4>1 DEF Says
    <3>3. sent.delay # 0 => \E d \in Range(cause.details) :
                               d.kind = "RetryInfo" /\ d.delay = sent.delay
      <4>1. \A n : Retry(n).delay = n /\ Retry(n).kind = "RetryInfo"
        BY DEF Retry
      <4> QED
        BY <2>1, <3>1, <4>1 DEF Says
    <3>4. sent.delay # 0 => sent.delay \in 1..MaxProto /\ ~ (sent.delay > MaxDuration)
      BY <3>1
    <3> QED
      BY <2>2, <2>3, <3>2, <3>3, <3>4, RetryDelayIs
  <2>4. CASE ~status.message.utf8
    <3>1. Range(cause.details) = {}
      BY <2>2, <2>4 DEF Range
    <3> QED
      BY <2>2, <2>4, <3>1, RetryDelayIs
  <2> QED
    BY <2>3, <2>4
<1> QED
  BY <1>1, Invariant, PTL

\* "Received details are not turned back into public data": all that a
\* service sends was set by that service or registered with it, whatever it
\* received (NothingForwarded).
THEOREM NothingForwardedCorrect == Spec => []NothingForwarded
<1>1. IInv => NothingForwarded
  <2> SUFFICES ASSUME IInv, pc = "sent", sent # Absent
               PROVE  /\ status.message.from \in {0, at}
                      /\ \A i \in DOMAIN status.details : OwnDetail(status.details[i])
    BY DEF NothingForwarded
  <2>1. /\ config \in [1..Final -> Configs] /\ at \in 1..Final
        /\ layers \in Seq(Layer) /\ DOMAIN layers = 1..Len(layers)
        /\ status.message = IF Public = Absent THEN CodeName ELSE Public
        /\ \A i \in 1..Len(layers) : OwnLayer(layers[i])
    <3>1. layers \in Seq(Layer)
      BY DEF IInv, TypeInv
    <3> QED
      BY <3>1 DEF IInv, TypeInv, Made, OwnLayers, Sending
  <2>2. status.message.from \in {0, at}
    <3>1. CASE Public = Absent
      BY <2>1, <3>1 DEF CodeName
    <3>2. CASE Public # Absent
      <4>1. Public \in Own
        BY <2>1, <3>2, PublicIs DEF OwnLayer
      <4> QED
        BY <2>1, <3>2, <4>1 DEF Own
    <3> QED
      BY <3>1, <3>2
  <2>3. ASSUME NEW i \in DOMAIN status.details
        PROVE  OwnDetail(status.details[i])
    <3>1. PICK d : d = status.details[i]
      OBVIOUS
    <3>2. InfoFor = <<d>> \/ RetryFor = <<d>> \/ BadRequestFor = <<d>>
      <4>1. d \in Range(status.details)
        BY <3>1 DEF Range
      <4> QED
        BY <4>1, SentDetails
    <3>3. \A a, b : <<a>> # <<>> /\ (<<a>> = <<b>> => a = b)
      OBVIOUS
    <3>4. CASE InfoFor = <<d>>
      <4>1. d = Info(Table[CodeOf].name, config[at].domain) /\ Table[CodeOf] # Absent
        BY <3>3, <3>4 DEF InfoFor
      <4> QED
        BY <3>1, <4>1 DEF Info, OwnDetail
    <3>5. CASE RetryFor = <<d>>
      <4>1. d = Retry(Delay)
        BY <3>3, <3>5 DEF RetryFor
      <4>2. \/ \E j \in DOMAIN layers : layers[j].by = at /\ Delay = layers[j].delay
            \/ Delay = RetryDelayOf(Table[CodeOf])
        BY <2>1, DelayIs DEF OwnLayer
      <4>3. d.kind = "RetryInfo" /\ d.delay = Delay
        BY <4>1 DEF Retry
      <4> QED
        BY <3>1, <4>2, <4>3 DEF OwnDetail
    <3>6. CASE BadRequestFor = <<d>>
      <4>1. d = BadRequest(Violations)
        BY <3>3, <3>6 DEF BadRequestFor
      <4>2. Violations \in Seq(Own)
        BY <2>1, ViolationsOwn DEF OwnLayers
      <4>3. \A j \in DOMAIN Violations : Violations[j] \in Own
        BY <4>2
      <4>4. d.kind = "BadRequest" /\ d.texts = Violations
        BY <4>1 DEF BadRequest
      <4>5. \A j \in DOMAIN d.texts : d.texts[j].from = at
        BY <4>3, <4>4 DEF Own
      <4> QED
        BY <3>1, <4>4, <4>5 DEF OwnDetail
    <3> QED
      BY <3>2, <3>4, <3>5, <3>6
  <2> QED
    BY <2>2, <2>3
<1> QED
  BY <1>1, Invariant, PTL

\* "Callers share the same Code taxonomy end to end": a client whose registry
\* has a code of the sender's name and number recovers one, if the detail that
\* names it can be sent and is trusted (CodeSurvives).
THEOREM CodeSurvivesCorrect == Spec => CodeSurvives
<1> DEFINE same(c) == /\ Table[c] # Absent
                      /\ Table[c].name = sent.entry.name
                      /\ Table[c].grpcCode = sent.entry.grpcCode
           domain == config[at - 1].domain
           named == /\ status.message.utf8
                    /\ domain \in ValidDomain
                    /\ config[at].trusted = {} \/ domain \in config[at].trusted
                    /\ sent.entry # Absent
<1>1. IInv /\ [Next]_vars => [FromError /\ sent # Absent =>
         (named /\ (\E c \in Code : same(c)) => same(layers'[1].code))]_vars
  <2> SUFFICES ASSUME IInv, FromError, sent # Absent, named, NEW c \in Code, same(c)
               PROVE  same(layers'[1].code)
    OBVIOUS
  <2> HIDE DEF same, domain, named
  <2>1. /\ cause = Delivered(status) /\ Carried(status) /\ cause # Absent
        /\ Says(status, sent, domain)
    BY DEF IInv, Handled, FromError, domain
  <2>2. /\ Carried(cause) /\ cause.details = status.details
        /\ cause.grpc = GRPCCodeOf(sent.entry)
    BY <2>1, DeliveredIs DEF named, Says
  <2>3. cause.grpc = sent.entry.grpcCode
    BY <2>2 DEF named, GRPCCodeOf
  <2>4. layers'[1].code = CodeFromStatus(cause)
    <3>1. PICK x : x = Received(cause) /\ x \in Layer /\ x.code = CodeFromStatus(cause)
      BY <2>2, ReceivedIs
    <3>2. layers' = <<x>> \o layers /\ layers \in Seq(Layer)
      BY <2>1, <3>1 DEF FromError, StatusOf, IInv, TypeInv
    <3>3. (<<x>> \o layers)[1] = x
      BY <3>1, <3>2
    <3> QED
      BY <3>1, <3>2, <3>3
  <2> DEFINE info == Info(sent.entry.name, domain)
  <2>5. info \in Range(cause.details)
    BY <2>1, <2>2 DEF named, Says
  <2>6. c \in Named(cause, info)
    BY <2>3 DEF Named, Info, same, named
  <2>7. PICK d \in Range(cause.details) : CodeFromStatus(cause) \in Named(cause, d)
    <3> HIDE DEF info
    <3> QED
      BY <2>2, <2>5, <2>6, CodeFromStatusIs
  <2>8. d = info
    BY <2>1, <2>2, <2>7 DEF Named, Says
  <2> QED
    BY <2>3, <2>4, <2>7, <2>8 DEF Named, Info, same
<1> QED
  BY <1>1, Invariant, PTL DEF Spec, CodeSurvives

\* A service that leaves the code of a received error as it is sends on the
\* number it received, whatever the two registries say (NumericPreserved).
THEOREM NumericPreservedCorrect == Spec => NumericPreserved
<1> DEFINE n == Len(layers)
           kept == /\ layers[n] = Received(cause)
                   /\ \A i \in 1..(n - 1) : layers[i].code = 0
<1>1. IInv /\ [Next]_vars => [ToStatus /\ cause # Absent /\ layers # <<>>
         => (kept => status'.grpc = WireCode(cause))]_vars
  <2> SUFFICES ASSUME IInv, ToStatus, cause # Absent, layers # <<>>, kept
               PROVE  status'.grpc = WireCode(cause)
    OBVIOUS
  <2>1. layers \in Seq(Layer) /\ n \in 1..Len(layers) /\ Carried(cause)
    <3>1. layers \in Seq(Layer) /\ Carried(cause)
      BY DEF IInv, TypeInv
    <3> QED
      BY <3>1
  <2>2. /\ layers[n].code # 0
        /\ GRPCCodeOf(Table[layers[n].code]) = WireCode(cause)
    BY <2>1, ReceivedIs
  <2>3. PICK i \in 1..Len(layers) : layers[i].code # 0 /\ CodeOf = layers[i].code
    BY <2>1, <2>2, CodeOfIs
  <2>4. i = n
    BY <2>1, <2>3
  <2>5. status'.grpc = GRPCCodeOf(Table[CodeOf])
    BY DEF ToStatus
  <2> QED
    BY <2>2, <2>3, <2>4, <2>5
<1> QED
  BY <1>1, Invariant, PTL DEF Spec, NumericPreserved

=============================================================================
