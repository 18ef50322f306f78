---------------------------- MODULE ChainsProofs ----------------------------
(***************************************************************************)
(* Proofs about what error chains say: the operators of Chains, Boundary,  *)
(* which makes everything that is shown of an error out of them, and Walk, *)
(* which finds it step by step.                                            *)
(*                                                                         *)
(* Chains: the recursive functions of Preorder and FlattenSeq are unfolded *)
(* once and for all (PreorderIs, FlattenAppend).  An order of a chain      *)
(* exists and is unique because every branch leads to a node of lower rank;*)
(* what holds of every sequence is shown by a least counterexample         *)
(* (SeqInduction).                                                         *)
(*                                                                         *)
(* Boundary: what a chain says stands at the error itself or in a branch   *)
(* above its barrier (FoundAbove, PartAbove).  The calls of collect's pass *)
(* are, one by one, the errors that the walks see (CallsSeeAll), and those *)
(* not blocked are the ones public data may come from (CallsSeeOpen); so   *)
(* what the pass has taken up in the end is what those walks find          *)
(* (CollectIs).                                                            *)
(*                                                                         *)
(* Walk, for every set of chains, cyclic ones included: fix a set s that   *)
(* has the root and is closed under the branches of nodes that are no      *)
(* barriers.  Within s must be: the error at hand, the branches about to be*)
(* followed, and the branches left in every suspended loop, each as long as*)
(* the flag that goes with it is not set (Path).  For chains that end, what*)
(* is left of a walk after the nodes it has seen is the rest of their      *)
(* order, spread over the stack (Remains).                                 *)
(***************************************************************************)
EXTENDS Walk, Boundary, TLAPS, SequenceTheorems, FunctionTheorems, NaturalsInduction, WellFoundedInduction

----------------------------------------------------------------------------
(* Sequences.                                                              *)

\* Every nonempty set of numbers has a least one.
LEMMA LeastNat ==
    ASSUME NEW T, T \subseteq Nat, T # {}
    PROVE  \E x \in T : \A y \in T : x <= y
<1> DEFINE R == OpToRel(<, Nat)
<1>1. IsWellFoundedOn(R, Nat)
  BY NatLessThanWellFounded
<1>2. \A x, y \in Nat : y < x => <<y, x>> \in R
  BY DEF OpToRel
<1> HIDE DEF R
<1>3. PICK x \in T : \A y \in T : ~ (<<y, x>> \in R)
  BY <1>1, WFMin
<1>4. \A y \in T : ~ (y < x)
  BY <1>2, <1>3
<1> QED
  BY <1>3, <1>4

\* Sequences, concatenation and Append, as names that the provers do not look behind.
Sq(S) == Seq(S)
Cat(s, t) == s \o t

Add(s, e) == Append(s, e)

\* A sequence, its length and its entries.
LEMMA SqBasics ==
    ASSUME NEW S
    PROVE  /\ <<>> \in Sq(S)
           /\ \A e \in S : <<e>> \in Sq(S)
           /\ \A s \in Sq(S) : /\ Len(s) \in Nat /\ DOMAIN s = 1..Len(s)
                               /\ \A i \in 1..Len(s) : s[i] \in S
BY DEF Sq

\* Sequences of one length with the same entries are equal.
LEMMA SqEqual ==
    ASSUME NEW S, NEW s \in Sq(S), NEW t \in Sq(S), Len(s) = Len(t), \A i \in 1..Len(s) : s[i] = t[i]
    PROVE  s = t
BY SeqEqual DEF Sq

\* Append, entry by entry.
LEMMA AddProperties ==
    ASSUME NEW S, NEW s \in Sq(S), NEW e \in S
    PROVE  /\ Add(s, e) \in Sq(S)
           /\ Len(Add(s, e)) = Len(s) + 1
           /\ \A i \in 1..Len(s) : Add(s, e)[i] = s[i]
           /\ Add(s, e)[Len(s) + 1] = e
BY AppendProperties DEF Add, Sq

\* What FlattenSeq has put together of the first n sequences.
Flat(ss, n, f) == n \in Nat /\ f = [i \in 1..n |-> IF i = 1 THEN ss[i] ELSE f[i - 1] \o ss[i]]

\* The first n sequences are the same.
Agree(ss, tt, n) == \A i \in 1..n : ss[i] = tt[i]

\* The flattening function that FlattenSeq chooses exists.
LEMMA FlatExists ==
    ASSUME NEW ss, NEW n \in Nat
    PROVE  \E f : Flat(ss, n, f)
<1> DEFINE T == {k \in Nat : ~ \E f : Flat(ss, k, f)}
<1>1. T = {}
  <2> SUFFICES ASSUME T # {} PROVE FALSE
    OBVIOUS
  <2>1. T \subseteq Nat
    OBVIOUS
  <2> HIDE DEF T
  <2>2. PICK m \in T : \A y \in T : m <= y
    BY <2>1, LeastNat
  <2> USE DEF T
  <2>3. CASE m = 0
    <3> DEFINE f == [i \in 1..0 |-> IF i = 1 THEN ss[i] ELSE ss[i]]
    <3>1. Flat(ss, 0, f)
      BY DEF Flat
    <3> QED
      BY <2>2, <2>3, <3>1
  <2>4. CASE m # 0
    <3>1. m - 1 \in Nat /\ m - 1 \notin T
      <4>1. m \in Nat
        BY <2>2
      <4> HIDE DEF T
      <4> QED
        BY <2>2, <2>4, <4>1
    <3>2. PICK f : Flat(ss, m - 1, f)
      BY <3>1
    <3> DEFINE g == [i \in 1..m |-> IF i = m THEN IF i = 1 THEN ss[i] ELSE f[i - 1] \o ss[i] ELSE f[i]]
    <3>3. m \in Nat /\ \A i \in 1..m - 1 : f[i] = IF i = 1 THEN ss[i] ELSE f[i - 1] \o ss[i]
      BY <2>2, <3>2 DEF Flat
    <3>4. ASSUME NEW i \in 1..m PROVE g[i] = IF i = 1 THEN ss[i] ELSE g[i - 1] \o ss[i]
      <4>1. CASE i = 1
        BY <3>3, <4>1
      <4>2. CASE i # 1
        <5>1. i - 1 \in 1..m /\ i - 1 # m /\ g[i - 1] = f[i - 1]
          BY <3>3, <4>2
        <5>2. g[i] = f[i - 1] \o ss[i]
          <6>1. CASE i = m
            BY <4>2, <6>1
          <6>2. CASE i # m
            <7>1. i \in 1..m - 1
              BY <3>3, <6>2
            <7> QED
              BY <3>3, <4>2, <6>2, <7>1, Zenon
          <6> QED
            BY <6>1, <6>2
        <5> HIDE DEF g
        <5> QED
          BY <4>2, <5>1, <5>2
      <4> QED
        BY <4>1, <4>2
    <3>5. g = [i \in 1..m |-> g[i]]
      OBVIOUS
    <3> HIDE DEF g
    <3>6. Flat(ss, m, g)
      BY <3>3, <3>4, <3>5 DEF Flat
    <3> QED
      BY <2>2, <3>6
  <2> QED
    BY <2>3, <2>4
<1> QED
  BY <1>1

\* What is put together of the same sequences is the same.
LEMMA FlatUnique ==
    ASSUME NEW ss, NEW tt, NEW n \in Nat, NEW m \in Nat, NEW f, NEW g, n <= m,
           Agree(ss, tt, n), Flat(ss, n, f), Flat(tt, m, g)
    PROVE  \A i \in 1..n : f[i] = g[i]
<1> DEFINE T == {i \in 1..n : f[i] # g[i]}
<1> SUFFICES ASSUME T # {} PROVE FALSE
  OBVIOUS
<1>1. T \subseteq Nat
  OBVIOUS
<1> HIDE DEF T
<1>2. PICK k \in T : \A y \in T : k <= y
  BY <1>1, LeastNat
<1> USE DEF T
<1>3. k \in 1..n /\ k \in 1..m /\ f[k] # g[k]
  BY <1>2
<1>4. f[k] = IF k = 1 THEN ss[k] ELSE f[k - 1] \o ss[k]
  BY <1>3 DEF Flat
<1>5. g[k] = IF k = 1 THEN tt[k] ELSE g[k - 1] \o tt[k]
  BY <1>3 DEF Flat, Agree
<1>6. k # 1 => k - 1 \in 1..n /\ k - 1 \notin T
  <2> HIDE DEF T
  <2> QED
    BY <1>2, <1>3
<1>7. k # 1 => f[k - 1] = g[k - 1]
  BY <1>6
<1>8. ss[k] = tt[k]
  BY <1>3 DEF Agree
<1> QED
  BY <1>3, <1>4, <1>5, <1>7, <1>8, Zenon

\* FlattenSeq has all of them put together.
LEMMA FlattenFlat ==
    ASSUME NEW ss, Len(ss) \in Nat, Len(ss) # 0
    PROVE  \E f : Flat(ss, Len(ss), f) /\ FlattenSeq(ss) = f[Len(ss)]
<1> DEFINE f == CHOOSE f : f = [i \in 1..Len(ss) |-> IF i = 1 THEN ss[i] ELSE f[i - 1] \o ss[i]]
<1>1. PICK g : Flat(ss, Len(ss), g)
  BY FlatExists
<1>2. g = [i \in 1..Len(ss) |-> IF i = 1 THEN ss[i] ELSE g[i - 1] \o ss[i]]
  BY <1>1 DEF Flat
<1>3. f = [i \in 1..Len(ss) |-> IF i = 1 THEN ss[i] ELSE f[i - 1] \o ss[i]]
  BY <1>2, Zenon
<1>4. FlattenSeq(ss) = f[Len(ss)]
  BY Zenon DEF FlattenSeq
<1> HIDE DEF f
<1> QED
  BY <1>3, <1>4 DEF Flat

\* FlattenSeq of none, and of one.
LEMMA FlattenEmpty == FlattenSeq(<<>>) = <<>>
BY DEF FlattenSeq

\* One sequence is flat.
LEMMA FlattenOne == ASSUME NEW s PROVE FlattenSeq(<<s>>) = s
<1> DEFINE ss == <<s>>
<1>1. Len(ss) = 1 /\ ss[1] = s
  OBVIOUS
<1> HIDE DEF ss
<1>2. PICK f : Flat(ss, Len(ss), f) /\ FlattenSeq(ss) = f[Len(ss)]
  <2>1. Len(ss) \in Nat /\ Len(ss) # 0
    BY <1>1
  <2> QED
    BY <2>1, FlattenFlat
<1>3. f[1] = s
  BY <1>1, <1>2 DEF Flat
<1> QED
  BY <1>2, <1>3 DEF ss

\* One more sequence.
LEMMA FlatStep ==
    ASSUME NEW ss, NEW tt, NEW n \in Nat, NEW f, NEW g, n # 0,
           Agree(ss, tt, n), Flat(ss, n, f), Flat(tt, n + 1, g)
    PROVE  g[n + 1] = Cat(f[n], tt[n + 1])
<1>1. n + 1 \in Nat /\ n <= n + 1 /\ n \in 1..n
  OBVIOUS
<1>2. \A i \in 1..n : f[i] = g[i]
  BY FlatUnique
<1>3. n + 1 \in 1..(n + 1) /\ n + 1 # 1 /\ (n + 1) - 1 = n
  OBVIOUS
<1>4. g[n + 1] = Cat(g[n], tt[n + 1])
  BY <1>3 DEF Flat, Cat
<1> QED
  BY <1>1, <1>2, <1>4

\* FlattenSeq of one sequence more, by position.
LEMMA FlattenStep ==
    ASSUME NEW ss, NEW tt, NEW n \in Nat, n # 0, Len(ss) = n, Len(tt) = n + 1,
           Agree(ss, tt, n)
    PROVE  FlattenSeq(tt) = Cat(FlattenSeq(ss), tt[n + 1])
<1>0. n + 1 \in Nat /\ n + 1 # 0
  OBVIOUS
<1>1. PICK g : Flat(tt, n + 1, g) /\ FlattenSeq(tt) = g[n + 1]
  BY <1>0, FlattenFlat
<1>2. PICK f : Flat(ss, n, f) /\ FlattenSeq(ss) = f[n]
  BY FlattenFlat
<1>3. g[n + 1] = Cat(f[n], tt[n + 1])
  BY <1>1, <1>2, FlatStep
<1> QED
  BY <1>1, <1>2, <1>3

\* FlattenSeq of one sequence more.
LEMMA FlattenAppend ==
    ASSUME NEW S, NEW ss \in Sq(Sq(S)), NEW s \in Sq(S)
    PROVE  FlattenSeq(Add(ss, s)) = Cat(FlattenSeq(ss), s)
<1> DEFINE tt == Append(ss, s)
<1>1. PICK n \in Nat : n = Len(ss)
  BY SqBasics
<1>2. Len(tt) = n + 1 /\ tt[n + 1] = s /\ Agree(ss, tt, n)
  BY <1>1 DEF Agree
<1>3. CASE n = 0
  <2>1. ss = <<>>
    <3>1. Len(ss) = 0
      BY <1>1, <1>3
    <3> QED
      BY <3>1
  <2>2. tt = <<s>>
    BY <2>1
  <2>3. Cat(<<>>, s) = s
    BY DEF Cat
  <2> HIDE DEF tt
  <2>4. FlattenSeq(ss) = <<>> /\ FlattenSeq(tt) = s
    BY <2>1, <2>2, FlattenEmpty, FlattenOne, Zenon
  <2> QED
    BY <2>3, <2>4 DEF tt, Add
<1>4. CASE n # 0
  <2> HIDE DEF tt
  <2>1. FlattenSeq(tt) = Cat(FlattenSeq(ss), tt[n + 1])
    BY <1>1, <1>2, <1>4, FlattenStep
  <2> QED
    BY <1>2, <2>1 DEF tt, Add
<1> QED
  BY <1>3, <1>4

----------------------------------------------------------------------------

\* Induction over sequences, for a property given as the set of those that
\* have it.
LEMMA SeqInduction ==
    ASSUME NEW S, NEW P, <<>> \in P, \A s \in Sq(S), e \in S : s \in P => Add(s, e) \in P
    PROVE  \A s \in Sq(S) : s \in P
<1> DEFINE T == {n \in Nat : \E s \in Sq(S) : Len(s) = n /\ s \notin P}
<1>1. T = {}
  <2> SUFFICES ASSUME T # {} PROVE FALSE
    BY SqBasics
  <2>1. T \subseteq Nat
    BY SqBasics
  <2> HIDE DEF T
  <2>2. PICK n \in T : \A m \in T : n <= m
    BY <2>1, LeastNat
  <2> USE DEF T
  <2>3. PICK s \in Sq(S) : Len(s) = n /\ s \notin P
    BY <2>2
  <2>4. PICK t \in Sq(S), e \in S : s = Add(t, e)
    BY <2>3, SequenceEmptyOrAppend DEF Add, Sq
  <2>5. Len(t) \in Nat /\ n = Len(t) + 1
    BY <2>3, <2>4, AddProperties, SqBasics
  <2>6. Len(t) \notin T
    <3> HIDE DEF T
    <3> QED
      BY <2>2, <2>5
  <2>7. t \in P
    BY <2>5, <2>6
  <2> QED
    BY <2>3, <2>4, <2>7
<1>2. \A s \in Sq(S) : Len(s) \in Nat
  BY SqBasics
<1> QED
  BY <1>1, <1>2

\* Concatenation: its type, its unit, its associativity, and Append through it.
LEMMA CatType ==
    ASSUME NEW S, NEW s \in Sq(S), NEW t \in Sq(S)
    PROVE  Cat(s, t) \in Sq(S)
BY DEF Cat, Sq

\* The empty sequence is a unit.
LEMMA CatEmpty ==
    ASSUME NEW S, NEW s \in Sq(S)
    PROVE  Cat(s, <<>>) = s /\ Cat(<<>>, s) = s
BY DEF Cat, Sq

\* Concatenation is associative.
LEMMA CatAssoc ==
    ASSUME NEW S, NEW s \in Sq(S), NEW t \in Sq(S), NEW u \in Sq(S)
    PROVE  Cat(Cat(s, t), u) = Cat(s, Cat(t, u))
BY ConcatAssociative DEF Cat, Sq

\* Append concatenates one entry.
LEMMA CatAppend ==
    ASSUME NEW S, NEW s \in Sq(S), NEW e \in S
    PROVE  Add(s, e) = Cat(s, <<e>>)
BY AppendIsConcat DEF Cat, Add, Sq

\* An entry appended to the second part is appended to the whole.
LEMMA CatOfAppend ==
    ASSUME NEW S, NEW s \in Sq(S), NEW t \in Sq(S), NEW e \in S
    PROVE  Cat(s, Add(t, e)) = Add(Cat(s, t), e)
<1>1. <<e>> \in Sq(S) /\ Cat(s, t) \in Sq(S)
  BY CatType, SqBasics
<1>2. Add(t, e) = Cat(t, <<e>>)
  BY CatAppend
<1>3. Add(Cat(s, t), e) = Cat(Cat(s, t), <<e>>)
  BY <1>1, CatAppend
<1>4. Cat(Cat(s, t), <<e>>) = Cat(s, Cat(t, <<e>>))
  <2>1. PICK u \in Sq(S) : u = <<e>>
    BY <1>1
  <2>2. Cat(Cat(s, t), u) = Cat(s, Cat(t, u))
    BY CatAssoc
  <2> QED
    BY <2>1, <2>2
<1> QED
  BY <1>2, <1>3, <1>4

\* What is in a sequence.
LEMMA InSeq ==
    ASSUME NEW S, NEW s \in Sq(S)
    PROVE  /\ ToSet(s) \subseteq S
           /\ \A x : x \in ToSet(s) <=> \E i \in 1..Len(s) : s[i] = x
<1>1. DOMAIN s = 1..Len(s) /\ \A i \in 1..Len(s) : s[i] \in S
  BY SqBasics
<1> QED
  BY <1>1 DEF ToSet

\* Nothing is in the empty sequence.
LEMMA InEmpty == \A x : x \notin ToSet(<<>>)
BY DEF ToSet

\* One entry is in a sequence of one.
LEMMA InOne == ASSUME NEW e PROVE \A x : x \in ToSet(<<e>>) <=> x = e
BY DEF ToSet

\* Membership of an appended sequence.
LEMMA InAppend ==
    ASSUME NEW S, NEW s \in Sq(S), NEW e \in S
    PROVE  \A x : x \in ToSet(Add(s, e)) <=> x \in ToSet(s) \/ x = e
<1>1. Add(s, e) \in Sq(S) /\ Len(Add(s, e)) = Len(s) + 1
      /\ (\A i \in 1..Len(s) : Add(s, e)[i] = s[i]) /\ Add(s, e)[Len(s) + 1] = e /\ Len(s) \in Nat
  BY AddProperties
<1> DEFINE a == Add(s, e)
<1> HIDE DEF a
<1> SUFFICES ASSUME NEW x PROVE x \in ToSet(a) <=> x \in ToSet(s) \/ x = e
  BY DEF a
<1>2. x \in ToSet(a) <=> \E i \in 1..Len(s) + 1 : a[i] = x
  <2>1. a \in Sq(S) /\ Len(a) = Len(s) + 1
    BY <1>1 DEF a
  <2>2. x \in ToSet(a) <=> \E i \in 1..Len(a) : a[i] = x
    BY <2>1, InSeq
  <2> QED
    BY <2>1, <2>2
<1>3. x \in ToSet(s) <=> \E i \in 1..Len(s) : s[i] = x
  BY InSeq
<1>4. (\A i \in 1..Len(s) : a[i] = s[i]) /\ a[Len(s) + 1] = e /\ Len(s) \in Nat
  BY <1>1 DEF a
<1>5. \A i \in 1..Len(s) + 1 : i \in 1..Len(s) \/ i = Len(s) + 1
  BY <1>4
<1>6. Len(s) + 1 \in 1..Len(s) + 1 /\ \A i \in 1..Len(s) : i \in 1..Len(s) + 1
  BY <1>4
<1> QED
  BY <1>2, <1>3, <1>4, <1>5, <1>6, Zenon

\* Membership of a concatenation.
LEMMA InCat ==
    ASSUME NEW S, NEW s \in Sq(S), NEW t \in Sq(S)
    PROVE  \A x : x \in ToSet(Cat(s, t)) <=> x \in ToSet(s) \/ x \in ToSet(t)
<1> DEFINE P == {u \in Sq(S) : \A x : x \in ToSet(Cat(s, u)) <=> x \in ToSet(s) \/ x \in ToSet(u)}
<1>1. <<>> \in P
  <2>1. <<>> \in Sq(S)
    BY SqBasics
  <2> QED
    BY <2>1, CatEmpty, InEmpty
<1>2. ASSUME NEW u \in Sq(S), NEW e \in S, u \in P PROVE Add(u, e) \in P
  <2>1. Add(u, e) \in Sq(S)
    BY AddProperties
  <2>2. Cat(s, Add(u, e)) = Add(Cat(s, u), e)
    BY CatOfAppend
  <2>3. \A x : x \in ToSet(Add(Cat(s, u), e)) <=> x \in ToSet(Cat(s, u)) \/ x = e
    BY CatType, InAppend
  <2>4. \A x : x \in ToSet(Add(u, e)) <=> x \in ToSet(u) \/ x = e
    BY InAppend
  <2> QED
    BY <1>2, <2>1, <2>2, <2>3, <2>4
<1> HIDE DEF P
<1>3. t \in P
  BY <1>1, <1>2, SeqInduction
<1> QED
  BY <1>3 DEF P

\* Sequences of S flatten to a sequence of S.
LEMMA FlattenType ==
    ASSUME NEW S, NEW ss \in Sq(Sq(S))
    PROVE  FlattenSeq(ss) \in Sq(S)
<1> DEFINE P == {tt \in Sq(Sq(S)) : FlattenSeq(tt) \in Sq(S)}
<1>1. <<>> \in P
  <2>1. <<>> \in Sq(Sq(S)) /\ <<>> \in Sq(S)
    BY SqBasics
  <2> QED
    BY <2>1, FlattenEmpty
<1>2. ASSUME NEW tt \in Sq(Sq(S)), NEW s \in Sq(S), tt \in P PROVE Add(tt, s) \in P
  <2>1. Add(tt, s) \in Sq(Sq(S))
    BY AddProperties
  <2> QED
    BY <1>2, <2>1, FlattenAppend, CatType
<1> HIDE DEF P
<1>3. ss \in P
  BY <1>1, <1>2, SeqInduction
<1> QED
  BY <1>3 DEF P

\* Membership of what is flattened.
LEMMA InFlatten ==
    ASSUME NEW S, NEW ss \in Sq(Sq(S))
    PROVE  \A x : x \in ToSet(FlattenSeq(ss)) <=> \E s \in ToSet(ss) : x \in ToSet(s)
<1> DEFINE P == {tt \in Sq(Sq(S)) :
                    \A x : x \in ToSet(FlattenSeq(tt)) <=> \E s \in ToSet(tt) : x \in ToSet(s)}
<1>1. <<>> \in P
  <2>1. <<>> \in Sq(Sq(S))
    BY SqBasics
  <2> QED
    BY <2>1, FlattenEmpty, InEmpty
<1>2. ASSUME NEW tt \in Sq(Sq(S)), NEW s \in Sq(S), tt \in P PROVE Add(tt, s) \in P
  <2>1. Add(tt, s) \in Sq(Sq(S))
    BY AddProperties
  <2>2. FlattenSeq(tt) \in Sq(S)
    BY FlattenType
  <2>3. \A x : x \in ToSet(FlattenSeq(Add(tt, s))) <=> x \in ToSet(FlattenSeq(tt)) \/ x \in ToSet(s)
    BY <2>2, FlattenAppend, InCat
  <2>4. \A u : u \in ToSet(Add(tt, s)) <=> u \in ToSet(tt) \/ u = s
    BY InAppend
  <2> QED
    BY <1>2, <2>1, <2>3, <2>4
<1> HIDE DEF P
<1>3. ss \in P
  BY <1>1, <1>2, SeqInduction
<1> QED
  BY <1>3 DEF P

\* FlattenSeq distributes over concatenation.
LEMMA FlattenCat ==
    ASSUME NEW S, NEW ss \in Sq(Sq(S)), NEW tt \in Sq(Sq(S))
    PROVE  FlattenSeq(Cat(ss, tt)) = Cat(FlattenSeq(ss), FlattenSeq(tt))
<1> DEFINE P == {uu \in Sq(Sq(S)) : FlattenSeq(Cat(ss, uu)) = Cat(FlattenSeq(ss), FlattenSeq(uu))}
<1>0. FlattenSeq(ss) \in Sq(S)
  BY FlattenType
<1>1. <<>> \in P
  <2>1. <<>> \in Sq(Sq(S)) /\ Cat(ss, <<>>) = ss
    BY CatEmpty, SqBasics
  <2> QED
    BY <1>0, <2>1, FlattenEmpty, CatEmpty
<1>2. ASSUME NEW uu \in Sq(Sq(S)), NEW s \in Sq(S), uu \in P PROVE Add(uu, s) \in P
  <2>1. Add(uu, s) \in Sq(Sq(S))
    BY AddProperties
  <2>2. Cat(ss, Add(uu, s)) = Add(Cat(ss, uu), s) /\ Cat(ss, uu) \in Sq(Sq(S))
    BY CatOfAppend, CatType
  <2>3. FlattenSeq(Add(Cat(ss, uu), s)) = Cat(FlattenSeq(Cat(ss, uu)), s)
    BY <2>2, FlattenAppend
  <2>4. FlattenSeq(Add(uu, s)) = Cat(FlattenSeq(uu), s) /\ FlattenSeq(uu) \in Sq(S)
    BY FlattenAppend, FlattenType
  <2>5. Cat(Cat(FlattenSeq(ss), FlattenSeq(uu)), s) = Cat(FlattenSeq(ss), Cat(FlattenSeq(uu), s))
    BY <1>0, <2>4, CatAssoc
  <2> QED
    BY <1>2, <2>1, <2>2, <2>3, <2>4, <2>5
<1> HIDE DEF P
<1>3. tt \in P
  BY <1>1, <1>2, SeqInduction
<1> QED
  BY <1>3 DEF P

\* Every entry of ns replaced by what f makes of it.
Mapped(ns, f) == [i \in DOMAIN ns |-> f[ns[i]]]

\* f takes N to S.
Maps(f, N, S) == \A n \in N : f[n] \in S

\* Mapping a sequence, entry by entry.
LEMMA MappedAppend ==
    ASSUME NEW N, NEW S, NEW f, Maps(f, N, S), NEW ns \in Sq(N), NEW n \in N
    PROVE  /\ Mapped(ns, f) \in Sq(S)
           /\ Mapped(Add(ns, n), f) = Add(Mapped(ns, f), f[n])
<1>1. ASSUME NEW ms \in Sq(N) PROVE Mapped(ms, f) \in Sq(S) /\ Len(Mapped(ms, f)) = Len(ms)
                                     /\ \A i \in 1..Len(ms) : Mapped(ms, f)[i] = f[ms[i]]
  <2>1. DOMAIN ms = 1..Len(ms) /\ Len(ms) \in Nat /\ \A i \in 1..Len(ms) : ms[i] \in N
    BY SqBasics
  <2>2. Mapped(ms, f) = [i \in 1..Len(ms) |-> f[ms[i]]]
    BY <2>1 DEF Mapped
  <2>3. \A i \in 1..Len(ms) : f[ms[i]] \in S
    BY <2>1 DEF Maps
  <2> QED
    BY <2>1, <2>2, <2>3 DEF Sq
<1>2. Add(ns, n) \in Sq(N) /\ Len(Add(ns, n)) = Len(ns) + 1 /\ Len(ns) \in Nat
      /\ (\A i \in 1..Len(ns) : Add(ns, n)[i] = ns[i]) /\ Add(ns, n)[Len(ns) + 1] = n
  BY AddProperties
<1> DEFINE a == Mapped(Add(ns, n), f)
           b == Add(Mapped(ns, f), f[n])
<1>3. a \in Sq(S) /\ Len(a) = Len(ns) + 1 /\ (\A i \in 1..Len(ns) : a[i] = f[ns[i]]) /\ a[Len(ns) + 1] = f[n]
  <2>1. /\ a \in Sq(S) /\ Len(a) = Len(Add(ns, n))
        /\ \A i \in 1..Len(Add(ns, n)) : a[i] = f[Add(ns, n)[i]]
    BY <1>1, <1>2
  <2> HIDE DEF a
  <2> QED
    BY <1>2, <2>1
<1>4. b \in Sq(S) /\ Len(b) = Len(ns) + 1 /\ (\A i \in 1..Len(ns) : b[i] = f[ns[i]]) /\ b[Len(ns) + 1] = f[n]
  <2>1. /\ Mapped(ns, f) \in Sq(S) /\ Len(Mapped(ns, f)) = Len(ns) /\ f[n] \in S
        /\ \A i \in 1..Len(ns) : Mapped(ns, f)[i] = f[ns[i]]
    BY <1>1 DEF Maps
  <2> QED
    BY <2>1, AddProperties
<1> HIDE DEF a, b
<1>5. \A i \in 1..Len(a) : a[i] = b[i]
  <2>1. \A i \in 1..Len(ns) + 1 : i \in 1..Len(ns) \/ i = Len(ns) + 1
    BY <1>2
  <2> QED
    BY <1>3, <1>4, <2>1
<1>6. a = b
  BY <1>3, <1>4, <1>5, SqEqual
<1> QED
  BY <1>1, <1>6 DEF a, b

\* Mapping nothing.
LEMMA MappedEmpty == ASSUME NEW f PROVE Mapped(<<>>, f) = <<>>
BY DEF Mapped

\* Together maps, and flattens.
LEMMA TogetherMapped == ASSUME NEW ns, NEW f PROVE Together(ns, f) = FlattenSeq(Mapped(ns, f))
BY DEF Together, Mapped

\* No nodes say nothing.
LEMMA TogetherEmpty == ASSUME NEW f PROVE Together(<<>>, f) = <<>>
BY TogetherMapped, MappedEmpty, FlattenEmpty

\* One node more.
LEMMA TogetherAppend ==
    ASSUME NEW N, NEW S, NEW f, Maps(f, N, Sq(S)), NEW ns \in Sq(N), NEW n \in N
    PROVE  /\ Together(ns, f) \in Sq(S)
           /\ Together(Add(ns, n), f) = Cat(Together(ns, f), f[n])
<1>1. Mapped(ns, f) \in Sq(Sq(S)) /\ Mapped(Add(ns, n), f) = Add(Mapped(ns, f), f[n])
  BY MappedAppend
<1>2. FlattenSeq(Mapped(ns, f)) \in Sq(S)
  BY <1>1, FlattenType
<1>3. FlattenSeq(Add(Mapped(ns, f), f[n])) = Cat(FlattenSeq(Mapped(ns, f)), f[n])
  <2>1. f[n] \in Sq(S)
    BY DEF Maps
  <2> QED
    BY <1>1, <2>1, FlattenAppend
<1> QED
  BY <1>1, <1>2, <1>3, TogetherMapped

\* What the nodes say together is of the type of what each says.
LEMMA TogetherType ==
    ASSUME NEW N, NEW S, NEW f, Maps(f, N, Sq(S)), NEW ns \in Sq(N)
    PROVE  Together(ns, f) \in Sq(S)
<1> DEFINE P == {ms \in Sq(N) : Together(ms, f) \in Sq(S)}
<1>1. <<>> \in P
  BY TogetherEmpty, SqBasics
<1>2. ASSUME NEW ms \in Sq(N), NEW n \in N, ms \in P PROVE Add(ms, n) \in P
  <2>1. Add(ms, n) \in Sq(N)
    BY AddProperties
  <2>2. f[n] \in Sq(S)
    BY DEF Maps
  <2> QED
    BY <1>2, <2>1, <2>2, TogetherAppend, CatType
<1> HIDE DEF P
<1>3. ns \in P
  BY <1>1, <1>2, SeqInduction
<1> QED
  BY <1>3 DEF P

\* Together distributes over concatenation.
LEMMA TogetherCat ==
    ASSUME NEW N, NEW S, NEW f, Maps(f, N, Sq(S)), NEW ns \in Sq(N), NEW ms \in Sq(N)
    PROVE  Together(Cat(ns, ms), f) = Cat(Together(ns, f), Together(ms, f))
<1> DEFINE P == {us \in Sq(N) : Together(Cat(ns, us), f) = Cat(Together(ns, f), Together(us, f))}
<1>0. Together(ns, f) \in Sq(S)
  BY TogetherType
<1>1. <<>> \in P
  BY <1>0, TogetherEmpty, CatEmpty, SqBasics
<1>2. ASSUME NEW us \in Sq(N), NEW n \in N, us \in P PROVE Add(us, n) \in P
  <2>1. Add(us, n) \in Sq(N) /\ f[n] \in Sq(S) /\ Cat(ns, us) \in Sq(N)
    BY AddProperties, CatType DEF Maps
  <2>2. Together(Cat(ns, Add(us, n)), f) = Cat(Together(Cat(ns, us), f), f[n])
    BY <2>1, CatOfAppend, TogetherAppend
  <2>3. Together(Add(us, n), f) = Cat(Together(us, f), f[n]) /\ Together(us, f) \in Sq(S)
    BY TogetherAppend
  <2>4. Cat(Cat(Together(ns, f), Together(us, f)), f[n]) = Cat(Together(ns, f), Cat(Together(us, f), f[n]))
    BY <1>0, <2>1, <2>3, CatAssoc
  <2> QED
    BY <1>2, <2>1, <2>2, <2>3, <2>4
<1> HIDE DEF P
<1>3. ms \in P
  BY <1>1, <1>2, SeqInduction
<1> QED
  BY <1>3 DEF P

\* One node says what it says.
LEMMA TogetherOne ==
    ASSUME NEW N, NEW S, NEW f, Maps(f, N, Sq(S)), NEW n \in N
    PROVE  Together(<<n>>, f) = f[n]
<1>1. <<n>> = Add(<<>>, n)
  BY DEF Add
<1>2. Together(Add(<<>>, n), f) = Cat(Together(<<>>, f), f[n]) /\ f[n] \in Sq(S)
  <2>1. <<>> \in Sq(N) /\ f[n] \in Sq(S)
    BY SqBasics DEF Maps
  <2> QED
    BY <2>1, TogetherAppend
<1> QED
  BY <1>1, <1>2, TogetherEmpty, CatEmpty

\* What is together of what is together is together of the parts.
LEMMA TogetherTwice ==
    ASSUME NEW N, NEW M, NEW S, NEW p, Maps(p, N, Sq(M)), NEW f, Maps(f, M, Sq(S)),
           NEW ns \in Sq(N), NEW g, \A n \in N : g[n] = Together(p[n], f)
    PROVE  Together(Together(ns, p), f) = Together(ns, g)
<1>0. Maps(g, N, Sq(S))
  BY TogetherType DEF Maps
<1> DEFINE P == {ms \in Sq(N) : Together(Together(ms, p), f) = Together(ms, g)}
<1>1. <<>> \in P
  BY TogetherEmpty, SqBasics
<1>2. ASSUME NEW ms \in Sq(N), NEW n \in N, ms \in P PROVE Add(ms, n) \in P
  <2>1. Add(ms, n) \in Sq(N) /\ Together(ms, p) \in Sq(M) /\ p[n] \in Sq(M)
    BY AddProperties, TogetherType DEF Maps
  <2>2. Together(Together(Add(ms, n), p), f) = Cat(Together(Together(ms, p), f), Together(p[n], f))
    BY <2>1, TogetherAppend, TogetherCat
  <2>3. Together(Add(ms, n), g) = Cat(Together(ms, g), g[n])
    BY <1>0, TogetherAppend
  <2> QED
    BY <1>2, <2>1, <2>2, <2>3
<1> HIDE DEF P
<1>3. ns \in P
  BY <1>1, <1>2, SeqInduction
<1> QED
  BY <1>3 DEF P

\* What is in it comes from one of the nodes.
LEMMA InTogether ==
    ASSUME NEW N, NEW S, NEW f, Maps(f, N, Sq(S)), NEW ns \in Sq(N)
    PROVE  \A x : x \in ToSet(Together(ns, f)) <=> \E n \in ToSet(ns) : x \in ToSet(f[n])
<1> DEFINE P == {ms \in Sq(N) :
                    \A x : x \in ToSet(Together(ms, f)) <=> \E n \in ToSet(ms) : x \in ToSet(f[n])}
<1>1. <<>> \in P
  BY TogetherEmpty, InEmpty, SqBasics
<1>2. ASSUME NEW ms \in Sq(N), NEW n \in N, ms \in P PROVE Add(ms, n) \in P
  <2>1. Add(ms, n) \in Sq(N) /\ f[n] \in Sq(S) /\ Together(ms, f) \in Sq(S)
    BY AddProperties, TogetherType DEF Maps
  <2>2. Together(Add(ms, n), f) = Cat(Together(ms, f), f[n])
    BY TogetherAppend
  <2>3. \A x : x \in ToSet(Cat(Together(ms, f), f[n])) <=> x \in ToSet(Together(ms, f)) \/ x \in ToSet(f[n])
    BY <2>1, InCat
  <2>4. \A m : m \in ToSet(Add(ms, n)) <=> m \in ToSet(ms) \/ m = n
    BY InAppend
  <2> QED
    BY <1>2, <2>1, <2>2, <2>3, <2>4
<1> HIDE DEF P
<1>3. ns \in P
  BY <1>1, <1>2, SeqInduction
<1> QED
  BY <1>3 DEF P

\* The least of a set.
LEMMA MinIs ==
    ASSUME NEW T, T \subseteq Nat, NEW m \in T, \A y \in T : m <= y
    PROVE  Min(T) = m
<1>1. \A x \in T : (\A y \in T : x <= y) => x = m
  OBVIOUS
<1> QED
  BY <1>1 DEF Min

\* No node says anything first.
LEMMA FirstSetEmpty == ASSUME NEW f PROVE FirstSet(<<>>, f) = Unset
BY DEF FirstSet

\* One node more only matters when none before it says anything.
LEMMA FirstSetAppend ==
    ASSUME NEW N, NEW f, NEW ns \in Sq(N), NEW n \in N
    PROVE  FirstSet(Add(ns, n), f) = First(FirstSet(ns, f), f[n])
<1> DEFINE a == Add(ns, n)
           L == Len(ns)
           set(s) == {i \in DOMAIN s : f[s[i]] # Unset}
<1>1. /\ L \in Nat /\ DOMAIN ns = 1..L /\ DOMAIN a = 1..L + 1
      /\ (\A i \in 1..L : a[i] = ns[i]) /\ a[L + 1] = n
  <2>1. Add(ns, n) \in Sq(N) /\ Len(Add(ns, n)) = Len(ns) + 1
    BY AddProperties
  <2> QED
    BY <2>1, AddProperties, SqBasics
<1> HIDE DEF a, L
<1>2. \A i \in 1..L + 1 : i \in 1..L \/ i = L + 1
  BY <1>1
<1>3. \A i : i \in set(a) <=> i \in set(ns) \/ (i = L + 1 /\ f[n] # Unset)
  <2>1. L + 1 \in 1..L + 1 /\ L + 1 \notin 1..L /\ \A i \in 1..L : i \in 1..L + 1
    BY <1>1
  <2> QED
    BY <1>1, <1>2, <2>1
<1>4. FirstSet(ns, f) = IF set(ns) = {} THEN Unset ELSE f[ns[Min(set(ns))]]
  BY DEF FirstSet
<1>5. FirstSet(a, f) = IF set(a) = {} THEN Unset ELSE f[a[Min(set(a))]]
  BY DEF FirstSet
<1>6. CASE set(ns) # {}
  <2>1. set(ns) \subseteq 1..L /\ set(ns) \subseteq Nat
    BY <1>1
  <2>2. \A i \in set(ns) : f[ns[i]] # Unset
    OBVIOUS
  <2>3. \A i \in set(a) : i \in set(ns) \/ i = L + 1
    BY <1>3
  <2>4. \A i \in set(ns) : i \in set(a)
    BY <1>3
  <2> HIDE DEF set
  <2>5. PICK i \in set(ns) : \A j \in set(ns) : i <= j
    BY <1>6, <2>1, LeastNat
  <2>6. set(a) \subseteq Nat /\ \A j \in set(a) : i <= j
    BY <1>1, <2>1, <2>3, <2>5
  <2>7. Min(set(ns)) = i
    BY <2>1, <2>5, MinIs
  <2>8. Min(set(a)) = i
    BY <2>4, <2>5, <2>6, MinIs
  <2>9. a[i] = ns[i] /\ f[ns[i]] # Unset
    BY <1>1, <2>1, <2>2, <2>5
  <2> QED
    BY <1>4, <1>5, <1>6, <2>4, <2>5, <2>7, <2>8, <2>9 DEF a, First
<1>7. CASE set(ns) = {} /\ f[n] = Unset
  <2>1. set(a) = {}
    BY <1>3, <1>7
  <2> QED
    BY <1>4, <1>5, <1>7, <2>1 DEF a, First
<1>8. CASE set(ns) = {} /\ f[n] # Unset
  <2>1. \A i : i \in set(a) <=> i = L + 1
    BY <1>3, <1>8
  <2> HIDE DEF set
  <2>2. Min(set(a)) = L + 1
    <3>1. set(a) \subseteq Nat /\ L + 1 \in set(a) /\ \A j \in set(a) : L + 1 <= j
      BY <1>1, <2>1
    <3> QED
      BY <3>1, MinIs
  <2> QED
    BY <1>1, <1>4, <1>5, <1>8, <2>1, <2>2 DEF a, First
<1> QED
  BY <1>6, <1>7, <1>8

\* The first of two runs of nodes: of the first run if it says anything.
LEMMA FirstSetCat ==
    ASSUME NEW N, NEW f, NEW ns \in Sq(N), NEW ms \in Sq(N)
    PROVE  FirstSet(Cat(ns, ms), f) = First(FirstSet(ns, f), FirstSet(ms, f))
<1> DEFINE P == {us \in Sq(N) : FirstSet(Cat(ns, us), f) = First(FirstSet(ns, f), FirstSet(us, f))}
<1>1. <<>> \in P
  BY FirstSetEmpty, CatEmpty, SqBasics DEF First
<1>2. ASSUME NEW us \in Sq(N), NEW n \in N, us \in P PROVE Add(us, n) \in P
  <2>1. Add(us, n) \in Sq(N) /\ Cat(ns, us) \in Sq(N)
    BY AddProperties, CatType
  <2>2. FirstSet(Cat(ns, Add(us, n)), f) = First(FirstSet(Cat(ns, us), f), f[n])
    BY <2>1, CatOfAppend, FirstSetAppend
  <2>3. FirstSet(Add(us, n), f) = First(FirstSet(us, f), f[n])
    BY FirstSetAppend
  <2> QED
    BY <1>2, <2>1, <2>2, <2>3 DEF First
<1> HIDE DEF P
<1>3. ms \in P
  BY <1>1, <1>2, SeqInduction
<1> QED
  BY <1>3 DEF P

\* What is found is what one of them says; if none is, none says anything.
LEMMA FirstSetSound ==
    ASSUME NEW N, NEW f, NEW ns \in Sq(N)
    PROVE  /\ FirstSet(ns, f) # Unset => \E n \in ToSet(ns) : FirstSet(ns, f) = f[n]
           /\ FirstSet(ns, f) = Unset => \A n \in ToSet(ns) : f[n] = Unset
<1> DEFINE P == {us \in Sq(N) : /\ FirstSet(us, f) # Unset => \E n \in ToSet(us) : FirstSet(us, f) = f[n]
                                /\ FirstSet(us, f) = Unset => \A n \in ToSet(us) : f[n] = Unset}
<1>1. <<>> \in P
  BY FirstSetEmpty, InEmpty, SqBasics
<1>2. ASSUME NEW us \in Sq(N), NEW n \in N, us \in P PROVE Add(us, n) \in P
  <2>1. Add(us, n) \in Sq(N)
    BY AddProperties
  <2>2. FirstSet(Add(us, n), f) = First(FirstSet(us, f), f[n])
    BY FirstSetAppend
  <2>3. \A x : x \in ToSet(Add(us, n)) <=> x \in ToSet(us) \/ x = n
    BY InAppend
  <2> QED
    BY <1>2, <2>1, <2>2, <2>3 DEF First
<1> HIDE DEF P
<1>3. ns \in P
  BY <1>1, <1>2, SeqInduction
<1> QED
  BY <1>3 DEF P

\* What is found in what is together is found in one of the parts.
LEMMA FirstSetTogether ==
    ASSUME NEW N, NEW M, NEW p, Maps(p, N, Sq(M)), NEW f, NEW ns \in Sq(N),
           FirstSet(Together(ns, p), f) # Unset
    PROVE  \E n \in ToSet(ns) : FirstSet(p[n], f) = FirstSet(Together(ns, p), f)
<1> DEFINE P == {ms \in Sq(N) : FirstSet(Together(ms, p), f) # Unset =>
                    \E n \in ToSet(ms) : FirstSet(p[n], f) = FirstSet(Together(ms, p), f)}
<1>1. <<>> \in P
  BY TogetherEmpty, FirstSetEmpty, SqBasics
<1>2. ASSUME NEW ms \in Sq(N), NEW n \in N, ms \in P PROVE Add(ms, n) \in P
  <2>1. Add(ms, n) \in Sq(N) /\ Together(ms, p) \in Sq(M) /\ p[n] \in Sq(M)
    BY AddProperties, TogetherType DEF Maps
  <2>2. FirstSet(Together(Add(ms, n), p), f) = First(FirstSet(Together(ms, p), f), FirstSet(p[n], f))
    BY <2>1, TogetherAppend, FirstSetCat
  <2>3. \A x : x \in ToSet(Add(ms, n)) <=> x \in ToSet(ms) \/ x = n
    BY InAppend
  <2> QED
    BY <1>2, <2>1, <2>2, <2>3 DEF First
<1> HIDE DEF P
<1>3. ns \in P
  BY <1>1, <1>2, SeqInduction
<1> QED
  BY <1>3 DEF P

----------------------------------------------------------------------------

\* The one-element sequences, or empty ones, that Only puts together.
Pick(S, T) == [x \in S |-> IF x \in T THEN <<x>> ELSE <<>>]

\* Only is Together with a choice of the entries.
LEMMA PickMaps == ASSUME NEW S, NEW T PROVE Maps(Pick(S, T), S, Sq(S))
<1>1. \A x \in S : Pick(S, T)[x] = IF x \in T THEN <<x>> ELSE <<>>
  BY DEF Pick
<1>2. ASSUME NEW x \in S PROVE <<x>> \in Sq(S) /\ <<>> \in Sq(S)
  BY SqBasics
<1> QED
  BY <1>1, <1>2 DEF Maps

\* Only is what Pick leaves together.
LEMMA OnlyTogether ==
    ASSUME NEW S, NEW T, NEW s \in Sq(S)
    PROVE  Only(s, T) = Together(s, Pick(S, T))
<1> DEFINE a == [i \in DOMAIN s |-> IF s[i] \in T THEN <<s[i]>> ELSE <<>>]
           b == [i \in DOMAIN s |-> Pick(S, T)[s[i]]]
<1>1. \A i \in DOMAIN s : s[i] \in S
  BY SqBasics
<1>2. \A i \in DOMAIN s : Pick(S, T)[s[i]] = IF s[i] \in T THEN <<s[i]>> ELSE <<>>
  BY <1>1 DEF Pick
<1>3. a = b
  BY <1>2, Zenon
<1> QED
  BY <1>3, Zenon DEF Only, Together

\* Entries that are left are entries.
LEMMA OnlyType ==
    ASSUME NEW S, NEW T, NEW s \in Sq(S)
    PROVE  Only(s, T) \in Sq(S)
BY OnlyTogether, PickMaps, TogetherType

\* Only distributes over concatenation.
LEMMA OnlyCat ==
    ASSUME NEW S, NEW T, NEW s \in Sq(S), NEW t \in Sq(S)
    PROVE  Only(Cat(s, t), T) = Cat(Only(s, T), Only(t, T))
<1>1. Together(Cat(s, t), Pick(S, T)) = Cat(Together(s, Pick(S, T)), Together(t, Pick(S, T)))
  BY PickMaps, TogetherCat
<1> QED
  BY <1>1, OnlyTogether, CatType

\* Of nothing, nothing is left.
LEMMA OnlyEmpty == ASSUME NEW T PROVE Only(<<>>, T) = <<>>
<1>1. <<>> \in Sq({})
  BY SqBasics
<1> QED
  BY <1>1, OnlyTogether, TogetherEmpty

\* One entry is left or is not.
LEMMA OnlyOne ==
    ASSUME NEW x, NEW T
    PROVE  Only(<<x>>, T) = IF x \in T THEN <<x>> ELSE <<>>
<1>1. <<x>> \in Sq({x}) /\ x \in {x}
  BY SqBasics
<1>2. Pick({x}, T)[x] = IF x \in T THEN <<x>> ELSE <<>>
  BY DEF Pick
<1> HIDE DEF Pick
<1>3. Together(<<x>>, Pick({x}, T)) = Pick({x}, T)[x]
  BY <1>1, PickMaps, TogetherOne
<1> QED
  BY <1>1, <1>2, <1>3, OnlyTogether

\* Membership of what is left.
LEMMA InOnly ==
    ASSUME NEW S, NEW T, NEW s \in Sq(S)
    PROVE  \A x : x \in ToSet(Only(s, T)) <=> x \in ToSet(s) /\ x \in T
<1>1. \A x : x \in ToSet(Together(s, Pick(S, T))) <=> \E y \in ToSet(s) : x \in ToSet(Pick(S, T)[y])
  BY PickMaps, InTogether
<1>2. \A y \in ToSet(s) : y \in S
  BY InSeq DEF Sq
<1>3. \A y \in S : Pick(S, T)[y] = IF y \in T THEN <<y>> ELSE <<>>
  BY DEF Pick
<1>4. ASSUME NEW x, NEW y \in ToSet(s) PROVE x \in ToSet(Pick(S, T)[y]) <=> x = y /\ y \in T
  BY <1>2, <1>3, InEmpty, InOne
<1> QED
  BY <1>1, <1>4, OnlyTogether

\* Filtering what is together is filtering the parts.
LEMMA OnlyOfTogether ==
    ASSUME NEW N, NEW S, NEW f, Maps(f, N, Sq(S)), NEW ns \in Sq(N), NEW T,
           NEW g, \A n \in N : g[n] = Only(f[n], T)
    PROVE  Only(Together(ns, f), T) = Together(ns, g)
<1>0. Maps(g, N, Sq(S))
  BY OnlyType DEF Maps
<1> DEFINE P == {ms \in Sq(N) : Only(Together(ms, f), T) = Together(ms, g)}
<1>1. <<>> \in P
  BY TogetherEmpty, OnlyEmpty, SqBasics
<1>2. ASSUME NEW ms \in Sq(N), NEW n \in N, ms \in P PROVE Add(ms, n) \in P
  <2>1. Add(ms, n) \in Sq(N) /\ Together(ms, f) \in Sq(S) /\ f[n] \in Sq(S)
    BY AddProperties, TogetherType DEF Maps
  <2>2. Only(Together(Add(ms, n), f), T) = Cat(Only(Together(ms, f), T), Only(f[n], T))
    BY <2>1, TogetherAppend, OnlyCat
  <2>3. Together(Add(ms, n), g) = Cat(Together(ms, g), g[n])
    BY <1>0, TogetherAppend
  <2> QED
    BY <1>2, <2>1, <2>2, <2>3
<1> HIDE DEF P
<1>3. ns \in P
  BY <1>1, <1>2, SeqInduction
<1> QED
  BY <1>3 DEF P

----------------------------------------------------------------------------
(* The order of a chain.                                                   *)

\* Only what f makes of the nodes in ns matters.
LEMMA TogetherSame ==
    ASSUME NEW N, NEW ns \in Sq(N), NEW f, NEW g, \A n \in ToSet(ns) : f[n] = g[n]
    PROVE  Together(ns, f) = Together(ns, g)
<1>1. \A i \in DOMAIN ns : f[ns[i]] = g[ns[i]]
  BY DEF ToSet
<1>2. [i \in DOMAIN ns |-> f[ns[i]]] = [i \in DOMAIN ns |-> g[ns[i]]]
  BY <1>1, Zenon
<1> QED
  BY <1>2, Zenon DEF Together

\* The chain ends: from every node each branch leads to one of lower rank.
Ranked(D, next, rank, K) ==
    /\ 0 \notin D
    /\ K \in Nat
    /\ rank \in [D -> 0..K]
    /\ \A n \in D : next[n] \in Sq(D \cup {0})
    /\ \A n \in D : \A m \in ToSet(next[n]) : m # 0 => rank[m] < rank[n]

\* What a node comes with, and after it what f has for each of its branches.
Order(own, next, f, n) == IF n = 0 THEN <<>> ELSE Cat(own[n], Together(next[n], f))

\* f has the order of every node.
Orders(D, own, next, f) == f = [n \in D \cup {0} |-> Order(own, next, f, n)]

\* An order is a sequence.
LEMMA OrderType ==
    ASSUME NEW S, NEW D, NEW own, Maps(own, D, Sq(S)), NEW next, NEW rank, NEW K,
           Ranked(D, next, rank, K),
           NEW f, Maps(f, D \cup {0}, Sq(S)), NEW n \in D \cup {0}
    PROVE  Order(own, next, f, n) \in Sq(S)
<1>1. CASE n = 0
  BY <1>1, SqBasics DEF Order
<1>2. CASE n # 0
  <2>1. n \in D /\ next[n] \in Sq(D \cup {0})
    BY <1>2 DEF Ranked
  <2>2. Together(next[n], f) \in Sq(S) /\ own[n] \in Sq(S)
    BY <2>1, TogetherType DEF Maps
  <2> QED
    BY <1>2, <2>2, CatType DEF Order
<1> QED
  BY <1>1, <1>2

\* There is such an order,
LEMMA OrderExists ==
    ASSUME NEW S, NEW D, NEW own, Maps(own, D, Sq(S)), NEW next, NEW rank, NEW K,
           Ranked(D, next, rank, K)
    PROVE  \E f : Orders(D, own, next, f) /\ Maps(f, D \cup {0}, Sq(S))
<1> DEFINE DD == D \cup {0}
           Upto(k, f) == /\ f \in [DD -> Sq(S)]
                         /\ \A n \in DD : (n # 0 => rank[n] < k) => f[n] = Order(own, next, f, n)
           T == {k \in Nat : ~ \E f : Upto(k, f)}
<1>0. /\ K \in Nat /\ 0 \notin D
      /\ \A n \in D : rank[n] \in Nat /\ rank[n] < K + 1
      /\ \A n \in D : next[n] \in Sq(DD)
      /\ \A n \in D : \A m \in ToSet(next[n]) : m # 0 => rank[m] < rank[n]
  <2>1. K \in Nat /\ rank \in [D -> 0..K]
    BY DEF Ranked
  <2>2. \A n \in D : rank[n] \in Nat /\ rank[n] < K + 1
    BY <2>1
  <2> QED
    BY <2>2 DEF Ranked
<1>1. T = {}
  <2> SUFFICES ASSUME T # {} PROVE FALSE
    OBVIOUS
  <2>1. T \subseteq Nat
    OBVIOUS
  <2> HIDE DEF T
  <2>2. PICK k \in T : \A y \in T : k <= y
    BY <2>1, LeastNat
  <2> USE DEF T
  <2>3. CASE k = 0
    <3> DEFINE f == [n \in DD |-> <<>>]
    <3>1. f \in [DD -> Sq(S)] /\ f[0] = <<>>
      BY SqBasics
    <3>2. \A n \in DD : (n # 0 => rank[n] < 0) => n = 0
      BY <1>0
    <3>3. Order(own, next, f, 0) = <<>>
      BY DEF Order
    <3> HIDE DEF f
    <3>4. Upto(0, f)
      BY <3>1, <3>2, <3>3
    <3> QED
      BY <2>2, <2>3, <3>4
  <2>4. CASE k # 0
    <3>1. k - 1 \in Nat /\ k - 1 \notin T /\ k \in Nat
      <4>1. k \in Nat
        BY <2>2
      <4> HIDE DEF T
      <4> QED
        BY <2>2, <2>4, <4>1
    <3>2. PICK f : Upto(k - 1, f)
      BY <3>1
    <3>3. Maps(f, DD, Sq(S))
      BY <3>2 DEF Maps
    <3> DEFINE g == [n \in DD |-> Order(own, next, f, n)]
    <3>4. \A n \in DD : g[n] = Order(own, next, f, n) /\ g[n] \in Sq(S)
      BY <3>3, OrderType
    <3>5. g \in [DD -> Sq(S)]
      BY <3>4
    <3> HIDE DEF g
    <3>6. ASSUME NEW n \in DD, n # 0 => rank[n] < k PROVE g[n] = Order(own, next, g, n)
      <4>1. CASE n = 0
        BY <3>4, <4>1 DEF Order
      <4>2. CASE n # 0
        <5>1. n \in D /\ next[n] \in Sq(DD) /\ rank[n] \in Nat /\ rank[n] < k
          BY <1>0, <3>6, <4>2
        <5>2. ASSUME NEW m \in ToSet(next[n]) PROVE f[m] = g[m]
          <6>1. m \in DD
            BY <5>1, InSeq DEF Sq
          <6>2. m # 0 => rank[m] < k - 1
            <7>1. m # 0 => rank[m] \in Nat /\ rank[m] < rank[n]
              BY <1>0, <5>1, <6>1
            <7> QED
              BY <3>1, <5>1, <7>1
          <6> QED
            BY <3>2, <3>4, <6>1, <6>2
        <5>3. Together(next[n], f) = Together(next[n], g)
          BY <5>1, <5>2, TogetherSame
        <5> QED
          BY <3>4, <4>2, <5>3 DEF Order
      <4> QED
        BY <4>1, <4>2
    <3>7. Upto(k, g)
      BY <3>5, <3>6
    <3> QED
      BY <2>2, <3>7
  <2> QED
    BY <2>3, <2>4
<1>2. PICK f : Upto(K + 1, f)
  <2>1. K + 1 \in Nat
    BY <1>0
  <2> HIDE DEF Upto
  <2> QED
    BY <1>1, <2>1
<1>3. \A n \in DD : f[n] = Order(own, next, f, n)
  BY <1>0, <1>2
<1>4. f = [n \in DD |-> f[n]]
  BY <1>2
<1>5. f = [n \in DD |-> Order(own, next, f, n)]
  BY <1>3, <1>4, Zenon
<1>6. Maps(f, DD, Sq(S))
  BY <1>2 DEF Maps
<1> QED
  BY <1>5, <1>6, Zenon DEF Orders

\* Induction over the ranks: two functions that agree on a node when they agree
\* on its branches are the same,
LEMMA RankedSame ==
    ASSUME NEW D, NEW next, NEW rank, NEW K, Ranked(D, next, rank, K), NEW f, NEW g, f[0] = g[0],
           \A n \in D : (\A m \in ToSet(next[n]) : f[m] = g[m]) => f[n] = g[n]
    PROVE  \A n \in D \cup {0} : f[n] = g[n]
<1> DEFINE T == {k \in Nat : \E n \in D : rank[n] = k /\ f[n] # g[n]}
<1>0. /\ \A n \in D : rank[n] \in Nat /\ next[n] \in Sq(D \cup {0})
      /\ \A n \in D : \A m \in ToSet(next[n]) : m # 0 => rank[m] < rank[n]
  <2>1. K \in Nat /\ rank \in [D -> 0..K]
    BY DEF Ranked
  <2>2. \A n \in D : rank[n] \in Nat
    BY <2>1
  <2> QED
    BY <2>2 DEF Ranked
<1>1. T = {}
  <2> SUFFICES ASSUME T # {} PROVE FALSE
    OBVIOUS
  <2>1. T \subseteq Nat
    OBVIOUS
  <2> HIDE DEF T
  <2>2. PICK k \in T : \A y \in T : k <= y
    BY <2>1, LeastNat
  <2> USE DEF T
  <2>3. PICK n \in D : rank[n] = k /\ f[n] # g[n]
    BY <2>2
  <2>4. ASSUME NEW m \in ToSet(next[n]) PROVE f[m] = g[m]
    <3>1. m \in D \cup {0}
      BY <1>0, InSeq DEF Sq
    <3>2. CASE m # 0
      <4>1. rank[m] \in Nat /\ rank[m] < k /\ m \in D
        BY <1>0, <2>3, <3>1, <3>2
      <4>2. rank[m] \notin T
        <5> HIDE DEF T
        <5> QED
          BY <2>1, <2>2, <4>1
      <4> QED
        BY <4>1, <4>2
    <3> QED
      BY <3>2
  <2> QED
    BY <2>3, <2>4
<1> QED
  BY <1>0, <1>1

\* and only one.
LEMMA OrderUnique ==
    ASSUME NEW D, NEW own, NEW next, NEW rank, NEW K,
           Ranked(D, next, rank, K),
           NEW f, Orders(D, own, next, f), NEW g, Orders(D, own, next, g)
    PROVE  f = g
<1> DEFINE DD == D \cup {0}
<1>1. f = [n \in DD |-> Order(own, next, f, n)]
  BY Zenon DEF Orders
<1>2. g = [n \in DD |-> Order(own, next, g, n)]
  BY Zenon DEF Orders
<1>3. \A n \in DD : f[n] = Order(own, next, f, n) /\ g[n] = Order(own, next, g, n)
  BY <1>1, <1>2, Zenon
<1>4. f[0] = g[0]
  BY <1>3 DEF Order
<1>5. ASSUME NEW n \in D, \A m \in ToSet(next[n]) : f[m] = g[m] PROVE f[n] = g[n]
  <2>1. next[n] \in Sq(DD)
    BY DEF Ranked
  <2>2. Together(next[n], f) = Together(next[n], g)
    BY <1>5, <2>1, TogetherSame
  <2> QED
    BY <1>3, <2>2 DEF Order
<1>6. \A n \in DD : f[n] = g[n]
  BY <1>4, <1>5, RankedSame
<1> QED
  <2>1. [n \in DD |-> f[n]] = [n \in DD |-> g[n]]
    BY <1>6, Zenon
  <2>2. f = [n \in DD |-> f[n]] /\ g = [n \in DD |-> g[n]]
    BY <1>1, <1>2, <1>3, Zenon
  <2> QED
    BY <2>1, <2>2, Zenon


ErrorsOf(h) == {n \in DOMAIN h : h[n].kind = "Error"}
Own(h, n) == IF h[n].kind = "Error" THEN <<n>> ELSE <<>>

\* An *Error comes with itself, any other node with nothing.
LEMMA OwnType == ASSUME NEW h, NEW n \in DOMAIN h PROVE Own(h, n) \in Sq(ErrorsOf(h))
BY SqBasics DEF Own, ErrorsOf

\* Preorder is that order: an error before its branches, and these one after
\* the other.
LEMMA PreorderIs ==
    ASSUME NEW h, NEW D, D = DOMAIN h, NEW next, NEW rank, NEW K, Ranked(D, next, rank, K),
           NEW p, p = [n \in D \cup {0} |-> Preorder(h, n, next)]
    PROVE  /\ Maps(p, D \cup {0}, Sq(ErrorsOf(h)))
           /\ p[0] = <<>>
           /\ \A n \in D : p[n] = Cat(Own(h, n), Together(next[n], p))
<1> DEFINE DD == D \cup {0}
           own == [n \in D |-> Own(h, n)]
           one(n) == IF h[n].kind = "Error" THEN <<n>> ELSE <<>>
           step(f) == [n \in DOMAIN h \cup {0} |->
                          IF n = 0 THEN <<>>
                          ELSE one(n) \o FlattenSeq([i \in DOMAIN next[n] |-> f[next[n][i]]])]
           from == CHOOSE f : f = step(f)
<1>0. Maps(own, D, Sq(ErrorsOf(h))) /\ 0 \notin D /\ \A n \in D : own[n] = Own(h, n)
  BY OwnType DEF Maps, Ranked
<1> HIDE DEF own
<1>1. ASSUME NEW f PROVE step(f) = [n \in DD |-> Order(own, next, f, n)]
  <2>1. \A n \in DD : (IF n = 0 THEN <<>>
                      ELSE one(n) \o FlattenSeq([i \in DOMAIN next[n] |-> f[next[n][i]]]))
                     = Order(own, next, f, n)
    <3>1. ASSUME NEW n \in DD, n # 0
          PROVE  one(n) \o FlattenSeq([i \in DOMAIN next[n] |-> f[next[n][i]]])
                   = Cat(own[n], Together(next[n], f))
      <4>1. own[n] = one(n)
        BY <1>0, <3>1 DEF Own
      <4> QED
        BY <4>1, Zenon DEF Cat, Together
    <3> QED
      BY <3>1, Zenon DEF Order
  <2> QED
    BY <2>1, Zenon
<1>2. PICK f : Orders(D, own, next, f) /\ Maps(f, DD, Sq(ErrorsOf(h)))
  BY <1>0, OrderExists
<1>3. f = step(f)
  <2>1. f = [n \in DD |-> Order(own, next, f, n)]
    BY <1>2, Zenon DEF Orders
  <2> QED
    BY <1>1, <2>1
<1>4. ASSUME NEW n PROVE Preorder(h, n, next) = from[n]
  BY Zenon DEF Preorder
<1> HIDE DEF step
<1>5. from = step(from)
  BY <1>3, Zenon
<1> HIDE DEF from
<1>6. from = [n \in DD |-> Order(own, next, from, n)]
  BY <1>1, <1>5
<1>7. from = f
  <2>1. Orders(D, own, next, from)
    BY <1>6, Zenon DEF Orders
  <2> QED
    BY <1>2, <2>1, OrderUnique
<1>8. p = from
  <2>1. from = [n \in DD |-> from[n]]
    BY <1>6
  <2>2. \A n \in DD : Preorder(h, n, next) = from[n]
    BY <1>4
  <2> QED
    BY <2>1, <2>2, Zenon
<1>9. \A n \in DD : p[n] = Order(own, next, p, n)
  BY <1>6, <1>8
<1> QED
  BY <1>0, <1>2, <1>7, <1>8, <1>9 DEF Order

----------------------------------------------------------------------------
(* The last of several fields with one key.                                *)

\* A nonempty set of positions has a last one.
LEMMA LastExists ==
    ASSUME NEW n \in Nat, NEW at \in SUBSET (1..n), at # {}
    PROVE  \E i \in at : \A j \in at : j <= i
<1> DEFINE T == {n - i : i \in at}
<1>1. T \subseteq Nat /\ T # {}
  <2>1. PICK i \in at : TRUE
    OBVIOUS
  <2>2. n - i \in T
    OBVIOUS
  <2>3. \A j \in at : n - j \in Nat
    OBVIOUS
  <2> QED
    BY <2>2, <2>3
<1>2. PICK x \in T : \A y \in T : x <= y
  BY <1>1, LeastNat
<1>3. PICK i \in at : x = n - i
  BY <1>2
<1>4. \A j \in at : j \in Int /\ n - j \in T
  OBVIOUS
<1> HIDE DEF T
<1>5. ASSUME NEW j \in at PROVE j <= i
  <2>1. n - i <= n - j /\ i \in Int /\ j \in Int
    BY <1>2, <1>3, <1>4
  <2> QED
    BY <2>1
<1> QED
  BY <1>5

\* The last field with a key, if there is one.
LEMMA LastFieldIs ==
    ASSUME NEW S, NEW fs \in Sq(S), NEW k
    PROVE  \/ LastField(fs, k) = Unset /\ \A f \in ToSet(fs) : f.key # k
           \/ \E f \in ToSet(fs) : f.key = k /\ LastField(fs, k) = f.value
<1> DEFINE at == {i \in 1..Len(fs) : fs[i].key = k}
           last == CHOOSE i \in at : \A j \in at : j <= i
<1>1. \A x : x \in ToSet(fs) <=> \E i \in 1..Len(fs) : fs[i] = x
  BY InSeq
<1>2. LastField(fs, k) = IF at = {} THEN Unset ELSE fs[last].value
  BY Zenon DEF LastField
<1>3. CASE at = {}
  BY <1>1, <1>2, <1>3
<1>4. CASE at # {}
  <2>1. Len(fs) \in Nat /\ at \in SUBSET (1..Len(fs))
    BY SqBasics
  <2>2. \E i \in at : \A j \in at : j <= i
    <3> HIDE DEF at
    <3> QED
      BY <1>4, <2>1, LastExists
  <2>3. last \in at
    BY <2>2, Zenon
  <2>4. last \in 1..Len(fs) /\ fs[last].key = k
    BY <2>3
  <2> HIDE DEF last
  <2> QED
    BY <1>1, <1>2, <1>4, <2>4
<1> QED
  BY <1>3, <1>4

----------------------------------------------------------------------------
(* Boundary: the chains of the errors of a request.                        *)


\* The branches of an error that wraps nothing.
Nothings == {<<>>, <<0>>}

\* The n-th error: it wraps older ones, and the message of a status is no
\* message of an *Error's own.
ErrKinds == {"Error", "nilError", "plain", "wrap", "join", "status"}
ErrorOK(e, n) ==
    /\ e.kind \in ErrKinds
    /\ e.branches \in Seq(0..(n - 1))
    /\ e.kind = "Error" => /\ e.fields \in Seq(STRING) /\ e.attrs \in Seq(STRING)
                           /\ e.barrier \in BOOLEAN /\ e.public \in Wording \cup {Unset}
    /\ e.kind \in {"nilError", "plain", "status"} => e.branches \in Nothings
    /\ e.kind = "status" => \E what \in {"public", "title", "name"} : \E whose : e.message = <<what, whose>>
ErrsOK ==
    /\ \E S : errs \in Seq(S)
    /\ \A n \in DOMAIN errs : ErrorOK(errs[n], n)

ErrsOf == ErrorsOf(errs)
allNext == [m \in DOMAIN errs |-> errs[m].branches]
openNext == [m \in DOMAIN errs |-> OpenBranches(errs[m])]
pAll == [n \in DOMAIN errs \cup {0} |-> Preorder(errs, n, allNext)]
pOpen == [n \in DOMAIN errs \cup {0} |-> Preorder(errs, n, openNext)]
age == [n \in DOMAIN errs |-> n]

\* Errors are numbered from 1 in the order they are made; 0 is nil.
LEMMA ErrsDomain ==
    ASSUME ErrsOK
    PROVE  /\ Len(errs) \in Nat /\ DOMAIN errs = 1..Len(errs)
           /\ \A n \in DOMAIN errs : n \in Nat /\ n # 0
           /\ 0 \notin DOMAIN errs
<1>1. PICK S : errs \in Seq(S)
  BY DEF ErrsOK
<1> QED
  BY <1>1

\* An error wraps only errors made before it.
LEMMA BranchesOK ==
    ASSUME ErrsOK, NEW n \in DOMAIN errs
    PROVE  /\ errs[n].branches \in Sq(DOMAIN errs \cup {0})
           /\ \A m \in ToSet(errs[n].branches) : m # 0 => m \in DOMAIN errs /\ m < n
<1>1. n \in 1..Len(errs) /\ Len(errs) \in Nat /\ DOMAIN errs = 1..Len(errs)
  BY ErrsDomain
<1>2. errs[n].branches \in Seq(0..(n - 1))
  BY DEF ErrsOK, ErrorOK
<1>3. 0..(n - 1) \subseteq DOMAIN errs \cup {0}
  BY <1>1
<1>4. errs[n].branches \in Sq(DOMAIN errs \cup {0})
  BY <1>2, <1>3, SeqMonotonic DEF Sq
<1>5. ToSet(errs[n].branches) \subseteq 0..(n - 1)
  BY <1>2, InSeq DEF Sq
<1> QED
  BY <1>1, <1>3, <1>4, <1>5

\* The same of its open branches.
LEMMA OpenBranchesOK ==
    ASSUME ErrsOK, NEW n \in DOMAIN errs
    PROVE  /\ OpenBranches(errs[n]) \in Sq(DOMAIN errs \cup {0})
           /\ \A m \in ToSet(OpenBranches(errs[n])) : m # 0 => m \in DOMAIN errs /\ m < n
<1>1. OpenBranches(errs[n]) \in {<<>>, errs[n].branches}
  BY DEF OpenBranches
<1>2. CASE OpenBranches(errs[n]) = <<>>
  BY <1>2, InEmpty, SqBasics
<1>3. CASE OpenBranches(errs[n]) = errs[n].branches
  BY <1>3, BranchesOK
<1> QED
  BY <1>1, <1>2, <1>3

\* So the age of an error ranks its branches, all of them
LEMMA AllRanked == ASSUME ErrsOK PROVE Ranked(DOMAIN errs, allNext, age, Len(errs))
<1>1. /\ Len(errs) \in Nat /\ DOMAIN errs = 1..Len(errs)
      /\ \A n \in DOMAIN errs : n \in Nat /\ n # 0
      /\ 0 \notin DOMAIN errs
  BY ErrsDomain
<1>2. \A n \in DOMAIN errs : age[n] = n /\ allNext[n] = errs[n].branches
  BY DEF age, allNext
<1>3. age \in [DOMAIN errs -> 0..Len(errs)]
  BY <1>1 DEF age
<1>4. ASSUME NEW n \in DOMAIN errs
      PROVE  /\ allNext[n] \in Sq(DOMAIN errs \cup {0})
             /\ \A m \in ToSet(allNext[n]) : m # 0 => age[m] < age[n]
  <2>1. /\ errs[n].branches \in Sq(DOMAIN errs \cup {0})
        /\ \A m \in ToSet(errs[n].branches) : m # 0 => m \in DOMAIN errs /\ m < n
    BY BranchesOK
  <2> QED
    BY <1>2, <2>1
<1> QED
  BY <1>1, <1>3, <1>4 DEF Ranked

\* and those above its barrier.
LEMMA OpenRanked == ASSUME ErrsOK PROVE Ranked(DOMAIN errs, openNext, age, Len(errs))
<1>1. /\ Len(errs) \in Nat /\ DOMAIN errs = 1..Len(errs)
      /\ \A n \in DOMAIN errs : n \in Nat /\ n # 0
      /\ 0 \notin DOMAIN errs
  BY ErrsDomain
<1>2. \A n \in DOMAIN errs : age[n] = n /\ openNext[n] = OpenBranches(errs[n])
  BY DEF age, openNext
<1>3. age \in [DOMAIN errs -> 0..Len(errs)]
  BY <1>1 DEF age
<1>4. ASSUME NEW n \in DOMAIN errs
      PROVE  /\ openNext[n] \in Sq(DOMAIN errs \cup {0})
             /\ \A m \in ToSet(openNext[n]) : m # 0 => age[m] < age[n]
  <2>1. /\ OpenBranches(errs[n]) \in Sq(DOMAIN errs \cup {0})
        /\ \A m \in ToSet(OpenBranches(errs[n])) : m # 0 => m \in DOMAIN errs /\ m < n
    BY OpenBranchesOK
  <2> QED
    BY <1>2, <2>1
<1> QED
  BY <1>1, <1>3, <1>4 DEF Ranked

\* Every *Error of a chain: the error itself, and what its branches have.
LEMMA AllIs ==
    ASSUME ErrsOK
    PROVE  /\ Maps(pAll, DOMAIN errs \cup {0}, Sq(ErrsOf))
           /\ pAll[0] = <<>>
           /\ \A n \in DOMAIN errs : /\ All(n) = pAll[n]
                                     /\ pAll[n] = Cat(Own(errs, n), Together(errs[n].branches, pAll))
<1>1. /\ Maps(pAll, DOMAIN errs \cup {0}, Sq(ErrsOf))
      /\ pAll[0] = <<>>
      /\ \A n \in DOMAIN errs : pAll[n] = Cat(Own(errs, n), Together(allNext[n], pAll))
  BY AllRanked, PreorderIs DEF pAll, ErrsOf
<1>2. \A n \in DOMAIN errs : All(n) = pAll[n]
  BY DEF All, pAll, allNext
<1>3. \A n \in DOMAIN errs : allNext[n] = errs[n].branches
  BY DEF allNext
<1> QED
  BY <1>1, <1>2, <1>3

\* Every *Error above the barriers of a chain.
LEMMA OpenIs ==
    ASSUME ErrsOK
    PROVE  /\ Maps(pOpen, DOMAIN errs \cup {0}, Sq(ErrsOf))
           /\ pOpen[0] = <<>>
           /\ \A n \in DOMAIN errs :
                 /\ Unblocked(n) = pOpen[n]
                 /\ pOpen[n] = Cat(Own(errs, n), Together(OpenBranches(errs[n]), pOpen))
<1>1. /\ Maps(pOpen, DOMAIN errs \cup {0}, Sq(ErrsOf))
      /\ pOpen[0] = <<>>
      /\ \A n \in DOMAIN errs : pOpen[n] = Cat(Own(errs, n), Together(openNext[n], pOpen))
  BY OpenRanked, PreorderIs DEF pOpen, ErrsOf
<1>2. [m \in DOMAIN errs |-> OpenBranches(errs[m])] = openNext
  BY DEF openNext
<1>3. \A n \in DOMAIN errs : Unblocked(n) = pOpen[n]
  BY <1>2 DEF Unblocked, pOpen
<1>4. \A n \in DOMAIN errs : openNext[n] = OpenBranches(errs[n])
  BY DEF openNext
<1> QED
  BY <1>1, <1>3, <1>4

\* The entries that fields and attrs are made into.
Entries(what) == [key: STRING, value: {what} \X Nat \X Nat]

\* Numbered fields and attrs are entries.
LEMMA PairsType ==
    ASSUME NEW what, NEW n \in Nat, NEW keys \in Seq(STRING)
    PROVE  Pairs(what, n, keys) \in Seq(Entries(what))
<1>1. Len(keys) \in Nat /\ DOMAIN keys = 1..Len(keys) /\ \A i \in 1..Len(keys) : keys[i] \in STRING /\ i \in Nat
  OBVIOUS
<1>2. ASSUME NEW i \in 1..Len(keys)
      PROVE  [key |-> keys[i], value |-> <<what, n, i>>] \in Entries(what)
  <2>1. keys[i] \in STRING /\ i \in Nat
    BY <1>1
  <2> QED
    BY <2>1 DEF Entries
<1> DEFINE S == Entries(what)
           e(i) == [key |-> keys[i], value |-> <<what, n, i>>]
<1>3. Pairs(what, n, keys) = [i \in 1..Len(keys) |-> e(i)]
  BY <1>1, Zenon DEF Pairs
<1>4. \A i \in 1..Len(keys) : e(i) \in S
  BY <1>2
<1> HIDE DEF e, S
<1>5. [i \in 1..Len(keys) |-> e(i)] \in Seq(S)
  BY <1>1, <1>4
<1> QED
  BY <1>3, <1>5 DEF S

\* What errors carry as attrs and as fields.
LEMMA EntryMaps ==
    ASSUME ErrsOK
    PROVE  /\ Maps(attrs, ErrsOf, Sq(Entries("attr")))
           /\ Maps(fields, ErrsOf, Sq(Entries("field")))
           /\ ErrsOf \subseteq DOMAIN errs
<1>1. ASSUME NEW n \in ErrsOf
      PROVE  n \in DOMAIN errs /\ n \in Nat /\ errs[n].attrs \in Seq(STRING) /\ errs[n].fields \in Seq(STRING)
  BY ErrsDomain DEF ErrsOK, ErrorOK, ErrsOf, ErrorsOf
<1>2. \A n \in ErrsOf : /\ attrs[n] = Pairs("attr", n, errs[n].attrs)
                      /\ fields[n] = Pairs("field", n, errs[n].fields)
  BY <1>1 DEF attrs, fields
<1>3. ASSUME NEW n \in ErrsOf
      PROVE  attrs[n] \in Sq(Entries("attr")) /\ fields[n] \in Sq(Entries("field"))
  BY <1>1, <1>2, <1>3, PairsType DEF Sq
<1> QED
  BY <1>1, <1>3 DEF Maps

\* Attrs gives entries.
LEMMA AttrsType ==
    ASSUME ErrsOK, NEW n \in DOMAIN errs
    PROVE  Attrs(n) \in Sq(Entries("attr"))
<1>1. All(n) \in Sq(ErrsOf)
  BY AllIs DEF Maps
<1>2. Together(All(n), attrs) \in Sq(Entries("attr"))
  BY <1>1, EntryMaps, TogetherType
<1> QED
  BY <1>2 DEF Attrs

\* What the assumption says of Unset.
LEMMA UnsetApart ==
    /\ Unset \notin Nat
    /\ \A n \in Nat : Unset # <<"violation", n>>
    /\ \A n \in Nat, i \in Nat : Unset # <<"field", n, i>>
BY BoundaryAssumption

\* The members of a problem that stand for the code, the detail and the title.
LEMMA MemberCode ==
    ASSUME NEW n
    PROVE  /\ Member(n, "code") = <<"name", CodeOf(n)>>
           /\ Member(n, "detail") = Detail(CodeOf(n), LookupPublicMessage(n))
           /\ Member(n, "title") = Title(CodeOf(n))
<1>1. Member(n, "code") = String(CodeOf(n))
  BY Zenon DEF Member
<1>2. Member(n, "detail") = Detail(CodeOf(n), LookupPublicMessage(n))
  BY Zenon DEF Member
<1>3. Member(n, "title") = Title(CodeOf(n))
  BY Zenon DEF Member
<1> QED
  BY <1>1, <1>2, <1>3 DEF String

\* Entries that are put in front stay in front, and move the others.
LEMMA ThreeBefore ==
    ASSUME NEW s, \E S : s \in Seq(S), NEW x, NEW y, NEW z, NEW t, t = <<x, y, z>> \o s
    PROVE  /\ t[1] = x /\ t[2] = y /\ t[3] = z
           /\ DOMAIN t = 1..(Len(s) + 3) /\ \A i \in 4..(Len(s) + 3) : t[i] = s[i - 3]
<1>1. PICK S : s \in Seq(S)
  OBVIOUS
<1>2. Len(s) \in Nat /\ Len(t) = Len(s) + 3 /\ DOMAIN t = 1..Len(t)
  BY <1>1
<1>3. t[1] = x /\ t[2] = y /\ t[3] = z
  BY <1>1
<1>4. \A i \in 4..(Len(s) + 3) : t[i] = s[i - 3]
  BY <1>1
<1> QED
  BY <1>2, <1>3, <1>4

\* A public message is an error's own, or worded like a title or a code.
LEMMA PublicFound ==
    ASSUME ErrsOK, NEW n \in DOMAIN errs, LookupPublicMessage(n) # Unset
    PROVE  \E what \in {"public", "title", "name"} : \E whose : LookupPublicMessage(n) = <<what, whose>>
<1>1. Unblocked(n) \in Sq(ErrsOf)
  BY OpenIs DEF Maps
<1>2. LookupPublicMessage(n) = FirstSet(Unblocked(n), public)
  BY DEF LookupPublicMessage
<1>3. PICK m \in ToSet(Unblocked(n)) : LookupPublicMessage(n) = public[m]
  BY <1>1, <1>2, FirstSetSound
<1>4. m \in DOMAIN errs /\ errs[m].kind = "Error"
  BY <1>1, InSeq DEF ErrsOf, ErrorsOf
<1>5. public[m] = IF errs[m].public = OwnWords THEN <<"public", m>> ELSE errs[m].public
  BY <1>4 DEF public
<1>6. errs[m].public \in {OwnWords, Unset} \cup ({"title", "name"} \X Nat)
  BY <1>4 DEF ErrsOK, ErrorOK, Wording
<1> QED
  BY <1>3, <1>5, <1>6

\* The message of a status is public, or the name of the code.
LEMMA MessageFound ==
    ASSUME ErrsOK, NEW n \in DOMAIN errs
    PROVE  \E what \in {"public", "title", "name"} : \E whose : ToStatus(n).message = <<what, whose>>
<1>1. ToStatus(n).message = IF LookupPublicMessage(n) # Unset THEN LookupPublicMessage(n)
                             ELSE <<"name", CodeOf(n)>>
  BY DEF ToStatus, String
<1> QED
  BY <1>1, PublicFound

\* An error that is well formed keeps them all well formed.
LEMMA MakeErrs ==
    ASSUME ErrsOK, NEW e, ErrorOK(e, Len(errs) + 1), Make(e)
    PROVE  ErrsOK'
<1>1. PICK S : errs \in Seq(S)
  BY DEF ErrsOK
<1>2. errs' = Append(errs, e)
  BY DEF Make
<1>3. errs' \in Seq(S \cup {e})
  BY <1>1, <1>2
<1>4. /\ Len(errs) \in Nat /\ DOMAIN errs = 1..Len(errs) /\ DOMAIN errs' = 1..(Len(errs) + 1)
      /\ (\A n \in 1..Len(errs) : errs'[n] = errs[n]) /\ errs'[Len(errs) + 1] = e
  BY <1>1, <1>2
<1>5. ASSUME NEW n \in DOMAIN errs' PROVE ErrorOK(errs'[n], n)
  <2>1. n \in 1..Len(errs) \/ n = Len(errs) + 1
    BY <1>4
  <2> QED
    BY <1>4, <2>1 DEF ErrsOK
<1> QED
  BY <1>3, <1>5 DEF ErrsOK

\* The constructors make such an error,
LEMMA ConstructErrs ==
    ASSUME ErrsOK, NEW c \in ErrorContent, NEW cause \in 0..Len(errs), Construct(c, cause)
    PROVE  ErrsOK'
<1> DEFINE e == [c EXCEPT !.branches = <<cause>>]
<1>1. /\ e.kind = "Error" /\ e.branches = <<cause>>
      /\ e.fields \in Seq(STRING) /\ e.attrs \in Seq(STRING) /\ e.barrier \in BOOLEAN
      /\ e.public \in Wording \cup {Unset}
  BY DEF ErrorContent
<1>2. Make(e)
  BY DEF Construct
<1> HIDE DEF e
<1>3. <<cause>> \in Seq(0..((Len(errs) + 1) - 1))
  BY ErrsDomain
<1>4. ErrorOK(e, Len(errs) + 1)
  BY <1>1, <1>3 DEF ErrorOK, ErrKinds
<1> QED
  BY <1>2, <1>4, MakeErrs

\* so does foreign code,
LEMMA ForeignErrs ==
    ASSUME ErrsOK, NEW kind \in ErrKinds \ {"Error", "status"}, NEW bs \in Seq(0..Len(errs)),
           kind \in {"nilError", "plain"} => bs \in Nothings,
           Make(Foreign(kind, bs))
    PROVE  ErrsOK'
<1>1. Foreign(kind, bs).kind = kind /\ Foreign(kind, bs).branches = bs
  BY DEF Foreign
<1>2. (Len(errs) + 1) - 1 = Len(errs)
  BY ErrsDomain
<1>3. bs \in Seq(0..((Len(errs) + 1) - 1))
  BY <1>2
<1>4. ErrorOK(Foreign(kind, bs), Len(errs) + 1)
  BY <1>1, <1>3 DEF ErrorOK
<1> QED
  BY <1>4, MakeErrs

\* and so does every step.
LEMMA StepErrs ==
    ASSUME ErrsOK, [BNext]_errs
    PROVE  ErrsOK'
<1>0. /\ Len(errs) \in Nat /\ DOMAIN errs = 1..Len(errs)
      /\ \A n \in DOMAIN errs : n \in 0..Len(errs)
      /\ Contents \subseteq ErrorContent
  BY ErrsDomain, BoundaryAssumption
<1>1. ASSUME NEW c \in Contents, NEW cause \in 0..Len(errs), Construct(c, cause) PROVE ErrsOK'
  BY <1>0, <1>1, ConstructErrs
<1>2. CASE TypedNil
  <2>1. <<0>> \in Seq(0..Len(errs))
    BY <1>0
  <2> QED
    BY <1>2, <2>1, ForeignErrs DEF TypedNil, ErrKinds, Nothings
<1>3. CASE Plain
  <2>1. <<>> \in Seq(0..Len(errs))
    BY <1>0
  <2> QED
    BY <1>3, <2>1, ForeignErrs DEF Plain, ErrKinds, Nothings
<1>4. CASE Over
  <2>1. errs' = <<>> /\ <<>> \in Seq({})
    BY <1>4 DEF Over
  <2>2. DOMAIN errs' = {}
    BY <2>1
  <2> QED
    BY <2>1, <2>2 DEF ErrsOK
<1>5. ASSUME NEW n \in DOMAIN errs, Errorf(n) PROVE ErrsOK'
  <2>1. <<n>> \in Seq(0..Len(errs))
    BY <1>0
  <2> QED
    BY <1>5, <2>1, ForeignErrs DEF Errorf, ErrKinds
<1>6. ASSUME NEW n \in DOMAIN errs, Receive(n) PROVE ErrsOK'
  <2> DEFINE e == [kind |-> "status", branches |-> <<>>, status |-> ToStatus(n),
                   message |-> ToStatus(n).message]
  <2>1. e.kind = "status" /\ e.branches = <<>> /\ e.message = ToStatus(n).message
    OBVIOUS
  <2>2. Make(e)
    BY <1>6 DEF Receive
  <2> HIDE DEF e
  <2>3. <<>> \in Seq(0..((Len(errs) + 1) - 1))
    OBVIOUS
  <2>4. \E what \in {"public", "title", "name"} : \E whose : e.message = <<what, whose>>
    BY <2>1, MessageFound
  <2>5. ErrorOK(e, Len(errs) + 1)
    BY <2>1, <2>3, <2>4 DEF ErrorOK, ErrKinds, Nothings
  <2> QED
    BY <2>2, <2>5, MakeErrs
<1>7. ASSUME NEW n \in DOMAIN errs, FromError(n) PROVE ErrsOK'
  <2> DEFINE code == IF Statuses(n) = <<>> THEN Unknown ELSE CodeFromStatus(Head(Statuses(n)))
             e == [[Bare EXCEPT !.code = code] EXCEPT !.branches = <<n>>]
  <2>1. Make(e)
    BY <1>7 DEF FromError, Construct
  <2>2. /\ e.kind = "Error" /\ e.branches = <<n>>
        /\ e.fields \in Seq(STRING) /\ e.attrs \in Seq(STRING) /\ e.barrier \in BOOLEAN
        /\ e.public \in Wording \cup {Unset}
    BY DEF Bare
  <2> HIDE DEF e
  <2>3. <<n>> \in Seq(0..((Len(errs) + 1) - 1))
    BY <1>0
  <2>4. ErrorOK(e, Len(errs) + 1)
    BY <2>2, <2>3 DEF ErrorOK, ErrKinds
  <2> QED
    BY <2>1, <2>4, MakeErrs
<1>8. ASSUME NEW n \in DOMAIN errs, NEW m \in DOMAIN errs, Join(m, n) PROVE ErrsOK'
  <2>1. <<m, n>> \in Seq(0..Len(errs))
    BY <1>0
  <2> QED
    BY <1>8, <2>1, ForeignErrs DEF Join, ErrKinds
<1>9. CASE UNCHANGED errs
  BY <1>9 DEF ErrsOK
<1> QED
  BY <1>1, <1>2, <1>3, <1>4, <1>5, <1>6, <1>7, <1>8, <1>9 DEF BNext

\* At the start there is no error.
LEMMA InitErrs == BInit => ErrsOK
<1> SUFFICES ASSUME BInit PROVE ErrsOK
  OBVIOUS
<1>1. errs = <<>> /\ <<>> \in Seq({}) /\ DOMAIN errs = {}
  BY DEF BInit
<1> QED
  BY <1>1 DEF ErrsOK

\* The newest error is an error.
LEMMA NewestIs == ASSUME ErrsOK, NEW n \in Newest PROVE n \in DOMAIN errs
<1>1. n = Len(errs) /\ errs # <<>>
  BY DEF Newest
<1>2. PICK S : errs \in Seq(S)
  BY DEF ErrsOK
<1> QED
  BY <1>1, <1>2

\* The public field of an error is one of the fields it shows.
LEMMA PublicFieldIs ==
    ASSUME ErrsOK, NEW n \in DOMAIN errs, NEW k
    PROVE  LET v == PublicField(n, k)
               shown == ToSet(Together(Unblocked(n), fields))
           IN  \/ v = Unset /\ \A f \in shown : f.key # k
               \/ /\ v # Unset /\ Entry(k, v) \in shown
                  /\ v[1] = "field"
<1> DEFINE lf == [m \in DOMAIN errs |-> LastField(fields[m], k)]
           o == Unblocked(n)
           v == PublicField(n, k)
           shown == ToSet(Together(o, fields))
<1>1. o \in Sq(ErrsOf) /\ Maps(fields, ErrsOf, Sq(Entries("field"))) /\ ErrsOf \subseteq DOMAIN errs
  BY OpenIs, EntryMaps DEF Maps
<1>2. v = FirstSet(o, lf)
  BY DEF PublicField
<1>3. \A x : x \in shown <=> \E m \in ToSet(o) : x \in ToSet(fields[m])
  BY <1>1, InTogether
<1>4. \A m \in ToSet(o) : m \in ErrsOf /\ m \in DOMAIN errs /\ lf[m] = LastField(fields[m], k)
                          /\ fields[m] \in Sq(Entries("field"))
  BY <1>1, InSeq DEF Maps
<1>5. /\ v # Unset => \E m \in ToSet(o) : v = lf[m]
      /\ v = Unset => \A m \in ToSet(o) : lf[m] = Unset
  BY <1>1, <1>2, FirstSetSound
<1> HIDE DEF lf, v, shown, o
<1>6. CASE v # Unset
  <2>1. PICK m \in ToSet(o) : v = lf[m]
    BY <1>5, <1>6
  <2>2. PICK f \in ToSet(fields[m]) : f.key = k /\ v = f.value
    BY <1>4, <1>6, <2>1, LastFieldIs
  <2>3. f \in Entries("field")
    BY <1>4, InSeq
  <2>4. f = Entry(k, v) /\ v[1] = "field"
    BY <2>2, <2>3 DEF Entries, Entry
  <2> QED
    BY <1>3, <1>6, <2>2, <2>4 DEF v, shown, o
<1>7. CASE v = Unset
  <2>1. ASSUME NEW m \in ToSet(o), NEW f \in ToSet(fields[m]), f.key = k PROVE FALSE
    <3>1. lf[m] = Unset
      BY <1>5, <1>7
    <3>2. PICK g \in ToSet(fields[m]) : g.key = k /\ g.value = Unset
      BY <1>4, <2>1, <3>1, LastFieldIs
    <3>3. g \in Entries("field")
      BY <1>4, InSeq
    <3>4. PICK i \in Nat, j \in Nat : g.value = <<"field", i, j>>
      BY <3>3 DEF Entries
    <3>5. Unset # <<"field", i, j>>
      BY UnsetApart
    <3> QED
      BY <3>2, <3>4, <3>5
  <2> QED
    BY <1>3, <1>7, <2>1 DEF v, shown, o
<1> QED
  BY <1>6, <1>7 DEF v, shown, o

\* A member that is not one of the problem's own is a field, or the list of
\* violations.
LEMMA MemberOther ==
    ASSUME NEW n, NEW k, k \notin Reserved
    PROVE  IF k = "errors" /\ PublicField(n, k) = Unset /\ FieldViolations(n) # <<>>
           THEN Member(n, k) = List(FieldViolations(n))
           ELSE Member(n, k) = PublicField(n, k)
BY Zenon DEF Member, Reserved

\* What n wraps above any barrier.
Above(n) == IF errs[n].kind = "Error" /\ errs[n].barrier THEN {} ELSE Branches(n)

\* What an error wraps above its barrier.
LEMMA AboveIs ==
    ASSUME ErrsOK, NEW n \in DOMAIN errs
    PROVE  \A m \in ToSet(OpenBranches(errs[n])) \ {0} : m \in Above(n) /\ m \in DOMAIN errs
<1>1. \A m \in ToSet(OpenBranches(errs[n])) \ {0} : m \in DOMAIN errs
  BY OpenBranchesOK
<1>2. Branches(n) = ToSet(errs[n].branches) \ {0}
  BY DEF Branches
<1>3. \A m \in ToSet(OpenBranches(errs[n])) \ {0} : m \in Above(n)
  BY <1>2, InEmpty DEF Above, OpenBranches
<1> QED
  BY <1>1, <1>3

\* What is found in a chain is the error's own or is found in a branch of it.
LEMMA FoundAbove ==
    ASSUME ErrsOK, NEW n \in DOMAIN errs, NEW f, FirstSet(Unblocked(n), f) # Unset
    PROVE  \/ n \in ErrsOf /\ FirstSet(Unblocked(n), f) = f[n]
           \/ \E m \in Above(n) : m \in DOMAIN errs /\ FirstSet(Unblocked(m), f) = FirstSet(Unblocked(n), f)
<1> DEFINE bs == OpenBranches(errs[n])
           N == DOMAIN errs \cup {0}
<1>1. /\ Maps(pOpen, N, Sq(ErrsOf)) /\ pOpen[0] = <<>> /\ Unblocked(n) = pOpen[n]
      /\ \A m \in DOMAIN errs : Unblocked(m) = pOpen[m]
      /\ pOpen[n] = Cat(Own(errs, n), Together(bs, pOpen))
  BY OpenIs
<1>2. bs \in Sq(N) /\ Own(errs, n) \in Sq(ErrsOf)
  BY OpenBranchesOK, OwnType DEF ErrsOf
<1>3. Together(bs, pOpen) \in Sq(ErrsOf)
  BY <1>1, <1>2, TogetherType
<1>4. FirstSet(pOpen[n], f) = First(FirstSet(Own(errs, n), f), FirstSet(Together(bs, pOpen), f))
  BY <1>1, <1>2, <1>3, FirstSetCat
<1>5. CASE FirstSet(Own(errs, n), f) # Unset
  <2>1. PICK m \in ToSet(Own(errs, n)) : FirstSet(Own(errs, n), f) = f[m]
    BY <1>2, <1>5, FirstSetSound
  <2>2. m = n /\ n \in ErrsOf
    BY <1>1, <1>2, <2>1, InEmpty, InOne, InSeq DEF Own
  <2> QED
    BY <1>1, <1>4, <1>5, <2>1, <2>2 DEF First
<1>6. CASE FirstSet(Own(errs, n), f) = Unset
  <2>1. FirstSet(Together(bs, pOpen), f) # Unset /\ FirstSet(Together(bs, pOpen), f) = FirstSet(pOpen[n], f)
    BY <1>1, <1>4, <1>6 DEF First
  <2>2. PICK m \in ToSet(bs) : FirstSet(pOpen[m], f) = FirstSet(pOpen[n], f)
    BY <1>1, <1>2, <2>1, FirstSetTogether
  <2>3. m # 0
    BY <1>1, <2>1, <2>2, FirstSetEmpty
  <2>4. m \in Above(n) /\ m \in DOMAIN errs
    BY <2>2, <2>3, AboveIs
  <2> QED
    BY <1>1, <2>2, <2>4
<1> QED
  BY <1>5, <1>6

\* The same of what is put together.
LEMMA PartAbove ==
    ASSUME ErrsOK, NEW n \in DOMAIN errs, NEW S, NEW f, Maps(f, ErrsOf, Sq(S)),
           NEW x \in ToSet(Together(Unblocked(n), f))
    PROVE  \/ n \in ErrsOf /\ x \in ToSet(f[n])
           \/ \E m \in Above(n) : m \in DOMAIN errs /\ x \in ToSet(Together(Unblocked(m), f))
<1> DEFINE bs == OpenBranches(errs[n])
           N == DOMAIN errs \cup {0}
<1>1. /\ Maps(pOpen, N, Sq(ErrsOf)) /\ pOpen[0] = <<>> /\ Unblocked(n) = pOpen[n]
      /\ \A m \in DOMAIN errs : Unblocked(m) = pOpen[m]
      /\ pOpen[n] = Cat(Own(errs, n), Together(bs, pOpen))
  BY OpenIs
<1>2. bs \in Sq(N) /\ Own(errs, n) \in Sq(ErrsOf)
  BY OpenBranchesOK, OwnType DEF ErrsOf
<1>3. Together(bs, pOpen) \in Sq(ErrsOf)
  BY <1>1, <1>2, TogetherType
<1>4. PICK e \in ToSet(pOpen[n]) : x \in ToSet(f[e])
  <2>1. pOpen[n] \in Sq(ErrsOf)
    BY <1>1 DEF Maps
  <2> QED
    BY <1>1, <2>1, InTogether
<1>5. CASE e \in ToSet(Own(errs, n))
  <2>1. e = n /\ n \in ErrsOf
    BY <1>2, <1>5, InEmpty, InOne, InSeq DEF Own
  <2> QED
    BY <1>4, <2>1
<1>6. CASE e \in ToSet(Together(bs, pOpen))
  <2>1. PICK m \in ToSet(bs) : e \in ToSet(pOpen[m])
    BY <1>1, <1>2, <1>6, InTogether
  <2>2. m # 0
    BY <1>1, <2>1, InEmpty
  <2>3. m \in Above(n) /\ m \in DOMAIN errs
    BY <2>1, <2>2, AboveIs
  <2>4. Unblocked(m) = pOpen[m] /\ pOpen[m] \in Sq(ErrsOf)
    BY <1>1, <2>3 DEF Maps
  <2>5. x \in ToSet(Together(Unblocked(m), f))
    BY <1>4, <2>1, <2>4, InTogether
  <2> QED
    BY <2>3, <2>5
<1>7. e \in ToSet(Own(errs, n)) \/ e \in ToSet(Together(bs, pOpen))
  BY <1>1, <1>2, <1>3, <1>4, InCat
<1> QED
  BY <1>5, <1>6, <1>7

\* What a client may see of n itself.
SeenParts(n) ==
    ({Member(n, k) : k \in MemberKey} \cup ToSet(ToStatus(n).violations)
       \cup {ToStatus(n).message, ToStatus(n).retry}) \ {Unset}

\* The members of a problem response.
LEMMA MemberIs ==
    ASSUME NEW n, NEW k \in MemberKey
    PROVE  \/ Member(n, k) = Unset
           \/ \E c : Member(n, k) \in {<<"title", c>>, <<"status", c>>, <<"name", c>>}
           \/ Member(n, k) = LookupPublicMessage(n)
           \/ k \notin Reserved /\ Member(n, k) = PublicField(n, k)
           \/ Member(n, k) = List(FieldViolations(n))
<1>0. \E c : Title(CodeOf(n)) \in {<<"title", c>>, <<"name", c>>}
  BY DEF Title, String
<1>1. CASE k \notin Reserved
  BY <1>1, MemberOther
<1>2. CASE k = "title"
  BY <1>0, <1>2, MemberCode
<1>3. CASE k = "status"
  <2>1. Member(n, "status") = <<"status", HTTPStatus(CodeOf(n))>>
    BY Zenon DEF Member
  <2> QED
    BY <1>3, <2>1
<1>4. CASE k = "detail" \/ k = "code"
  BY <1>4, MemberCode DEF Detail
<1>5. CASE k \in {"", "type", "instance"}
  BY <1>5, Zenon DEF Member
<1> QED
  BY <1>1, <1>2, <1>3, <1>4, <1>5 DEF Reserved

\* A client sees what is in the members and in the status.
LEMMA SeenIs ==
    ASSUME NEW n, NEW d
    PROVE  d \in Seen(n) <=> \E x \in SeenParts(n) : d \in DataOf(x)
BY DEF Seen, SeenParts

\* A member of a problem is seen.
LEMMA SeenMember ==
    ASSUME NEW n, NEW k \in MemberKey, Member(n, k) # Unset, Member(n, k)[1] # "list"
    PROVE  Member(n, k) \in Seen(n)
<1>1. Member(n, k) \in SeenParts(n)
  BY DEF SeenParts
<1>2. Member(n, k) \in DataOf(Member(n, k))
  BY DEF DataOf
<1> QED
  BY <1>1, <1>2, SeenIs

\* The public message a client of n sees is generic, n's own or of what it wraps.
LEMMA MessageOwn ==
    ASSUME ErrsOK, NEW n \in DOMAIN errs, LookupPublicMessage(n) # Unset
    PROVE  LET d == LookupPublicMessage(n)
           IN  /\ DataOf(d) = {d}
               /\ \/ d[1] \in Generic
                  \/ d = <<"public", n>>
                  \/ \E m \in Above(n) : d \in Seen(m)
<1> DEFINE d == LookupPublicMessage(n)
<1>1. \A m : LookupPublicMessage(m) = FirstSet(Unblocked(m), public)
  BY DEF LookupPublicMessage
<1>2. PICK what \in {"public", "title", "name"} : \E whose : d = <<what, whose>>
  BY PublicFound
<1>3. d[1] = what /\ d[1] # "list" /\ DataOf(d) = {d}
  BY <1>2 DEF DataOf
<1>4. CASE n \in ErrsOf /\ d = public[n]
  <2>1. public[n] = IF errs[n].public = OwnWords THEN <<"public", n>> ELSE errs[n].public
    BY DEF public
  <2>2. errs[n].public \in {OwnWords, Unset} \cup ({"title", "name"} \X Nat)
    BY <1>4 DEF ErrsOK, ErrorOK, Wording, ErrsOf, ErrorsOf
  <2>3. CASE errs[n].public \in {"title", "name"} \X Nat /\ errs[n].public # OwnWords
    BY <1>3, <1>4, <2>1, <2>3 DEF Generic
  <2> HIDE DEF d
  <2> QED
    BY <1>3, <1>4, <2>1, <2>2, <2>3 DEF d
<1>5. CASE \E m \in Above(n) : m \in DOMAIN errs /\ FirstSet(Unblocked(m), public) = d
  <2>1. PICK m \in Above(n) : LookupPublicMessage(m) = d
    BY <1>1, <1>5
  <2>2. CASE what = "public"
    <3>1. Title(CodeOf(m))[1] # "public"
      BY DEF Title, String
    <3>2. Member(m, "detail") = d /\ "detail" \in MemberKey
      BY <1>3, <2>1, <2>2, <3>1, MemberCode DEF Detail, MemberKey, Reserved
    <3>3. d \in Seen(m)
      BY <1>3, <3>2, SeenMember
    <3> QED
      BY <1>3, <3>3
  <2> QED
    BY <1>3, <2>2 DEF Generic
<1>6. FirstSet(Unblocked(n), public) = d
  BY <1>1
<1> HIDE DEF d
<1> QED
  BY <1>4, <1>5, <1>6, FoundAbove DEF d

\* A delay is the delay of an error.
LEMMA DelayFound ==
    ASSUME ErrsOK, NEW n \in DOMAIN errs, LookupRetryDelay(n) # Unset
    PROVE  \E m : LookupRetryDelay(n) = <<"delay", m>>
<1>1. Unblocked(n) \in Sq(ErrsOf)
  BY OpenIs DEF Maps
<1>2. PICK m \in ToSet(Unblocked(n)) : LookupRetryDelay(n) = delay[m]
  BY <1>1, FirstSetSound DEF LookupRetryDelay
<1>3. m \in DOMAIN errs
  BY <1>1, <1>2, InSeq, EntryMaps
<1>4. delay[m] \in {<<"delay", m>>, Unset}
  BY <1>3 DEF delay
<1> QED
  BY <1>2, <1>4

\* A delay that is sent is the error's own or that of an error above its barrier.
LEMMA DelayOwn ==
    ASSUME ErrsOK, NEW n \in DOMAIN errs, LookupRetryDelay(n) # Unset
    PROVE  LET d == LookupRetryDelay(n)
           IN  /\ DataOf(d) = {d}
               /\ \/ d = <<"delay", n>>
                  \/ \E m \in Above(n) : d \in Seen(m)
<1> DEFINE d == LookupRetryDelay(n)
<1>1. \A m : LookupRetryDelay(m) = FirstSet(Unblocked(m), delay)
  BY DEF LookupRetryDelay
<1>2. PICK e : d = <<"delay", e>>
  BY DelayFound
<1>3. d[1] # "list" /\ DataOf(d) = {d} /\ d # Unset
  BY <1>2 DEF DataOf
<1>4. CASE d = delay[n]
  <2>1. delay[n] \in {<<"delay", n>>, Unset}
    BY DEF delay
  <2> QED
    BY <1>3, <1>4, <2>1
<1>5. CASE \E m \in Above(n) : m \in DOMAIN errs /\ FirstSet(Unblocked(m), delay) = d
  <2>1. PICK m \in Above(n) : LookupRetryDelay(m) = d
    BY <1>1, <1>5
  <2>2. ToStatus(m).retry = d
    BY <2>1 DEF ToStatus
  <2>3. d \in SeenParts(m)
    BY <1>3, <2>2 DEF SeenParts
  <2>4. d \in Seen(m)
    BY <1>3, <2>3, SeenIs
  <2> QED
    BY <1>3, <2>4
<1>6. FirstSet(Unblocked(n), delay) = d
  BY <1>1
<1> HIDE DEF d
<1> QED
  BY <1>4, <1>5, <1>6, FoundAbove DEF d

\* A violation, alone or in the list of them.
LEMMA ViolationMaps ==
    ASSUME ErrsOK
    PROVE  /\ Maps(violations, ErrsOf, Sq({"violation"} \X DOMAIN errs))
           /\ \A n \in ErrsOf : \A d \in ToSet(violations[n]) : d = <<"violation", n>>
<1>1. \A n \in ErrsOf : n \in DOMAIN errs
  BY EntryMaps
<1>2. \A n \in ErrsOf : violations[n] \in {<< <<"violation", n>> >>, <<>>}
  BY <1>1 DEF violations
<1>3. ASSUME NEW n \in ErrsOf PROVE violations[n] \in Sq({"violation"} \X DOMAIN errs)
  <2>1. <<"violation", n>> \in {"violation"} \X DOMAIN errs
    BY <1>1
  <2> QED
    BY <1>2, <2>1, SqBasics
<1>4. ASSUME NEW n \in ErrsOf, NEW d \in ToSet(violations[n]) PROVE d = <<"violation", n>>
  BY <1>2, InEmpty, InOne
<1> QED
  BY <1>3, <1>4 DEF Maps

\* So is a violation.
LEMMA ViolationOwn ==
    ASSUME ErrsOK, NEW n \in DOMAIN errs, NEW d \in ToSet(FieldViolations(n))
    PROVE  /\ DataOf(d) = {d}
           /\ \/ d = <<"violation", n>>
              \/ \E m \in Above(n) : d \in Seen(m)
<1>1. \A m : FieldViolations(m) = Together(Unblocked(m), violations)
  BY DEF FieldViolations
<1>2. Maps(violations, ErrsOf, Sq({"violation"} \X DOMAIN errs))
  BY ViolationMaps
<1>3. PICK e \in ErrsOf : d = <<"violation", e>>
  <2>1. Unblocked(n) \in Sq(ErrsOf)
    BY OpenIs DEF Maps
  <2>2. PICK e \in ToSet(Unblocked(n)) : d \in ToSet(violations[e])
    BY <1>1, <1>2, <2>1, InTogether
  <2> QED
    BY <2>1, <2>2, InSeq, ViolationMaps
<1>4. d # Unset
  <2>1. e \in Nat
    BY EntryMaps, ErrsDomain
  <2> QED
    BY <1>3, <2>1, UnsetApart
<1>5. DataOf(d) = {d}
  BY <1>3 DEF DataOf
<1>6. CASE n \in ErrsOf /\ d \in ToSet(violations[n])
  BY <1>5, <1>6, ViolationMaps
<1>7. CASE \E m \in Above(n) : m \in DOMAIN errs /\ d \in ToSet(Together(Unblocked(m), violations))
  <2>1. PICK m \in Above(n) : d \in ToSet(FieldViolations(m))
    BY <1>1, <1>7
  <2>2. ToStatus(m).violations = FieldViolations(m)
    BY DEF ToStatus
  <2>3. d \in SeenParts(m)
    BY <1>4, <2>1, <2>2 DEF SeenParts
  <2>4. d \in Seen(m)
    BY <1>5, <2>3, SeenIs
  <2> QED
    BY <1>5, <2>4
<1>8. d \in ToSet(Together(Unblocked(n), violations))
  BY <1>1
<1> QED
  BY <1>2, <1>6, <1>7, <1>8, PartAbove

\* A field.
LEMMA FieldOwn ==
    ASSUME ErrsOK, NEW n \in DOMAIN errs, NEW k \in MemberKey, k \notin Reserved,
           PublicField(n, k) # Unset
    PROVE  LET d == PublicField(n, k)
           IN  /\ DataOf(d) = {d}
               /\ \/ d[1] = "field" /\ d[2] = n
                  \/ \E m \in Above(n) : d \in Seen(m)
<1> DEFINE d == PublicField(n, k)
           lf == [m \in DOMAIN errs |-> LastField(fields[m], k)]
<1>1. \A m : PublicField(m, k) = FirstSet(Unblocked(m), lf)
  BY DEF PublicField
<1>2. d # Unset /\ d[1] = "field"
  BY PublicFieldIs
<1>3. DataOf(d) = {d} /\ d[1] # "list"
  BY <1>2 DEF DataOf
<1> HIDE DEF d, lf
<1>4. CASE n \in ErrsOf /\ d = lf[n]
  <2>1. fields[n] = Pairs("field", n, errs[n].fields) /\ LastField(fields[n], k) = lf[n]
    BY DEF fields, lf
  <2>2. \A i \in DOMAIN errs[n].fields : fields[n][i].value = <<"field", n, i>>
    BY <2>1 DEF Pairs
  <2>3. \A x \in ToSet(fields[n]) : x.value[2] = n
    <3>1. DOMAIN fields[n] = DOMAIN errs[n].fields
      BY <2>1 DEF Pairs
    <3> QED
      BY <2>2, <3>1 DEF ToSet
  <2>4. d[2] = n
    <3>1. fields[n] \in Sq(Entries("field"))
      BY <1>4, EntryMaps DEF Maps
    <3> QED
      BY <1>2, <1>4, <2>1, <2>3, <3>1, LastFieldIs
  <2> QED
    BY <1>2, <1>3, <2>4 DEF d
<1>5. CASE \E m \in Above(n) : m \in DOMAIN errs /\ FirstSet(Unblocked(m), lf) = d
  <2>1. PICK m \in Above(n) : PublicField(m, k) = d
    BY <1>1, <1>5
  <2>2. Member(m, k) = d
    BY <1>2, <2>1, MemberOther
  <2>3. d \in Seen(m)
    BY <1>2, <1>3, <2>2, SeenMember
  <2> QED
    BY <1>3, <2>3 DEF d
<1>6. FirstSet(Unblocked(n), lf) = d /\ d # Unset
  BY <1>1, <1>2 DEF d
<1> QED
  BY <1>4, <1>5, <1>6, FoundAbove

\* What a client sees of n is generic, n's own, or seen of what n wraps.
LEMMA SeenOwn ==
    ASSUME ErrsOK, NEW n \in DOMAIN errs, NEW d \in Seen(n)
    PROVE  \/ d[1] \in Generic
           \/ d[1] \in PublicKind /\ d[2] = n
           \/ \E m \in Above(n) : d \in Seen(m)
<1>1. PICK x \in SeenParts(n) : d \in DataOf(x)
  BY SeenIs
<1>2. x # Unset
  BY DEF SeenParts
<1>3. ASSUME NEW what \in {"title", "status", "name"}, NEW c, x = <<what, c>>
      PROVE  d[1] \in Generic
  BY <1>1, <1>3 DEF DataOf, Generic
<1>4. CASE x = LookupPublicMessage(n)
  BY <1>1, <1>2, <1>4, MessageOwn DEF PublicKind
<1>5. CASE x = LookupRetryDelay(n)
  BY <1>1, <1>2, <1>5, DelayOwn DEF PublicKind
<1>6. CASE x \in ToSet(FieldViolations(n))
  BY <1>1, <1>6, ViolationOwn DEF PublicKind
<1>7. CASE x = List(FieldViolations(n))
  <2>1. DataOf(x) = ToSet(FieldViolations(n))
    BY <1>7 DEF DataOf, List
  <2> QED
    BY <1>1, <2>1, ViolationOwn DEF PublicKind
<1>8. ASSUME NEW k \in MemberKey, k \notin Reserved, x = PublicField(n, k)
      PROVE  \/ d[1] \in PublicKind /\ d[2] = n
             \/ \E m \in Above(n) : d \in Seen(m)
  BY <1>1, <1>2, <1>8, FieldOwn DEF PublicKind
<1>9. ASSUME NEW k \in MemberKey, x = Member(n, k)
      PROVE  \/ d[1] \in Generic
             \/ d[1] \in PublicKind /\ d[2] = n
             \/ \E m \in Above(n) : d \in Seen(m)
  <2>1. \/ \E c : Member(n, k) \in {<<"title", c>>, <<"status", c>>, <<"name", c>>}
        \/ Member(n, k) = LookupPublicMessage(n)
        \/ k \notin Reserved /\ Member(n, k) = PublicField(n, k)
        \/ Member(n, k) = List(FieldViolations(n))
    BY <1>2, <1>9, MemberIs
  <2> QED
    BY <1>3, <1>4, <1>7, <1>8, <1>9, <2>1
<1>10. CASE x = ToStatus(n).message
  <2>1. \/ x = LookupPublicMessage(n)
        \/ x = <<"name", CodeOf(n)>>
    BY <1>10 DEF ToStatus, String
  <2> QED
    BY <1>3, <1>4, <2>1
<1>11. CASE x = ToStatus(n).retry
  <2>1. x = LookupRetryDelay(n) \/ x = RetryDelay(CodeOf(n))
    BY <1>11 DEF ToStatus
  <2>2. CASE x = RetryDelay(CodeOf(n))
    <3>1. x = <<"registered", CodeOf(n)>>
      BY <1>2, <2>2 DEF RetryDelay
    <3> QED
      BY <1>1, <3>1 DEF DataOf, Generic
  <2> QED
    BY <1>5, <2>1, <2>2
<1>12. CASE x \in ToSet(ToStatus(n).violations)
  BY <1>6, <1>12 DEF ToStatus
<1> QED
  BY <1>9, <1>10, <1>11, <1>12 DEF SeenParts

\* A client sees only what is its to see.
LEMMA ClientsSeeTheirOwnHolds ==
    ASSUME ErrsOK
    PROVE  ClientsSeeTheirOwn
<1> SUFFICES ASSUME NEW n \in Newest,
                    NEW d \in Seen(n), ~ (d[1] \in PublicKind /\ d[2] = n)
             PROVE  d[1] \in Generic \/ \E m \in Above(n) : d \in Seen(m)
  BY Zenon DEF ClientsSeeTheirOwn, Above
<1>1. n \in DOMAIN errs
  BY NewestIs
<1> QED
  BY <1>1, SeenOwn

\* The text of an error: what it adds itself, and the branches that it shows.
Childless == {"nilError", "plain", "status"}
textOwn == [n \in DOMAIN errs |->
    IF errs[n].kind = "Error" THEN message(n)
    ELSE IF errs[n].kind = "nilError" THEN << <<"<nil>", n>> >>
    ELSE IF errs[n].kind = "plain" THEN << <<"plain", n>> >>
    ELSE IF errs[n].kind = "status" THEN << errs[n].message >> ELSE <<>>]
textNext == [n \in DOMAIN errs |-> IF errs[n].kind \in Childless THEN <<>> ELSE errs[n].branches]
texts == [n \in DOMAIN errs \cup {0} |-> Text(n)]
Words == UNION {ToSet(textOwn[n]) : n \in DOMAIN errs}

\* The messages of *Errors.
messages == {<<"msg", m>> : m \in DOMAIN errs}
messageOwn == [n \in DOMAIN errs |-> IF errs[n].kind = "Error" THEN message(n) ELSE <<>>]

\* The kinds of errors, and what they wrap.
LEMMA KindOf ==
    ASSUME ErrsOK, NEW n \in DOMAIN errs
    PROVE  /\ errs[n].kind \in {"Error", "nilError", "plain", "wrap", "join", "status"}
           /\ errs[n].kind \in Childless => errs[n].branches \in {<<>>, <<0>>}
           /\ errs[n].kind = "status" => \A m \in DOMAIN errs : errs[n].message # <<"msg", m>>
<1>1. ErrorOK(errs[n], n)
  BY DEF ErrsOK
<1>2. ASSUME errs[n].kind = "status", NEW m \in DOMAIN errs PROVE errs[n].message # <<"msg", m>>
  <2>1. PICK what \in {"public", "title", "name"} : \E whose : errs[n].message = <<what, whose>>
    BY <1>1, <1>2 DEF ErrorOK
  <2>2. PICK whose : errs[n].message = <<what, whose>>
    BY <2>1
  <2>3. <<what, whose>>[1] # "msg" /\ <<"msg", m>>[1] = "msg"
    OBVIOUS
  <2> QED
    BY <2>2, <2>3
<1> QED
  BY <1>1, <1>2 DEF ErrorOK, ErrKinds, Nothings, Childless

\* What an error adds to a text.
LEMMA TextOwnType ==
    ASSUME ErrsOK
    PROVE  /\ Maps(textOwn, DOMAIN errs, Sq(Words))
           /\ \A n \in DOMAIN errs : Only(textOwn[n], messages) = messageOwn[n]
<1>1. ASSUME NEW n \in DOMAIN errs
      PROVE  textOwn[n] \in Sq(Words) /\ Only(textOwn[n], messages) = messageOwn[n]
  <2>1. ASSUME NEW w, textOwn[n] = <<w>>
        PROVE  /\ textOwn[n] \in Sq(Words)
               /\ Only(textOwn[n], messages) = IF w \in messages THEN <<w>> ELSE <<>>
    <3>1. ToSet(textOwn[n]) \subseteq Words
      BY DEF Words
    <3>2. w \in Words
      BY <2>1, <3>1, InOne
    <3> QED
      BY <2>1, <3>2, SqBasics, OnlyOne
  <2>2. CASE textOwn[n] = <<>>
    <3>1. messageOwn[n] = <<>>
      BY <2>2 DEF textOwn, messageOwn
    <3> QED
      BY <2>2, <3>1, SqBasics, OnlyEmpty
  <2>3. ASSUME NEW w, textOwn[n] = <<w>>, w \in messages, errs[n].kind = "Error" 
        PROVE  messageOwn[n] = <<w>>
    BY <2>3 DEF textOwn, messageOwn
  <2>4. CASE errs[n].kind = "Error" /\ errs[n].msg
    <3>1. textOwn[n] = << <<"msg", n>> >> /\ messageOwn[n] = << <<"msg", n>> >>
      BY <2>4 DEF textOwn, messageOwn, message
    <3>2. <<"msg", n>> \in messages
      BY DEF messages
    <3> QED
      BY <2>1, <3>1, <3>2
  <2>5. CASE errs[n].kind = "Error" /\ ~errs[n].msg
    <3>1. textOwn[n] = <<>>
      BY <2>5 DEF textOwn, message
    <3> QED
      BY <2>2, <3>1
  <2>6. CASE errs[n].kind # "Error" /\ textOwn[n] # <<>>
    <3>1. messageOwn[n] = <<>>
      BY <2>6 DEF messageOwn
    <3>2. PICK w : textOwn[n] = <<w>> /\ w \in {<<"<nil>", n>>, <<"plain", n>>, errs[n].message}
                   /\ (w = errs[n].message => errs[n].kind = "status" \/ w \in {<<"<nil>", n>>, <<"plain", n>>})
      BY <2>6 DEF textOwn
    <3>3. w \notin messages
      BY <3>2, KindOf DEF messages
    <3> QED
      BY <2>1, <3>1, <3>2, <3>3
  <2> QED
    BY <2>2, <2>4, <2>5, <2>6
<1> QED
  BY <1>1 DEF Maps

\* The texts of a chain follow its branches.
LEMMA TextRanked == ASSUME ErrsOK PROVE Ranked(DOMAIN errs, textNext, age, Len(errs))
<1>1. Ranked(DOMAIN errs, allNext, age, Len(errs))
  BY AllRanked
<1>2. \A n \in DOMAIN errs : allNext[n] = errs[n].branches /\ textNext[n] \in {<<>>, allNext[n]}
  BY DEF allNext, textNext
<1>3. <<>> \in Sq(DOMAIN errs \cup {0})
  BY SqBasics
<1> QED
  BY <1>1, <1>2, <1>3, InEmpty DEF Ranked

\* An error's text, made of what there is of its branches.
LEMMA TextStep ==
    ASSUME ErrsOK, NEW n \in DOMAIN errs, NEW below \in Sq(Words)
    PROVE  (CASE errs[n].kind = "Error" -> TextWith(n, below)
              [] errs[n].kind \in {"wrap", "join"} -> below
              [] errs[n].kind = "nilError" -> << <<"<nil>", n>> >>
              [] errs[n].kind = "plain" -> << <<"plain", n>> >>
              [] errs[n].kind = "status" -> << errs[n].message >>)
             = Cat(textOwn[n], IF errs[n].kind \in Childless THEN <<>> ELSE below)
<1> DEFINE text == CASE errs[n].kind = "Error" -> TextWith(n, below)
                     [] errs[n].kind \in {"wrap", "join"} -> below
                     [] errs[n].kind = "nilError" -> << <<"<nil>", n>> >>
                     [] errs[n].kind = "plain" -> << <<"plain", n>> >>
                     [] errs[n].kind = "status" -> << errs[n].message >>
<1> SUFFICES text = Cat(textOwn[n], IF errs[n].kind \in Childless THEN <<>> ELSE below)
  OBVIOUS
<1>1. Cat(<<>>, below) = below /\ Cat(textOwn[n], <<>>) = textOwn[n]
  BY CatEmpty, TextOwnType DEF Maps
<1> HIDE DEF text
<1>2. CASE errs[n].kind = "Error"
  <2>1. text = TextWith(n, below)
    BY <1>2, Zenon DEF text
  <2>2. textOwn[n] = message(n) /\ errs[n].kind \notin Childless
    BY <1>2 DEF textOwn, Childless
  <2>3. TextWith(n, below) = Cat(message(n), below)
    BY Zenon DEF TextWith, Cat
  <2> QED
    BY <2>1, <2>2, <2>3
<1>3. CASE errs[n].kind \in {"wrap", "join"}
  <2>1. text = below
    BY <1>3, Zenon DEF text
  <2>2. textOwn[n] = <<>> /\ errs[n].kind \notin Childless
    BY <1>3 DEF textOwn, Childless
  <2> QED
    BY <1>1, <2>1, <2>2
<1>4. CASE errs[n].kind \in Childless
  <2>1. /\ errs[n].kind = "nilError" => text = << <<"<nil>", n>> >>
        /\ errs[n].kind = "plain" => text = << <<"plain", n>> >>
        /\ errs[n].kind = "status" => text = << errs[n].message >>
    BY Zenon DEF text
  <2>2. text = textOwn[n]
    BY <1>4, <2>1 DEF textOwn, Childless
  <2> QED
    BY <1>1, <1>4, <2>2
<1> QED
  BY <1>2, <1>3, <1>4, KindOf DEF Childless

\* The texts are what TextOrder says.
LEMMA TextIs ==
    ASSUME ErrsOK
    PROVE  /\ Maps(texts, DOMAIN errs \cup {0}, Sq(Words))
           /\ Orders(DOMAIN errs, textOwn, textNext, texts)
           /\ \A n \in DOMAIN errs : Text(n) = texts[n]
<1> DEFINE D == DOMAIN errs
           DD == D \cup {0}
           below(n, text) == FlattenSeq([i \in DOMAIN errs[n].branches |-> text[errs[n].branches[i]]])
           made(n, b) == CASE errs[n].kind = "Error" -> TextWith(n, b)
                           [] errs[n].kind \in {"wrap", "join"} -> b
                           [] errs[n].kind = "nilError" -> << <<"<nil>", n>> >>
                           [] errs[n].kind = "plain" -> << <<"plain", n>> >>
                           [] errs[n].kind = "status" -> << errs[n].message >>
           step(f) == [n \in 0..Len(errs) |-> IF n = 0 THEN <<>> ELSE made(n, below(n, f))]
           text == CHOOSE f : f = step(f)
<1>1. 0..Len(errs) = DD /\ 0 \notin D
  BY ErrsDomain
<1>2. PICK g : Orders(D, textOwn, textNext, g) /\ Maps(g, DD, Sq(Words))
  BY TextRanked, TextOwnType, OrderExists
<1>3. g = [n \in DD |-> Order(textOwn, textNext, g, n)]
  BY <1>2, Zenon DEF Orders
<1>4. \A n, f : below(n, f) = Together(errs[n].branches, f)
  BY Zenon DEF Together
<1>5. ASSUME NEW n \in D, NEW b \in Sq(Words)
      PROVE  made(n, b) = Cat(textOwn[n], IF errs[n].kind \in Childless THEN <<>> ELSE b)
  BY TextStep
<1>6. \A n : Text(n) = text[n]
  BY Zenon DEF Text
<1> HIDE DEF below, made
<1>7. ASSUME NEW n \in D, NEW f, \A m \in ToSet(errs[n].branches) : f[m] = g[m]
      PROVE  made(n, below(n, f)) = g[n]
  <2>1. errs[n].branches \in Sq(DD)
    BY BranchesOK
  <2>2. Together(errs[n].branches, f) = Together(errs[n].branches, g)
    BY <1>7, <2>1, TogetherSame
  <2>3. Together(errs[n].branches, g) \in Sq(Words)
    BY <1>2, <2>1, TogetherType
  <2>4. Together(textNext[n], g)
          = IF errs[n].kind \in Childless THEN <<>> ELSE Together(errs[n].branches, g)
    BY TogetherEmpty DEF textNext
  <2>5. made(n, below(n, f)) = Cat(textOwn[n], Together(textNext[n], g))
    BY <1>4, <1>5, <2>2, <2>3, <2>4
  <2>6. g[n] = Order(textOwn, textNext, g, n)
    BY <1>3
  <2> QED
    BY <1>1, <2>5, <2>6 DEF Order
<1>8. g = step(g)
  <2>1. \A n \in DD : g[n] = IF n = 0 THEN <<>> ELSE made(n, below(n, g))
    <3>1. g[0] = <<>>
      BY <1>3 DEF Order
    <3> QED
      BY <1>7, <3>1
  <2>2. g = [n \in DD |-> g[n]]
    BY <1>3
  <2>3. g = [n \in DD |-> IF n = 0 THEN <<>> ELSE made(n, below(n, g))]
    BY <2>1, <2>2, Zenon
  <2> QED
    BY <1>1, <2>3
<1> HIDE DEF step
<1>9. text = step(text)
  BY <1>8, Zenon
<1> HIDE DEF text
<1>10. \A n \in DD : text[n] = IF n = 0 THEN <<>> ELSE made(n, below(n, text))
  BY <1>1, <1>9 DEF step
<1>11. \A n \in DD : text[n] = g[n]
  <2>1. text[0] = g[0]
    BY <1>3, <1>10 DEF Order
  <2>2. \A n \in D : allNext[n] = errs[n].branches
    BY DEF allNext
  <2>3. \A n \in D : (\A m \in ToSet(allNext[n]) : text[m] = g[m]) => text[n] = g[n]
    BY <1>1, <1>7, <1>10, <2>2
  <2> QED
    BY <2>1, <2>3, AllRanked, RankedSame
<1>12. texts = g
  <2>1. \A n \in DD : Text(n) = g[n]
    BY <1>6, <1>11
  <2>2. g = [n \in DD |-> g[n]]
    BY <1>3
  <2> QED
    BY <2>1, <2>2, Zenon DEF texts
<1> QED
  BY <1>2, <1>6, <1>11, <1>12

\* The frames of a trace, and the messages in them.
frames == [m \in DOMAIN errs |-> FrameString(m)]
tracesOf == [n \in DOMAIN errs \cup {0} |-> Together(pAll[n], frames)]
textMessages == [n \in DOMAIN errs \cup {0} |-> Only(texts[n], messages)]
traceMessages == [n \in DOMAIN errs \cup {0} |-> Only(tracesOf[n], messages)]
FrameWords == {"function", "msg"} \X DOMAIN errs

\* What an error adds to a trace.
LEMMA FrameMaps ==
    ASSUME ErrsOK
    PROVE  /\ Maps(frames, ErrsOf, Sq(FrameWords))
           /\ \A n \in ErrsOf : Only(frames[n], messages) = messageOwn[n]
<1>1. ASSUME NEW n \in ErrsOf
      PROVE  frames[n] \in Sq(FrameWords) /\ Only(frames[n], messages) = messageOwn[n]
  <2>1. n \in DOMAIN errs /\ errs[n].kind = "Error"
    BY DEF ErrsOf, ErrorsOf
  <2>2. << <<"function", n>> >> \in Sq(FrameWords) /\ message(n) \in Sq(FrameWords)
    <3>1. <<"function", n>> \in FrameWords /\ <<"msg", n>> \in FrameWords
      BY <2>1 DEF FrameWords
    <3> QED
      BY <3>1, SqBasics DEF message
  <2>3. frames[n] = Cat(<< <<"function", n>> >>, message(n))
    <3>1. frames[n] = FrameString(n)
      BY <2>1 DEF frames
    <3> QED
      BY <3>1 DEF FrameString, Cat
  <2>4. Only(<< <<"function", n>> >>, messages) = <<>>
    <3>1. <<"function", n>> \notin messages
      BY DEF messages
    <3> QED
      BY <3>1, OnlyOne
  <2>5. Only(message(n), messages) = message(n)
    <3>1. <<"msg", n>> \in messages
      BY <2>1 DEF messages
    <3> QED
      BY <3>1, OnlyOne, OnlyEmpty DEF message
  <2>6. messageOwn[n] = message(n)
    BY <2>1 DEF messageOwn
  <2>7. Only(frames[n], messages) = Cat(<<>>, message(n))
    BY <2>2, <2>3, <2>4, <2>5, OnlyCat
  <2> QED
    BY <2>2, <2>3, <2>6, <2>7, CatEmpty, CatType
<1> QED
  BY <1>1 DEF Maps

\* The traces of a chain, and their messages.
LEMMA TraceIs ==
    ASSUME ErrsOK
    PROVE  /\ Maps(tracesOf, DOMAIN errs \cup {0}, Sq(FrameWords))
           /\ \A n \in DOMAIN errs : Trace(n) = tracesOf[n]
           /\ Orders(DOMAIN errs, messageOwn, allNext, traceMessages)
<1> DEFINE D == DOMAIN errs
           DD == D \cup {0}
<1>1. /\ Maps(pAll, DD, Sq(ErrsOf)) /\ pAll[0] = <<>>
      /\ \A n \in D : All(n) = pAll[n] /\ pAll[n] = Cat(Own(errs, n), Together(errs[n].branches, pAll))
  BY AllIs
<1>2. \A n \in DD : tracesOf[n] = Together(pAll[n], frames)
  BY DEF tracesOf
<1>3. Maps(tracesOf, DD, Sq(FrameWords))
  BY <1>1, <1>2, FrameMaps, TogetherType DEF Maps
<1>4. \A n \in D : Trace(n) = tracesOf[n]
  <2>1. [m \in DOMAIN errs |-> FrameString(m)] = frames
    BY DEF frames
  <2> QED
    BY <1>1, <1>2, <2>1 DEF Trace
<1>5. \A n \in DD : traceMessages[n] = Only(tracesOf[n], messages)
  BY DEF traceMessages
<1>6. ASSUME NEW n \in D
      PROVE  traceMessages[n] = Cat(messageOwn[n], Together(allNext[n], traceMessages))
  <2>1. errs[n].branches \in Sq(DD) /\ allNext[n] = errs[n].branches
    BY BranchesOK DEF allNext
  <2>2. Own(errs, n) \in Sq(ErrsOf) /\ Together(errs[n].branches, pAll) \in Sq(ErrsOf)
    BY <1>1, <2>1, OwnType, TogetherType DEF ErrsOf
  <2>3. tracesOf[n] = Cat(Together(Own(errs, n), frames), Together(Together(errs[n].branches, pAll), frames))
    BY <1>1, <1>2, <2>2, FrameMaps, TogetherCat
  <2>4. Together(Together(errs[n].branches, pAll), frames) = Together(errs[n].branches, tracesOf)
    BY <1>1, <1>2, <2>1, FrameMaps, TogetherTwice
  <2>5. Only(Together(errs[n].branches, tracesOf), messages) = Together(errs[n].branches, traceMessages)
    BY <1>3, <1>5, <2>1, OnlyOfTogether
  <2>6. Together(Own(errs, n), frames) \in Sq(FrameWords)
        /\ Together(errs[n].branches, tracesOf) \in Sq(FrameWords)
    BY <1>3, <2>1, <2>2, FrameMaps, TogetherType
  <2>7. Only(Together(Own(errs, n), frames), messages) = messageOwn[n]
    <3>1. CASE errs[n].kind = "Error"
      <4>1. n \in ErrsOf /\ Own(errs, n) = <<n>>
        BY <3>1 DEF ErrsOf, ErrorsOf, Own
      <4>2. Together(<<n>>, frames) = frames[n]
        BY <4>1, FrameMaps, TogetherOne
      <4> QED
        BY <4>1, <4>2, FrameMaps
    <3>2. CASE errs[n].kind # "Error"
      <4>1. Own(errs, n) = <<>> /\ messageOwn[n] = <<>>
        BY <3>2 DEF Own, messageOwn
      <4> QED
        BY <4>1, TogetherEmpty, OnlyEmpty
    <3> QED
      BY <3>1, <3>2
  <2> QED
    BY <1>5, <2>1, <2>3, <2>4, <2>5, <2>6, <2>7, OnlyCat
<1>7. traceMessages[0] = <<>>
  BY <1>1, <1>2, <1>5, TogetherEmpty, OnlyEmpty
<1>8. \A n \in DD : traceMessages[n] = Order(messageOwn, allNext, traceMessages, n)
  BY <1>6, <1>7 DEF Order
<1>9. traceMessages = [n \in DD |-> traceMessages[n]]
  BY DEF traceMessages
<1>10. Orders(D, messageOwn, allNext, traceMessages)
  BY <1>8, <1>9, Zenon DEF Orders
<1> QED
  BY <1>3, <1>4, <1>10

\* The messages of the texts are in the order of the chain.
LEMMA TextMessages ==
    ASSUME ErrsOK
    PROVE  Orders(DOMAIN errs, messageOwn, allNext, textMessages)
<1> DEFINE D == DOMAIN errs
           DD == D \cup {0}
<1>1. Maps(texts, DD, Sq(Words))
  BY TextIs
<1>2. \A n \in DD : texts[n] = Order(textOwn, textNext, texts, n)
  <2>1. texts = [n \in DD |-> Order(textOwn, textNext, texts, n)]
    BY TextIs, Zenon DEF Orders
  <2> QED
    BY <2>1, Zenon
<1>3. \A n \in DD : textMessages[n] = Only(texts[n], messages)
  BY DEF textMessages
<1>4. textMessages[0] = <<>>
  BY <1>2, <1>3, OnlyEmpty DEF Order
<1>5. ASSUME NEW n \in D
      PROVE  textMessages[n] = Cat(messageOwn[n], Together(allNext[n], textMessages))
  <2>1. /\ allNext[n] \in Sq(DD) /\ textNext[n] \in Sq(DD)
        /\ allNext[n] = errs[n].branches
        /\ textNext[n] = IF errs[n].kind \in Childless THEN <<>> ELSE allNext[n]
    BY AllRanked, TextRanked DEF Ranked, allNext, textNext
  <2>2. texts[n] = Cat(textOwn[n], Together(textNext[n], texts))
    BY <1>2, ErrsDomain DEF Order
  <2>3. textOwn[n] \in Sq(Words) /\ Together(textNext[n], texts) \in Sq(Words)
    BY <1>1, <2>1, TextOwnType, TogetherType DEF Maps
  <2>4. textMessages[n] = Cat(messageOwn[n], Only(Together(textNext[n], texts), messages))
    BY <1>3, <2>2, <2>3, TextOwnType, OnlyCat
  <2>5. Only(Together(textNext[n], texts), messages) = Together(textNext[n], textMessages)
    BY <1>1, <1>3, <2>1, OnlyOfTogether
  <2>6. Together(textNext[n], textMessages) = Together(allNext[n], textMessages)
    <3>1. CASE errs[n].kind \in Childless
      <4>1. textNext[n] = <<>> /\ allNext[n] \in {<<>>, <<0>>}
        BY <2>1, <3>1, KindOf
      <4>2. Together(<<>>, textMessages) = <<>>
        BY TogetherEmpty
      <4>3. Together(<<0>>, textMessages) = <<>>
        <5>1. Maps(textMessages, {0}, Sq(Words))
          BY <1>4, SqBasics DEF Maps
        <5> QED
          BY <1>4, <5>1, TogetherOne
      <4> QED
        BY <4>1, <4>2, <4>3
    <3> QED
      BY <2>1, <3>1
  <2> QED
    BY <2>4, <2>5, <2>6
<1>6. \A n \in DD : textMessages[n] = Order(messageOwn, allNext, textMessages, n)
  BY <1>4, <1>5 DEF Order
<1>7. textMessages = [n \in DD |-> textMessages[n]]
  BY DEF textMessages
<1> QED
  BY <1>6, <1>7, Zenon DEF Orders

----------------------------------------------------------------------------
(* Boundary: the one pass of the formatter and the logger finds what the   *)
(* single walks find.                                                      *)

\* What the pass has gathered after each of the first n calls.
After(cs, n, f) == n \in Nat /\ f = [i \in 0..n |-> IF i = 0 THEN Collected ELSE See(f[i - 1], cs[i])]

\* The function that the pass chooses exists.
LEMMA AfterExists ==
    ASSUME NEW cs, NEW n \in Nat
    PROVE  \E f : After(cs, n, f)
<1> DEFINE T == {k \in Nat : ~ \E f : After(cs, k, f)}
<1>1. T = {}
  <2> SUFFICES ASSUME T # {} PROVE FALSE
    OBVIOUS
  <2>1. T \subseteq Nat
    OBVIOUS
  <2> HIDE DEF T
  <2>2. PICK m \in T : \A y \in T : m <= y
    BY <2>1, LeastNat
  <2> USE DEF T
  <2>3. CASE m = 0
    <3> DEFINE f == [i \in 0..0 |-> Collected]
    <3>1. After(cs, 0, f)
      <4>1. \A i \in 0..0 : i = 0
        OBVIOUS
      <4>2. f = [i \in 0..0 |-> IF i = 0 THEN Collected ELSE See(f[i - 1], cs[i])]
        BY <4>1
      <4> QED
        BY <4>2, Zenon DEF After
    <3> QED
      BY <2>2, <2>3, <3>1
  <2>4. CASE m # 0
    <3>1. m - 1 \in Nat /\ m - 1 \notin T
      <4>1. m \in Nat
        BY <2>2
      <4> HIDE DEF T
      <4> QED
        BY <2>2, <2>4, <4>1
    <3>2. PICK f : After(cs, m - 1, f)
      BY <3>1
    <3> DEFINE g == [i \in 0..m |-> IF i = m THEN See(f[i - 1], cs[i]) ELSE f[i]]
    <3>3. m \in Nat /\ \A i \in 0..m - 1 : f[i] = IF i = 0 THEN Collected ELSE See(f[i - 1], cs[i])
      BY <2>2, <3>2 DEF After
    <3>4. ASSUME NEW i \in 0..m PROVE g[i] = IF i = 0 THEN Collected ELSE See(g[i - 1], cs[i])
      <4>1. CASE i = 0
        <5>1. g[i] = f[i] /\ i \in 0..m - 1
          BY <2>4, <3>3, <4>1
        <5> HIDE DEF g
        <5> QED
          BY <3>3, <4>1, <5>1
      <4>2. CASE i # 0
        <5>1. i - 1 \in 0..m /\ i - 1 # m /\ g[i - 1] = f[i - 1]
          BY <3>3, <4>2
        <5>2. g[i] = See(f[i - 1], cs[i])
          <6>1. CASE i = m
            BY <6>1
          <6>2. CASE i # m
            <7>1. i \in 0..m - 1
              BY <3>3, <6>2
            <7> QED
              BY <3>3, <4>2, <6>2, <7>1, Zenon
          <6> QED
            BY <6>1, <6>2
        <5> HIDE DEF g
        <5> QED
          BY <4>2, <5>1, <5>2
      <4> QED
        BY <4>1, <4>2
    <3>5. g = [i \in 0..m |-> g[i]]
      OBVIOUS
    <3> HIDE DEF g
    <3>6. After(cs, m, g)
      BY <3>3, <3>4, <3>5 DEF After
    <3> QED
      BY <2>2, <3>6
  <2> QED
    BY <2>3, <2>4
<1> QED
  BY <1>1

\* After the same calls it has gathered the same.
LEMMA AfterUnique ==
    ASSUME NEW cs, NEW ds, NEW n \in Nat, NEW m \in Nat, NEW f, NEW g, n <= m,
           Agree(cs, ds, n), After(cs, n, f), After(ds, m, g)
    PROVE  f[n] = g[n]
<1> DEFINE T == {i \in 0..n : f[i] # g[i]}
<1>1. T = {}
  <2> SUFFICES ASSUME T # {} PROVE FALSE
    OBVIOUS
  <2>1. T \subseteq Nat
    OBVIOUS
  <2> HIDE DEF T
  <2>2. PICK k \in T : \A y \in T : k <= y
    BY <2>1, LeastNat
  <2> USE DEF T
  <2>3. k \in 0..n /\ k \in 0..m /\ f[k] # g[k]
    BY <2>2
  <2>4. f[k] = IF k = 0 THEN Collected ELSE See(f[k - 1], cs[k])
    BY <2>3 DEF After
  <2>5. g[k] = IF k = 0 THEN Collected ELSE See(g[k - 1], ds[k])
    BY <2>3 DEF After
  <2>6. k # 0 => k - 1 \in 0..n /\ k - 1 \notin T
    <3> HIDE DEF T
    <3> QED
      BY <2>2, <2>3
  <2>7. k # 0 => f[k - 1] = g[k - 1]
    BY <2>6
  <2>8. k # 0 => cs[k] = ds[k]
    BY <2>3 DEF Agree
  <2> QED
    BY <2>3, <2>4, <2>5, <2>7, <2>8, Zenon
<1>2. n \in 0..n
  OBVIOUS
<1> QED
  BY <1>1, <1>2

\* The pass gathers one call after the other.
LEMMA PassAfter ==
    ASSUME NEW cs, Len(cs) \in Nat
    PROVE  \E f : After(cs, Len(cs), f) /\ Pass(cs) = f[Len(cs)]
<1> DEFINE f == CHOOSE f : f = [i \in 0..Len(cs) |-> IF i = 0 THEN Collected ELSE See(f[i - 1], cs[i])]
<1>1. PICK g : After(cs, Len(cs), g)
  BY AfterExists
<1>2. g = [i \in 0..Len(cs) |-> IF i = 0 THEN Collected ELSE See(g[i - 1], cs[i])]
  BY <1>1, Zenon DEF After
<1>3. f = [i \in 0..Len(cs) |-> IF i = 0 THEN Collected ELSE See(f[i - 1], cs[i])]
  BY <1>2, Zenon
<1>4. Pass(cs) = f[Len(cs)]
  BY Zenon DEF Pass
<1> HIDE DEF f
<1> QED
  BY <1>3, <1>4, Zenon DEF After

\* Without a call, and with one call more.
LEMMA PassEmpty == Pass(<<>>) = Collected
<1>1. Len(<<>>) = 0 /\ 0 \in Nat /\ 0 \in 0..0
  OBVIOUS
<1>2. PICK f : After(<<>>, 0, f) /\ Pass(<<>>) = f[0]
  BY <1>1, PassAfter
<1>3. f[0] = Collected
  BY <1>1, <1>2 DEF After
<1> QED
  BY <1>2, <1>3

\* One call more.
LEMMA PassAppend ==
    ASSUME NEW C, NEW cs \in Sq(C), NEW v \in C
    PROVE  Pass(Add(cs, v)) = See(Pass(cs), v)
<1> DEFINE ds == Add(cs, v)
<1>1. PICK n \in Nat : n = Len(cs)
  BY SqBasics
<1>2. Len(ds) = n + 1 /\ ds[n + 1] = v /\ Agree(cs, ds, n)
  BY <1>1, AddProperties DEF Agree
<1> HIDE DEF ds
<1>3. n + 1 \in Nat /\ n <= n + 1 /\ n + 1 \in 0..(n + 1) /\ n + 1 # 0 /\ (n + 1) - 1 = n
  OBVIOUS
<1>4. PICK f : After(cs, n, f) /\ Pass(cs) = f[n]
  BY <1>1, PassAfter
<1>5. PICK g : After(ds, n + 1, g) /\ Pass(ds) = g[n + 1]
  BY <1>2, <1>3, PassAfter
<1>6. f[n] = g[n]
  BY <1>2, <1>3, <1>4, <1>5, AfterUnique
<1>7. g[n + 1] = See(g[n], ds[n + 1])
  BY <1>3, <1>5 DEF After
<1> QED
  BY <1>2, <1>4, <1>5, <1>6, <1>7 DEF ds

\* Nodes that say nothing say nothing together.
LEMMA TogetherNone ==
    ASSUME NEW N, NEW ns \in Sq(N), NEW f, \A n \in ToSet(ns) : f[n] = <<>>
    PROVE  Together(ns, f) = <<>>
<1> DEFINE none == [n \in N |-> <<>>]
<1>1. \A n \in ToSet(ns) : n \in N
  BY InSeq
<1>2. \A n \in ToSet(ns) : f[n] = none[n]
  BY <1>1
<1>3. Maps(none, N, Sq({}))
  BY SqBasics DEF Maps
<1> HIDE DEF none
<1>4. Together(ns, f) = Together(ns, none)
  BY <1>2, TogetherSame
<1>5. PICK s \in Sq({}) : s = Together(ns, none)
  BY <1>3, TogetherType
<1>6. Len(s) \in Nat /\ \A i \in 1..Len(s) : s[i] \in {}
  BY SqBasics
<1>7. Len(s) = 0
  BY <1>6
<1>8. s = <<>>
  BY <1>7, SqBasics DEF Sq
<1> QED
  BY <1>4, <1>5, <1>8

\* The calls of a walk: their order, the errors they see, and those of them
\* that are not blocked.
callAge == [v \in DOMAIN CallAt |-> Called(v)]
callsOf == ErrorsOf(CallAt)
pCalls == [v \in DOMAIN CallAt \cup {0} |-> Preorder(CallAt, v, CallsBelow)]
nodeOf == [v \in DOMAIN CallAt |-> <<Called(v)>>]
openOf == [v \in DOMAIN CallAt |-> IF v > 0 THEN <<v>> ELSE <<>>]
codes == [m \in DOMAIN errs |-> errs[m].code]

\* A call sees an error.
LEMMA CallIs ==
    ASSUME ErrsOK
    PROVE  /\ DOMAIN CallAt = (-Len(errs)..Len(errs)) \ {0}
           /\ \A v \in DOMAIN CallAt :
                 /\ v \in Int /\ v # 0
                 /\ Called(v) \in DOMAIN errs
                 /\ (v > 0 => Called(v) = v)
                 /\ CallAt[v] = errs[Called(v)]
           /\ \A n \in DOMAIN errs : n \in DOMAIN CallAt /\ n > 0 /\ Called(n) = n
<1>1. Len(errs) \in Nat /\ DOMAIN errs = 1..Len(errs)
  BY ErrsDomain
<1>2. DOMAIN CallAt = (-Len(errs)..Len(errs)) \ {0} /\ \A v \in DOMAIN CallAt : CallAt[v] = errs[Called(v)]
  BY DEF CallAt
<1>3. \A v \in DOMAIN CallAt : v \in Int /\ v # 0 /\ Called(v) \in DOMAIN errs /\ (v > 0 => Called(v) = v)
  BY <1>1, <1>2 DEF Called
<1>4. \A n \in DOMAIN errs : n \in DOMAIN CallAt /\ n > 0 /\ Called(n) = n
  BY <1>1, <1>2 DEF Called
<1> QED
  BY <1>2, <1>3, <1>4

\* What a call at v leads to.
CallBlocks(v) == v < 0 \/ (CallAt[v].kind = "Error" /\ CallAt[v].barrier)
LEMMA BelowIs ==
    ASSUME ErrsOK, NEW v \in DOMAIN CallAt
    PROVE  LET bs == errs[Called(v)].branches
           IN  /\ DOMAIN CallsBelow[v] = DOMAIN bs
               /\ \A i \in DOMAIN bs :
                     /\ bs[i] \in 0..(Called(v) - 1)
                     /\ CallsBelow[v][i] = IF CallBlocks(v) THEN -bs[i] ELSE bs[i]
               /\ CallsBelow[v] \in Sq(DOMAIN CallAt \cup {0})
<1> DEFINE n == Called(v)
           bs == errs[n].branches
           S == DOMAIN CallAt \cup {0}
<1>1. n \in DOMAIN errs /\ CallAt[v] = errs[n] /\ n \in 1..Len(errs) /\ Len(errs) \in Nat
  BY CallIs, ErrsDomain
<1>2. bs \in Seq(0..(n - 1))
  BY <1>1 DEF ErrsOK, ErrorOK
<1>3. PICK L \in Nat : L = Len(bs) /\ DOMAIN bs = 1..L /\ \A i \in 1..L : bs[i] \in 0..(n - 1)
  <2> DEFINE R == 0..(n - 1)
  <2>1. bs \in Seq(R)
    BY <1>2
  <2> HIDE DEF R, bs
  <2>2. Len(bs) \in Nat /\ DOMAIN bs = 1..Len(bs) /\ \A i \in 1..Len(bs) : bs[i] \in R
    BY <2>1
  <2> QED
    BY <2>2, Zenon DEF R
<1> DEFINE e(i) == IF CallBlocks(v) THEN -bs[i] ELSE bs[i]
<1>4. CallsBelow[v] = [i \in DOMAIN bs |-> e(i)]
  BY <1>1 DEF CallsBelow, CallBlocks
<1>5. ASSUME NEW i \in 1..L PROVE e(i) \in S
  <2>1. bs[i] \in 0..(n - 1)
    BY <1>3
  <2>2. S = -Len(errs)..Len(errs)
    <3>1. 0 \in -Len(errs)..Len(errs)
      BY <1>1
    <3> QED
      BY <3>1, CallIs
  <2>3. bs[i] \in S /\ -bs[i] \in S
    <3>1. n \in Int /\ Len(errs) \in Int /\ n <= Len(errs)
      BY <1>1
    <3> DEFINE x == bs[i]
               L0 == Len(errs)
    <3>2. x \in 0..(n - 1) /\ L0 \in Int /\ n \in Int /\ n <= L0
      BY <2>1, <3>1
    <3> HIDE DEF x, n, L0
    <3>3. x \in -L0..L0 /\ -x \in -L0..L0
      BY <3>2
    <3> QED
      BY <2>2, <3>3, Zenon DEF x, L0
  <2> QED
    BY <2>3
<1> HIDE DEF bs, S
<1>6. \A i \in DOMAIN bs : CallsBelow[v][i] = e(i)
  BY <1>4
<1>7. CallsBelow[v] \in Sq(S)
  <2> HIDE DEF e
  <2>1. [i \in 1..L |-> e(i)] \in Seq(S)
    BY <1>5
  <2> QED
    BY <1>3, <1>4, <2>1 DEF Sq
<1>8. DOMAIN CallsBelow[v] = DOMAIN bs
  BY <1>4
<1> QED
  BY <1>3, <1>6, <1>7, <1>8 DEF bs, S

\* The age of the error that is seen ranks the calls.
LEMMA CallsRanked == ASSUME ErrsOK PROVE Ranked(DOMAIN CallAt, CallsBelow, callAge, Len(errs))
<1> DEFINE D == DOMAIN CallAt
<1>1. Len(errs) \in Nat /\ DOMAIN errs = 1..Len(errs) /\ 0 \notin D
  BY ErrsDomain, CallIs
<1>2. \A v \in D : v \in Int /\ Called(v) \in 1..Len(errs) /\ callAge[v] = Called(v)
  BY <1>1, CallIs DEF callAge
<1>3. callAge \in [D -> 0..Len(errs)]
  <2>1. \A v \in D : Called(v) \in 0..Len(errs)
    BY <1>1, <1>2
  <2> QED
    BY <2>1 DEF callAge
<1>4. ASSUME NEW v \in D, NEW m \in ToSet(CallsBelow[v]), m # 0 PROVE callAge[m] < callAge[v]
  <2>1. PICK i \in DOMAIN CallsBelow[v] : m = CallsBelow[v][i]
    BY DEF ToSet
  <2>2. PICK b \in 0..(Called(v) - 1) : m = -b \/ m = b
    BY <2>1, BelowIs
  <2>3. m \in D
    <3>1. CallsBelow[v] \in Sq(D \cup {0})
      BY BelowIs
    <3> QED
      BY <1>4, <3>1, InSeq
  <2>4. b \in Nat /\ Called(m) = b
    BY <1>2, <2>2 DEF Called
  <2> QED
    BY <1>2, <2>2, <2>3, <2>4
<1>5. \A v \in D : CallsBelow[v] \in Sq(D \cup {0})
  BY BelowIs
<1> QED
  BY <1>1, <1>3, <1>4, <1>5 DEF Ranked

\* So the calls are in the order of the chain, the error itself first.
LEMMA CallsAre ==
    ASSUME ErrsOK
    PROVE  /\ Maps(pCalls, DOMAIN CallAt \cup {0}, Sq(callsOf))
           /\ pCalls[0] = <<>>
           /\ \A v \in DOMAIN CallAt : pCalls[v] = Cat(Own(CallAt, v), Together(CallsBelow[v], pCalls))
           /\ \A n \in DOMAIN errs : Calls(n) = pCalls[n]
<1>1. \A n \in DOMAIN errs : Calls(n) = pCalls[n]
  BY CallIs DEF Calls, pCalls
<1> QED
  <2> DEFINE D == DOMAIN CallAt
  <2>1. D = DOMAIN CallAt /\ pCalls = [v \in D \cup {0} |-> Preorder(CallAt, v, CallsBelow)]
    BY Zenon DEF pCalls
  <2>2. Ranked(D, CallsBelow, callAge, Len(errs))
    BY CallsRanked
  <2> HIDE DEF D
  <2>3. /\ Maps(pCalls, D \cup {0}, Sq(ErrorsOf(CallAt))) /\ pCalls[0] = <<>>
        /\ \A v \in D : pCalls[v] = Cat(Own(CallAt, v), Together(CallsBelow[v], pCalls))
    BY <2>1, <2>2, PreorderIs
  <2> QED
    BY <1>1, <2>1, <2>3, Zenon DEF callsOf

\* The errors seen are *Errors.
LEMMA NodeMaps ==
    ASSUME ErrsOK
    PROVE  /\ Maps(nodeOf, callsOf, Sq(ErrsOf)) /\ Maps(openOf, callsOf, Sq(ErrsOf))
           /\ \A v \in callsOf : /\ v \in DOMAIN CallAt /\ Called(v) \in ErrsOf
                                 /\ nodeOf[v] = <<Called(v)>>
                                 /\ openOf[v] = IF v > 0 THEN <<Called(v)>> ELSE <<>>
<1>1. ASSUME NEW v \in callsOf
      PROVE  /\ v \in DOMAIN CallAt /\ Called(v) \in ErrsOf
             /\ nodeOf[v] = <<Called(v)>> /\ openOf[v] = IF v > 0 THEN <<Called(v)>> ELSE <<>>
  <2>1. v \in DOMAIN CallAt /\ CallAt[v].kind = "Error"
    BY DEF callsOf, ErrorsOf
  <2>2. Called(v) \in ErrsOf
    BY <2>1, CallIs DEF ErrsOf, ErrorsOf
  <2> QED
    BY <2>1, <2>2, CallIs DEF nodeOf, openOf
<1>2. ASSUME NEW v \in callsOf PROVE nodeOf[v] \in Sq(ErrsOf) /\ openOf[v] \in Sq(ErrsOf)
  <2>1. PICK m \in ErrsOf : m = Called(v)
    BY <1>1
  <2>2. <<m>> \in Sq(ErrsOf) /\ <<>> \in Sq(ErrsOf)
    BY SqBasics
  <2>3. nodeOf[v] = <<m>> /\ (openOf[v] = <<m>> \/ openOf[v] = <<>>)
    BY <1>1, <2>1
  <2> QED
    BY <2>2, <2>3
<1> QED
  BY <1>1, <1>2 DEF Maps

\* What a function on the errors says of the calls of v: of the error at v, and
\* of what its branches have.
LEMMA CallsSplit ==
    ASSUME ErrsOK, NEW f, Maps(f, callsOf, Sq(ErrsOf)), NEW v \in DOMAIN CallAt, NEW g,
           g = [u \in DOMAIN CallAt \cup {0} |-> Together(pCalls[u], f)]
    PROVE  g[v] = Cat(IF v \in callsOf THEN f[v] ELSE <<>>, Together(CallsBelow[v], g))
<1> DEFINE DD == DOMAIN CallAt \cup {0}
<1>1. /\ Maps(pCalls, DD, Sq(callsOf))
      /\ pCalls[v] = Cat(Own(CallAt, v), Together(CallsBelow[v], pCalls))
  BY CallsAre
<1>2. Own(CallAt, v) \in Sq(callsOf) /\ CallsBelow[v] \in Sq(DD)
  BY OwnType, BelowIs DEF callsOf
<1>3. Together(CallsBelow[v], pCalls) \in Sq(callsOf)
  BY <1>1, <1>2, TogetherType
<1>4. g[v] = Cat(Together(Own(CallAt, v), f), Together(Together(CallsBelow[v], pCalls), f))
  BY <1>1, <1>2, <1>3, TogetherCat
<1>5. Together(Together(CallsBelow[v], pCalls), f) = Together(CallsBelow[v], g)
  BY <1>1, <1>2, TogetherTwice
<1>6. Together(Own(CallAt, v), f) = IF v \in callsOf THEN f[v] ELSE <<>>
  <2>1. CASE v \in callsOf
    <3>1. Own(CallAt, v) = <<v>>
      BY <2>1 DEF Own, callsOf, ErrorsOf
    <3> QED
      BY <2>1, <3>1, TogetherOne
  <2>2. CASE v \notin callsOf
    <3>1. Own(CallAt, v) = <<>>
      BY <2>2 DEF Own, callsOf, ErrorsOf
    <3> QED
      BY <2>2, <3>1, TogetherEmpty
  <2> QED
    BY <2>1, <2>2
<1> QED
  BY <1>4, <1>5, <1>6

\* The calls see every *Error of the chain,
LEMMA CallsSeeAll ==
    ASSUME ErrsOK, NEW n \in DOMAIN errs
    PROVE  Together(Calls(n), nodeOf) = All(n)
<1> DEFINE D == DOMAIN CallAt
           f == [v \in D \cup {0} |-> Together(pCalls[v], nodeOf)]
           g == [v \in D \cup {0} |-> pAll[Called(v)]]
<1>1. /\ \A m \in DOMAIN errs : All(m) = pAll[m] /\ pAll[m] = Cat(Own(errs, m), Together(errs[m].branches, pAll))
      /\ pAll[0] = <<>>
  BY AllIs
<1>2. f[0] = g[0]
  <2>1. Called(0) = 0 /\ pCalls[0] = <<>> /\ 0 \in D \cup {0}
    BY CallsAre DEF Called
  <2> QED
    BY <1>1, <2>1, TogetherEmpty
<1>3. ASSUME NEW v \in D, \A m \in ToSet(CallsBelow[v]) : f[m] = g[m] PROVE f[v] = g[v]
  <2> DEFINE m == Called(v)
             bs == errs[m].branches
  <2>1. m \in DOMAIN errs /\ CallAt[v] = errs[m]
    BY CallIs
  <2>2. f[v] = Cat(IF v \in callsOf THEN nodeOf[v] ELSE <<>>, Together(CallsBelow[v], f))
    BY NodeMaps, CallsSplit
  <2>3. (IF v \in callsOf THEN nodeOf[v] ELSE <<>>) = Own(errs, m)
    BY <2>1, NodeMaps DEF Own, callsOf, ErrorsOf
  <2>4. Together(CallsBelow[v], f) = Together(CallsBelow[v], g)
    <3>1. CallsBelow[v] \in Sq(D \cup {0})
      BY BelowIs
    <3> HIDE DEF f, g
    <3> QED
      BY <1>3, <3>1, TogetherSame
  <2>5. Together(CallsBelow[v], g) = Together(bs, pAll)
    <3>1. DOMAIN CallsBelow[v] = DOMAIN bs
      BY BelowIs
    <3>2. ASSUME NEW i \in DOMAIN bs PROVE g[CallsBelow[v][i]] = pAll[bs[i]]
      <4>1. bs[i] \in 0..(m - 1) /\ CallsBelow[v][i] \in {bs[i], -bs[i]}
        BY BelowIs
      <4>2. CallsBelow[v][i] \in D \cup {0}
        <5>1. CallsBelow[v][i] \in ToSet(CallsBelow[v]) /\ CallsBelow[v] \in Sq(D \cup {0})
          BY <3>1, BelowIs DEF ToSet
        <5> QED
          BY <5>1, InSeq
      <4>3. bs[i] \in Nat
        BY <4>1
      <4>4. Called(CallsBelow[v][i]) = bs[i]
        <5>1. Called(bs[i]) = bs[i] /\ Called(-bs[i]) = bs[i]
          BY <4>3 DEF Called
        <5> QED
          BY <4>1, <5>1
      <4> QED
        BY <4>2, <4>4
    <3> HIDE DEF g, bs
    <3>3. [i \in DOMAIN CallsBelow[v] |-> g[CallsBelow[v][i]]] = [i \in DOMAIN bs |-> pAll[bs[i]]]
      BY <3>1, <3>2
    <3> QED
      BY <3>3, Zenon DEF Together
  <2>6. g[v] = pAll[m]
    OBVIOUS
  <2> HIDE DEF f, g, m, bs
  <2> QED
    BY <1>1, <2>1, <2>2, <2>3, <2>4, <2>5, <2>6 DEF bs
<1>4. f[n] = g[n]
  <2>1. n \in D
    BY CallIs
  <2> HIDE DEF f, g
  <2> QED
    BY <1>2, <1>3, <2>1, CallsRanked, RankedSame
<1>5. n \in D /\ Called(n) = n /\ Calls(n) = pCalls[n]
  BY CallIs, CallsAre
<1> QED
  BY <1>1, <1>4, <1>5

\* and of those that are not blocked, every one above the barriers.
LEMMA CallsSeeOpen ==
    ASSUME ErrsOK, NEW n \in DOMAIN errs
    PROVE  Together(Calls(n), openOf) = Unblocked(n)
<1> DEFINE D == DOMAIN CallAt
           f == [v \in D \cup {0} |-> Together(pCalls[v], openOf)]
           g == [v \in D \cup {0} |-> IF v > 0 THEN pOpen[v] ELSE <<>>]
<1>1. /\ \A m \in DOMAIN errs :
            Unblocked(m) = pOpen[m] /\ pOpen[m] = Cat(Own(errs, m), Together(OpenBranches(errs[m]), pOpen))
      /\ pOpen[0] = <<>>
  BY OpenIs
<1>2. f[0] = g[0]
  <2>1. pCalls[0] = <<>> /\ 0 \in D \cup {0}
    BY CallsAre
  <2> QED
    BY <2>1, TogetherEmpty
<1>3. ASSUME NEW v \in D, \A m \in ToSet(CallsBelow[v]) : f[m] = g[m] PROVE f[v] = g[v]
  <2> DEFINE m == Called(v)
             bs == errs[m].branches
  <2>1. m \in DOMAIN errs /\ CallAt[v] = errs[m] /\ (v > 0 => m = v) /\ v \in Int
    BY CallIs
  <2>2. f[v] = Cat(IF v \in callsOf THEN openOf[v] ELSE <<>>, Together(CallsBelow[v], f))
    BY NodeMaps, CallsSplit
  <2>3. (IF v \in callsOf THEN openOf[v] ELSE <<>>) = IF v > 0 THEN Own(errs, m) ELSE <<>>
    BY <2>1, NodeMaps DEF Own, callsOf, ErrorsOf
  <2>4. CallsBelow[v] \in Sq(D \cup {0}) /\ DOMAIN CallsBelow[v] = DOMAIN bs
    BY BelowIs
  <2>5. Together(CallsBelow[v], f) = Together(CallsBelow[v], g)
    <3> HIDE DEF f, g
    <3> QED
      BY <1>3, <2>4, TogetherSame
  <2>6. ASSUME NEW i \in DOMAIN bs
        PROVE  /\ CallsBelow[v][i] \in D \cup {0} /\ bs[i] \in Nat
               /\ CallsBelow[v][i] = IF CallBlocks(v) THEN -bs[i] ELSE bs[i]
    <3>1. CallsBelow[v][i] \in ToSet(CallsBelow[v])
      BY <2>4 DEF ToSet
    <3>2. bs[i] \in 0..(m - 1) /\ CallsBelow[v][i] = IF CallBlocks(v) THEN -bs[i] ELSE bs[i]
      BY BelowIs
    <3>3. CallsBelow[v][i] \in D \cup {0}
      BY <2>4, <3>1, InSeq
    <3> QED
      BY <3>2, <3>3
  <2>7. CASE CallBlocks(v)
    <3>1. ASSUME NEW u \in ToSet(CallsBelow[v]) PROVE g[u] = <<>>
      <4>1. PICK i \in DOMAIN bs : u = CallsBelow[v][i]
        BY <2>4 DEF ToSet
      <4>2. u \in D \cup {0} /\ ~(u > 0)
        <5>1. bs[i] \in Nat /\ u = -bs[i]
          BY <2>6, <2>7, <4>1
        <5>2. PICK k \in Nat : k = bs[i]
          BY <5>1
        <5>3. u \in D \cup {0}
          BY <2>6, <4>1
        <5>4. ~(u > 0)
          BY <5>1, <5>2
        <5> QED
          BY <5>3, <5>4
      <4> QED
        BY <4>2
    <3> HIDE DEF g, f
    <3>2. Together(CallsBelow[v], g) = <<>>
      BY <2>4, <3>1, TogetherNone
    <3>3. v > 0 => OpenBranches(errs[m]) = <<>>
      BY <2>1, <2>7 DEF CallBlocks, OpenBranches
    <3>4. Own(errs, m) \in Sq(ErrsOf)
      BY <2>1, OwnType DEF ErrsOf
    <3>5. f[v] = IF v > 0 THEN Own(errs, m) ELSE <<>>
      <4>1. <<>> \in Sq(ErrsOf)
        BY SqBasics
      <4> QED
        BY <2>2, <2>3, <2>5, <3>2, <3>4, <4>1, CatEmpty
    <3>6. v > 0 => pOpen[m] = Own(errs, m)
      BY <1>1, <2>1, <3>3, <3>4, CatEmpty, TogetherEmpty
    <3> HIDE DEF m
    <3> QED
      BY <2>1, <3>5, <3>6 DEF g
  <2>8. CASE ~CallBlocks(v)
    <3>1. v > 0 /\ OpenBranches(errs[m]) = bs /\ v = m
      <4>1. v > 0
        BY <2>1, <2>8, CallIs DEF CallBlocks
      <4> QED
        BY <2>1, <2>8, <4>1 DEF CallBlocks, OpenBranches
    <3>2. ASSUME NEW i \in DOMAIN bs PROVE g[CallsBelow[v][i]] = pOpen[bs[i]]
      <4>1. CallsBelow[v][i] = bs[i] /\ bs[i] \in D \cup {0} /\ bs[i] \in Nat
        BY <2>6, <2>8
      <4> HIDE DEF bs
      <4> QED
        BY <1>1, <4>1
    <3> HIDE DEF g, f, bs
    <3>3. [i \in DOMAIN CallsBelow[v] |-> g[CallsBelow[v][i]]] = [i \in DOMAIN bs |-> pOpen[bs[i]]]
      BY <2>4, <3>2
    <3>4. Together(CallsBelow[v], g) = Together(bs, pOpen)
      BY <3>3, Zenon DEF Together
    <3>5. f[v] = Cat(Own(errs, m), Together(bs, pOpen))
      BY <2>2, <2>3, <2>5, <3>1, <3>4
    <3>6. pOpen[m] = f[v]
      BY <1>1, <2>1, <3>1, <3>5
    <3> HIDE DEF m
    <3> QED
      BY <3>1, <3>6 DEF g
  <2> QED
    BY <2>7, <2>8
<1>4. f[n] = g[n]
  <2>1. n \in D
    BY CallIs
  <2> HIDE DEF f, g
  <2> QED
    BY <1>2, <1>3, <2>1, CallsRanked, RankedSame
<1>5. n \in D /\ n > 0 /\ Calls(n) = pCalls[n]
  BY CallIs, CallsAre
<1> QED
  BY <1>1, <1>4, <1>5

\* What is gathered, c, of the errors seen, ns, and of those not blocked, os.
Taken(c, ns, os) ==
    /\ c.haveCode <=> FirstSet(ns, codes) # Unset
    /\ c.code = IF FirstSet(ns, codes) = Unset THEN Unknown ELSE FirstSet(ns, codes)
    /\ c.trace = Together(ns, frames)
    /\ c.attrs = Together(ns, attrs)
    /\ c.public = FirstSet(os, public)
    /\ c.fields = Together(os, fields)
    /\ c.violations = Together(os, violations)
    /\ c.retryDelay = FirstSet(os, delay)

\* One call more takes one error more.
LEMMA SeeTakes ==
    ASSUME ErrsOK, NEW c, NEW ns \in Sq(ErrsOf), NEW os \in Sq(ErrsOf), Taken(c, ns, os), NEW v \in callsOf
    PROVE  Taken(See(c, v), Add(ns, Called(v)), IF v > 0 THEN Add(os, Called(v)) ELSE os)
<1> DEFINE n == Called(v)
           d == See(c, v)
<1>1. n \in ErrsOf /\ n \in DOMAIN errs
  BY NodeMaps, EntryMaps
<1>2. /\ Maps(attrs, ErrsOf, Sq(Entries("attr"))) /\ Maps(fields, ErrsOf, Sq(Entries("field")))
      /\ Maps(frames, ErrsOf, Sq(FrameWords)) /\ Maps(violations, ErrsOf, Sq({"violation"} \X DOMAIN errs))
  BY EntryMaps, FrameMaps, ViolationMaps
<1>3. codes[n] = errs[n].code /\ frames[n] = FrameString(n)
  BY <1>1 DEF codes, frames
<1>4. /\ d.code = IF ~c.haveCode /\ errs[n].code # Unset THEN errs[n].code ELSE c.code
      /\ d.haveCode <=> c.haveCode \/ errs[n].code # Unset
      /\ d.trace = Cat(c.trace, FrameString(n))
      /\ d.attrs = Cat(c.attrs, attrs[n])
      /\ d.public = IF v > 0 /\ c.public = Unset THEN public[n] ELSE c.public
      /\ d.fields = IF v > 0 THEN Cat(c.fields, fields[n]) ELSE c.fields
      /\ d.violations = IF v > 0 THEN Cat(c.violations, violations[n]) ELSE c.violations
      /\ d.retryDelay = IF v > 0 /\ c.retryDelay = Unset THEN delay[n] ELSE c.retryDelay
  <2>1. d = [code |-> IF ~c.haveCode /\ errs[n].code # Unset THEN errs[n].code ELSE c.code,
             haveCode |-> c.haveCode \/ errs[n].code # Unset,
             public |-> FirstShown(v, c.public, public[n]),
             trace |-> c.trace \o FrameString(n),
             attrs |-> c.attrs \o attrs[n],
             fields |-> AllShown(v, c.fields, fields[n]),
             violations |-> AllShown(v, c.violations, violations[n]),
             retryDelay |-> FirstShown(v, c.retryDelay, delay[n])]
    BY Zenon DEF See
  <2> HIDE DEF d, n
  <2>2. d.haveCode <=> c.haveCode \/ errs[n].code # Unset
    BY <2>1
  <2>3. d.code = IF ~c.haveCode /\ errs[n].code # Unset THEN errs[n].code ELSE c.code
    BY <2>1
  <2>4. d.trace = Cat(c.trace, FrameString(n)) /\ d.attrs = Cat(c.attrs, attrs[n])
    BY <2>1 DEF Cat
  <2>5. /\ d.public = IF v > 0 /\ c.public = Unset THEN public[n] ELSE c.public
        /\ d.retryDelay = IF v > 0 /\ c.retryDelay = Unset THEN delay[n] ELSE c.retryDelay
    BY <2>1 DEF FirstShown
  <2>6. /\ d.fields = IF v > 0 THEN Cat(c.fields, fields[n]) ELSE c.fields
        /\ d.violations = IF v > 0 THEN Cat(c.violations, violations[n]) ELSE c.violations
    BY <2>1 DEF AllShown, Cat
  <2> QED
    BY <2>2, <2>3, <2>4, <2>5, <2>6
<1> HIDE DEF n, d
<1>5. /\ FirstSet(Add(ns, n), codes) = First(FirstSet(ns, codes), codes[n])
      /\ Together(Add(ns, n), frames) = Cat(Together(ns, frames), frames[n])
      /\ Together(Add(ns, n), attrs) = Cat(Together(ns, attrs), attrs[n])
  BY <1>1, <1>2, FirstSetAppend, TogetherAppend
<1>6. /\ FirstSet(Add(os, n), public) = First(FirstSet(os, public), public[n])
      /\ FirstSet(Add(os, n), delay) = First(FirstSet(os, delay), delay[n])
      /\ Together(Add(os, n), fields) = Cat(Together(os, fields), fields[n])
      /\ Together(Add(os, n), violations) = Cat(Together(os, violations), violations[n])
  BY <1>1, <1>2, FirstSetAppend, TogetherAppend
<1> DEFINE more == Add(ns, n)
           moreOpen == IF v > 0 THEN Add(os, n) ELSE os
<1>7. /\ d.haveCode <=> FirstSet(more, codes) # Unset
      /\ d.code = IF FirstSet(more, codes) = Unset THEN Unknown ELSE FirstSet(more, codes)
  BY <1>3, <1>4, <1>5 DEF Taken, First
<1>8. d.trace = Together(more, frames) /\ d.attrs = Together(more, attrs)
  BY <1>3, <1>4, <1>5 DEF Taken
<1>9. d.public = FirstSet(moreOpen, public) /\ d.retryDelay = FirstSet(moreOpen, delay)
  BY <1>4, <1>6 DEF Taken, First
<1>10. d.fields = Together(moreOpen, fields) /\ d.violations = Together(moreOpen, violations)
  BY <1>4, <1>6 DEF Taken
<1> HIDE DEF more, moreOpen
<1>11. Taken(d, more, moreOpen)
  BY <1>7, <1>8, <1>9, <1>10 DEF Taken
<1> QED
  BY <1>11 DEF d, n, more, moreOpen

\* So collect agrees with CodeOf, the lookups, Trace and Attrs.
LEMMA CollectIs ==
    ASSUME ErrsOK, NEW n \in DOMAIN errs
    PROVE  /\ collect(n).code = CodeOf(n)
           /\ collect(n).public = LookupPublicMessage(n)
           /\ collect(n).fields = Together(Unblocked(n), fields)
           /\ collect(n).violations = FieldViolations(n)
           /\ collect(n).retryDelay = LookupRetryDelay(n)
           /\ collect(n).attrs = Attrs(n)
           /\ collect(n).trace = Trace(n)
<1> DEFINE P == {cs \in Sq(callsOf) : Taken(Pass(cs), Together(cs, nodeOf), Together(cs, openOf))}
<1>1. <<>> \in P
  <2>1. <<>> \in Sq(callsOf)
    BY SqBasics
  <2>2. Taken(Collected, <<>>, <<>>)
    <3>1. \A f : FirstSet(<<>>, f) = Unset /\ Together(<<>>, f) = <<>>
      BY FirstSetEmpty, TogetherEmpty
    <3> QED
      BY <3>1 DEF Taken, Collected
  <2> QED
    BY <2>1, <2>2, PassEmpty, TogetherEmpty
<1>2. ASSUME NEW cs \in Sq(callsOf), NEW v \in callsOf, cs \in P PROVE Add(cs, v) \in P
  <2> DEFINE ns == Together(cs, nodeOf)
             os == Together(cs, openOf)
  <2>1. Maps(nodeOf, callsOf, Sq(ErrsOf)) /\ Maps(openOf, callsOf, Sq(ErrsOf)) /\ Called(v) \in ErrsOf
        /\ nodeOf[v] = <<Called(v)>> /\ openOf[v] = IF v > 0 THEN <<Called(v)>> ELSE <<>>
    BY NodeMaps
  <2>2. ns \in Sq(ErrsOf) /\ os \in Sq(ErrsOf)
    BY <2>1, TogetherType
  <2>3. Together(Add(cs, v), nodeOf) = Cat(ns, nodeOf[v]) /\ Together(Add(cs, v), openOf) = Cat(os, openOf[v])
    BY <2>1, TogetherAppend
  <2>4. Taken(Pass(cs), ns, os)
    BY <1>2
  <2>5. Pass(Add(cs, v)) = See(Pass(cs), v) /\ Add(cs, v) \in Sq(callsOf)
    BY PassAppend, AddProperties
  <2> HIDE DEF ns, os
  <2>6. Cat(ns, nodeOf[v]) = Add(ns, Called(v))
    BY <2>1, <2>2, CatAppend
  <2>7. Cat(os, openOf[v]) = IF v > 0 THEN Add(os, Called(v)) ELSE os
    BY <2>1, <2>2, CatAppend, CatEmpty
  <2>8. Taken(See(Pass(cs), v), Add(ns, Called(v)), IF v > 0 THEN Add(os, Called(v)) ELSE os)
    BY <2>2, <2>4, SeeTakes
  <2> QED
    BY <2>3, <2>5, <2>6, <2>7, <2>8
<1> HIDE DEF P
<1>3. Calls(n) \in P
  <2>1. Calls(n) \in Sq(callsOf)
    BY CallIs, CallsAre DEF Maps
  <2> QED
    BY <1>1, <1>2, <2>1, SeqInduction
<1>4. Taken(collect(n), All(n), Unblocked(n))
  BY <1>3, CallsSeeAll, CallsSeeOpen DEF P, collect
<1>5. codes = [m \in DOMAIN errs |-> errs[m].code] /\ frames = [m \in DOMAIN errs |-> FrameString(m)]
  BY DEF codes, frames
<1> QED
  BY <1>4, <1>5 DEF Taken, CodeOf, LookupPublicMessage, FieldViolations, LookupRetryDelay, Attrs, Trace

\* The code of an error is its own, or that of one of its branches.
LEMMA CodeFrom ==
    ASSUME ErrsOK, NEW n \in DOMAIN errs
    PROVE  CodeOf(n) \in IF errs[n].kind = "Error" /\ errs[n].code # Unset THEN {errs[n].code}
                         ELSE IF Branches(n) = {} THEN {Unknown} ELSE {CodeOf(m) : m \in Branches(n)}
<1> DEFINE bs == errs[n].branches
           N == DOMAIN errs \cup {0}
           first(ns) == FirstSet(ns, codes)
           code(s) == IF first(s) = Unset THEN Unknown ELSE first(s)
<1>1. /\ Maps(pAll, N, Sq(ErrsOf)) /\ pAll[0] = <<>>
      /\ \A m \in DOMAIN errs : All(m) = pAll[m]
      /\ pAll[n] = Cat(Own(errs, n), Together(bs, pAll))
  BY AllIs
<1>2. bs \in Sq(N) /\ Own(errs, n) \in Sq(ErrsOf) /\ Together(bs, pAll) \in Sq(ErrsOf)
  BY <1>1, BranchesOK, OwnType, TogetherType DEF ErrsOf
<1>3. \A m \in DOMAIN errs : CodeOf(m) = code(pAll[m])
  BY <1>1 DEF CodeOf, codes
<1>4. first(pAll[n]) = First(first(Own(errs, n)), first(Together(bs, pAll)))
  BY <1>1, <1>2, FirstSetCat
<1>5. first(Own(errs, n)) = IF errs[n].kind = "Error" THEN errs[n].code ELSE Unset
  <2>1. CASE errs[n].kind = "Error"
    <3>1. Own(errs, n) = Add(<<>>, n) /\ <<>> \in Sq({n}) /\ codes[n] = errs[n].code
      BY <2>1, SqBasics DEF Own, Add, codes
    <3>2. first(Add(<<>>, n)) = First(first(<<>>), codes[n])
      BY <3>1, FirstSetAppend
    <3> QED
      BY <2>1, <3>1, <3>2, FirstSetEmpty DEF First
  <2>2. CASE errs[n].kind # "Error"
    BY <2>2, FirstSetEmpty DEF Own
  <2> QED
    BY <2>1, <2>2
<1>6. \A m \in ToSet(bs) : m # 0 <=> m \in Branches(n)
  BY DEF Branches
<1>7. \A m \in Branches(n) : m \in DOMAIN errs /\ m \in ToSet(bs)
  BY BranchesOK DEF Branches
<1>8. CASE first(Together(bs, pAll)) # Unset
  <2>1. PICK m \in ToSet(bs) : first(pAll[m]) = first(Together(bs, pAll))
    BY <1>1, <1>2, <1>8, FirstSetTogether
  <2>2. m \in Branches(n)
    BY <1>1, <1>6, <1>8, <2>1, FirstSetEmpty
  <2>3. CodeOf(m) = first(Together(bs, pAll))
    BY <1>3, <1>7, <1>8, <2>1, <2>2
  <2> HIDE DEF first
  <2> QED
    BY <1>3, <1>4, <1>5, <1>8, <2>2, <2>3 DEF First
<1>9. CASE first(Together(bs, pAll)) = Unset
  <2>1. ASSUME NEW m \in Branches(n) PROVE CodeOf(m) = Unknown
    <3>1. m \in ToSet(bs) /\ m \in DOMAIN errs /\ pAll[m] \in Sq(ErrsOf)
      BY <1>1, <1>7 DEF Maps
    <3>2. \A e \in ToSet(pAll[m]) : codes[e] = Unset
      <4>1. \A e \in ToSet(pAll[m]) : e \in ToSet(Together(bs, pAll))
        BY <1>1, <1>2, <3>1, InTogether
      <4> QED
        BY <1>2, <1>9, <4>1, FirstSetSound
    <3>3. first(pAll[m]) = Unset
      BY <3>1, <3>2, FirstSetSound
    <3> QED
      BY <1>3, <3>1, <3>3
  <2> HIDE DEF first
  <2> QED
    BY <1>3, <1>4, <1>5, <1>9, <2>1 DEF First
<1> QED
  BY <1>8, <1>9

\* One error, one code, wherever it is shown.
LEMMA OneCodeHolds ==
    ASSUME ErrsOK
    PROVE  OneCode
<1> SUFFICES ASSUME NEW n \in Newest
             PROVE  LET name == Member(n, "code")
                        st == ToStatus(n)
                        log == LogValue(n)
                        span == SpanEvent(n).attributes
                        coded == errs[n].kind = "Error" /\ errs[n].code # Unset
                    IN  /\ errs[n].kind = "Error" =>
                              /\ detailed(n).code = name
                              /\ \E i \in DOMAIN log :
                                    /\ log[i] = Entry("code", name)
                                    /\ \A j \in DOMAIN log : log[j].key = "code" =>
                                          j = i \/ (j > i /\ log[j] \in ToSet(Attrs(n)))
                        /\ span[1] = Entry("errtrail.code", name)
                        /\ \A i \in DOMAIN span : span[i].key = "errtrail.code" => i = 1
                        /\ String(CodeFromStatus(st)) = IF st.reason # Unset THEN name ELSE String(Unknown)
                        /\ name \in IF coded THEN {String(errs[n].code)}
                                    ELSE IF Branches(n) = {} THEN {String(Unknown)}
                                    ELSE {Member(m, "code") : m \in Branches(n)}
  BY DEF OneCode
<1>1. n \in DOMAIN errs
  <2>1. n = Len(errs) /\ errs # <<>>
    BY DEF Newest
  <2>2. PICK S : errs \in Seq(S)
    BY DEF ErrsOK
  <2> QED
    BY <2>1, <2>2
<1> DEFINE c == CodeOf(n)
           name == Member(n, "code")
           log == LogValue(n)
           span == SpanEvent(n).attributes
           st == ToStatus(n)
<1>2. name = <<"name", c>> /\ name = String(c)
  BY MemberCode DEF String
<1>3. Attrs(n) \in Sq(Entries("attr"))
  BY <1>1, AttrsType
<1>4. ASSUME errs[n].kind = "Error"
      PROVE  /\ detailed(n).code = name
             /\ \E i \in DOMAIN log : /\ log[i] = Entry("code", name)
                                     /\ \A j \in DOMAIN log : log[j].key = "code" =>
                                           j = i \/ (j > i /\ log[j] \in ToSet(Attrs(n)))
  <2>1. detailed(n).code = name
    BY <1>1, <1>2, <1>4, CollectIs DEF detailed
  <2>2. PICK x, z : log = <<Entry("msg", x), Entry("code", name), Entry("trace", z)>> \o Attrs(n)
    <3>1. collect(n).code = c /\ collect(n).attrs = Attrs(n) /\ errs[n].kind # "nilError"
      BY <1>1, <1>4, CollectIs
    <3>2. log = <<Entry("msg", List(Text(n))), Entry("code", String(collect(n).code)),
                  Entry("trace", List(collect(n).trace))>> \o collect(n).attrs
      BY <3>1, Zenon DEF LogValue
    <3> HIDE DEF c, log, name
    <3> QED
      BY <1>2, <3>1, <3>2, Zenon
  <2>3. /\ Len(Attrs(n)) \in Nat /\ \A i \in 1..Len(Attrs(n)) : Attrs(n)[i] \in ToSet(Attrs(n))
        /\ \E S : Attrs(n) \in Seq(S)
    BY <1>3, InSeq DEF Sq
  <2> HIDE DEF log, name
  <2>4. PICK as : as = Attrs(n)
    OBVIOUS
  <2>5. /\ log[1] = Entry("msg", x) /\ log[2] = Entry("code", name) /\ log[3] = Entry("trace", z)
        /\ DOMAIN log = 1..(Len(as) + 3) /\ \A i \in 4..(Len(as) + 3) : log[i] = as[i - 3]
    BY <2>2, <2>3, <2>4, ThreeBefore
  <2>6. ASSUME NEW j \in DOMAIN log, log[j].key = "code"
        PROVE  j = 2 \/ (j > 2 /\ log[j] \in ToSet(Attrs(n)))
    <3>1. j \in 1..3 \/ (j \in 4..(Len(as) + 3) /\ j - 3 \in 1..Len(as))
      BY <2>3, <2>4, <2>5
    <3>2. Entry("msg", x).key # "code" /\ Entry("trace", z).key # "code"
      BY DEF Entry
    <3>3. CASE j \in 1..3
      <4>1. j = 1 \/ j = 2 \/ j = 3
        BY <3>3
      <4> QED
        BY <2>5, <2>6, <3>2, <4>1
    <3>4. CASE j \in 4..(Len(as) + 3) /\ j - 3 \in 1..Len(as)
      <4>1. j > 2
        BY <3>4
      <4> QED
        BY <2>3, <2>4, <2>5, <3>4, <4>1
    <3> QED
      BY <3>1, <3>3, <3>4
  <2>7. 2 \in DOMAIN log
    BY <2>3, <2>4, <2>5
  <2> QED
    BY <2>1, <2>5, <2>6, <2>7
<1>5. /\ span[1] = Entry("errtrail.code", name)
      /\ \A i \in DOMAIN span : span[i].key = "errtrail.code" => i = 1
  <2> DEFINE T == {a \in ToSet(Attrs(n)) : a.key # "errtrail.code"}
             e == Entry("errtrail.code", name)
  <2>1. PICK o : o = Only(Attrs(n), T)
    OBVIOUS
  <2>2. span = <<e>> \o o
    BY <1>2, <2>1, Zenon DEF SpanEvent
  <2>3. o \in Sq(Entries("attr")) /\ \A x \in ToSet(o) : x.key # "errtrail.code"
    BY <1>3, <2>1, OnlyType, InOnly
  <2>4. /\ Len(o) \in Nat /\ \A i \in 1..Len(o) : o[i].key # "errtrail.code"
        /\ \E S : o \in Seq(S)
    BY <2>3, InSeq DEF Sq
  <2> HIDE DEF e, span
  <2>5. span[1] = e
    BY <2>2, <2>4
  <2>6. DOMAIN span = 1..(Len(o) + 1) /\ \A i \in 2..(Len(o) + 1) : span[i] = o[i - 1]
    BY <2>2, <2>4
  <2>7. ASSUME NEW i \in DOMAIN span, i # 1 PROVE span[i].key # "errtrail.code"
    <3>1. i \in 2..(Len(o) + 1) /\ i - 1 \in 1..Len(o)
      BY <2>4, <2>6, <2>7, SMTT(30)
    <3> QED
      BY <2>4, <2>6, <3>1
  <2> QED
    BY <2>5, <2>7 DEF e
<1>6. c # Unset
  BY UnsetApart DEF CodeOf, Unknown
<1>7. /\ st.reason = IF Registered(c) THEN c ELSE Unset
      /\ st.grpc = GRPCCode(c)
  BY DEF ToStatus
<1>8. ~Registered(c) => GRPCCode(c) = 2
  BY DEF GRPCCode
<1>9. String(CodeFromStatus(st)) = IF st.reason # Unset THEN name ELSE String(Unknown)
  <2>1. CASE Registered(c)
    <3>1. st.reason = c /\ st.grpc = GRPCCode(c)
      BY <1>7, <2>1
    <3> HIDE DEF st, c, name
    <3> QED
      BY <1>2, <1>6, <2>1, <3>1 DEF CodeFromStatus
  <2>2. CASE ~Registered(c)
    <3>1. st.reason = Unset /\ st.grpc = 2
      BY <1>7, <1>8, <2>2
    <3> HIDE DEF st, c, name
    <3> QED
      BY <3>1 DEF CodeFromStatus, Unknown
  <2> QED
    BY <2>1, <2>2
<1>10. name \in IF errs[n].kind = "Error" /\ errs[n].code # Unset THEN {String(errs[n].code)}
                ELSE IF Branches(n) = {} THEN {String(Unknown)}
                ELSE {Member(m, "code") : m \in Branches(n)}
  <2>1. c \in IF errs[n].kind = "Error" /\ errs[n].code # Unset THEN {errs[n].code}
              ELSE IF Branches(n) = {} THEN {Unknown} ELSE {CodeOf(m) : m \in Branches(n)}
    BY <1>1, CodeFrom
  <2>2. \A m : Member(m, "code") = String(CodeOf(m))
    BY MemberCode DEF String
  <2> HIDE DEF c, name
  <2> QED
    BY <1>2, <2>1, <2>2
<1> HIDE DEF name, log, span, st, c
<1> QED
  BY <1>4, <1>5, <1>9, <1>10 DEF name, log, span, st

\* What %+v shows as public is what is sent.
LEMMA ShownIsSentHolds ==
    ASSUME ErrsOK
    PROVE  ShownIsSent
<1> SUFFICES ASSUME NEW n \in Newest, errs[n].kind = "Error"
             PROVE  LET d == detailed(n)
                        st == ToStatus(n)
                        shown == ToSet(d.fields)
                    IN  /\ st.message = IF d.public # Unset THEN d.public ELSE d.code
                        /\ Member(n, "detail") = IF d.public = Member(n, "title") THEN Unset ELSE d.public
                        /\ st.violations = d.violations
                        /\ (\A f \in shown : f.key # "errors") =>
                              Member(n, "errors") = IF d.violations = <<>> THEN Unset ELSE List(d.violations)
                        /\ st.retry = IF d.retry # Unset THEN d.retry ELSE RetryDelay(CodeOf(n))
                        /\ \A k \in MemberKey \ Reserved :
                              LET v == Member(n, k)
                              IN  IF v = Unset \/ v[1] = "list" THEN \A f \in shown : f.key # k
                                  ELSE Entry(k, v) \in shown
  BY DEF ShownIsSent
<1>1. n \in DOMAIN errs
  BY NewestIs
<1> DEFINE d == detailed(n)
           st == ToStatus(n)
           shown == ToSet(Together(Unblocked(n), fields))
<1>2. /\ d.public = LookupPublicMessage(n)
      /\ d.violations = FieldViolations(n)
      /\ d.retry = LookupRetryDelay(n)
      /\ ToSet(d.fields) = shown
      /\ d.code = String(CodeOf(n))
  BY <1>1, CollectIs DEF detailed
<1>3. /\ st.violations = FieldViolations(n)
      /\ st.retry = IF LookupRetryDelay(n) # Unset THEN LookupRetryDelay(n) ELSE RetryDelay(CodeOf(n))
      /\ st.message = IF LookupPublicMessage(n) # Unset THEN LookupPublicMessage(n) ELSE String(CodeOf(n))
  BY DEF ToStatus
<1>4. ASSUME NEW k \in MemberKey \ Reserved
      PROVE  IF Member(n, k) = Unset \/ Member(n, k)[1] = "list" THEN \A f \in shown : f.key # k
             ELSE Entry(k, Member(n, k)) \in shown
  <2> DEFINE v == PublicField(n, k)
  <2>1. \/ v = Unset /\ \A f \in shown : f.key # k
        \/ v # Unset /\ Entry(k, v) \in shown /\ v[1] = "field"
    BY <1>1, PublicFieldIs
  <2>2. \/ Member(n, k) = v
        \/ v = Unset /\ Member(n, k) = List(FieldViolations(n))
    BY MemberOther
  <2>3. List(FieldViolations(n))[1] = "list"
    BY DEF List
  <2> HIDE DEF v, shown
  <2> QED
    BY <2>1, <2>2, <2>3
<1>5. ASSUME \A f \in shown : f.key # "errors"
      PROVE  Member(n, "errors") = IF d.violations = <<>> THEN Unset ELSE List(d.violations)
  <2> DEFINE v == PublicField(n, "errors")
  <2>1. v = Unset \/ Entry("errors", v) \in shown
    BY <1>1, PublicFieldIs
  <2>2. v = Unset
    BY <1>5, <2>1 DEF Entry
  <2>3. "errors" \notin Reserved
    BY DEF Reserved
  <2> HIDE DEF v, shown, d
  <2> QED
    BY <1>2, <2>2, <2>3, MemberOther DEF v
<1>6. Member(n, "detail") = IF d.public = Member(n, "title") THEN Unset ELSE d.public
  BY <1>2, MemberCode DEF Detail
<1> HIDE DEF d, st, shown
<1> QED
  BY <1>2, <1>3, <1>4, <1>5, <1>6 DEF d, st

\* So texts and traces have the same messages.
LEMMA TextMatchesTraceHolds == ASSUME ErrsOK PROVE TextMatchesTrace
<1>1. textMessages = traceMessages
  BY TextMessages, TraceIs, AllRanked, OrderUnique
<1>2. ASSUME NEW n \in Newest
      PROVE  /\ Only(Text(n), messages) = Only(Trace(n), messages)
             /\ errs[n].kind = "Error" => detailed(n).trace = Trace(n)
  <2>1. n \in DOMAIN errs
    BY NewestIs
  <2>2. textMessages[n] = Only(texts[n], messages) /\ traceMessages[n] = Only(tracesOf[n], messages)
    BY <2>1 DEF textMessages, traceMessages
  <2> QED
    BY <1>1, <2>1, <2>2, TextIs, TraceIs, CollectIs DEF detailed
<1> QED
  BY <1>2, Zenon DEF TextMatchesTrace, messages

\* The errors made so far are well formed.
LEMMA ErrsAlways == BSpec => []ErrsOK
<1>1. ErrsOK /\ [BNext]_errs => ErrsOK'
  BY StepErrs
<1> QED
  BY <1>1, InitErrs, PTL DEF BSpec

\* One error has one code: the pass behind %+v and the log resolves the one that
\* the walks behind the span, the problem and the status do, it is the error's own
\* or that of a branch, and an attr under its key comes behind it, if at all.
THEOREM OneCodeCorrect == BSpec => []OneCode
<1>1. ErrsOK => OneCode
  BY OneCodeHolds
<1>2. BSpec => []ErrsOK
  BY ErrsAlways
<1> QED
  BY <1>1, <1>2, PTL

\* A client is shown nothing but what was made public for it: on the error itself
\* or on one that it wraps, above every barrier.
THEOREM ClientsSeeTheirOwnCorrect == BSpec => []ClientsSeeTheirOwn
<1>1. ErrsOK => ClientsSeeTheirOwn
  BY ClientsSeeTheirOwnHolds
<1>2. BSpec => []ErrsOK
  BY ErrsAlways
<1> QED
  BY <1>1, <1>2, PTL

\* The public lines of %+v, gathered in one pass, show what the responses' walks
\* find for a client; what differs is the delay registered for a code, a detail
\* that repeats the title, and fields replaced or reserved.
THEOREM ShownIsSentCorrect == BSpec => []ShownIsSent
<1>1. ErrsOK => ShownIsSent
  BY ShownIsSentHolds
<1>2. BSpec => []ErrsOK
  BY ErrsAlways
<1> QED
  BY <1>1, <1>2, PTL

\* The text of an error has the messages of its trace, in the same order.
THEOREM TextMatchesTraceCorrect == BSpec => []TextMatchesTrace
<1>1. ErrsOK => TextMatchesTrace
  BY TextMatchesTraceHolds
<1>2. BSpec => []ErrsOK
  BY ErrsAlways
<1> QED
  BY <1>1, <1>2, PTL

----------------------------------------------------------------------------
(* Walk: what an *Error adds to the accumulator.                           *)

Acc == [code: Data \cup {Unset}, public: Data \cup {Unset}, delay: Data \cup {Unset},
        fields: Seq(Field), map: [Key -> Data \cup {Unset}],
        violations: Seq(Data), trace: Seq(Node)]

Typed == TypeOK /\ heap \in Heaps /\ acc \in Acc

Frame == [left: Seq(Node \cup {0}), blocked: BOOLEAN]

\* Where nothing is suspended, and where nothing has been gathered.
Quiet ==
    /\ pc \in {"idle", "done"} => stack = <<>>
    /\ pc = "idle" => visits = <<>> /\ acc = Nothing
    /\ pc = "unwrap" => err # 0

Path(s) ==
    /\ pc = "loop" /\ ~blocked /\ err # 0 => err \in s
    /\ pc = "unwrap" /\ ~blocked => Within(heap[err].branches, s)
    /\ \A f \in 1..Len(stack) : ~stack[f].blocked => Within(stack[f].left, s)

\* LastField is a field of the node, or Unset.
LEMMA LastFieldSound ==
    ASSUME NEW fs \in Seq(Field), NEW k \in Key, LastField(fs, k) # Unset
    PROVE  /\ LastField(fs, k) \in Data
           /\ \E j \in 1..Len(fs) : fs[j] = [key |-> k, value |-> LastField(fs, k)]
<1>1. fs \in Sq(Field)
  BY DEF Sq
<1>2. PICK f \in ToSet(fs) : f.key = k /\ LastField(fs, k) = f.value
  BY <1>1, LastFieldIs
<1>3. f \in Field /\ \E j \in 1..Len(fs) : fs[j] = f
  BY <1>1, InSeq
<1>4. f = [key |-> k, value |-> LastField(fs, k)] /\ LastField(fs, k) \in Data
  BY <1>2, <1>3 DEF Field
<1> QED
  BY <1>3, <1>4

\* LastField gives a value, or Unset.
LEMMA LastFieldType ==
    ASSUME NEW fs \in Seq(Field), NEW k \in Key
    PROVE  LastField(fs, k) \in Data \cup {Unset}
BY LastFieldSound

\* Gather keeps the accumulator's type.
LEMMA GatherType ==
    ASSUME NEW a \in Acc, NEW x \in Content, NEW c, NEW b \in BOOLEAN, err \in Node
    PROVE  Gather(c, x, b, a) \in Acc
<1> DEFINE g == Gather(c, x, b, a)
<1>1. /\ a.code \in Data \cup {Unset} /\ a.public \in Data \cup {Unset}
      /\ a.delay \in Data \cup {Unset} /\ a.fields \in Seq(Field)
      /\ a.map \in [Key -> Data \cup {Unset}]
      /\ a.violations \in Seq(Data) /\ a.trace \in Seq(Node)
  BY DEF Acc
<1>2. /\ x.code \in Data \cup {Unset} /\ x.public \in Data \cup {Unset}
      /\ x.delay \in Data \cup {Unset} /\ x.fields \in Seq(Field)
      /\ x.violations \in Seq(Data)
  BY DEF Content
<1>3. MergeFields(a.map, x.fields) \in [Key -> Data \cup {Unset}]
  BY <1>1, <1>2, LastFieldType DEF MergeFields, First
<1>4. g.code \in Data \cup {Unset}
  BY <1>1, <1>2 DEF Gather, First, Overwrite
<1>5. g.public \in Data \cup {Unset}
  BY <1>1, <1>2 DEF Gather, First, Overwrite
<1>6. g.delay \in Data \cup {Unset}
  BY <1>1, <1>2 DEF Gather, First, Overwrite
<1>7. g.fields \in Seq(Field)
  BY <1>1, <1>2 DEF Gather
<1>8. g.map \in [Key -> Data \cup {Unset}]
  BY <1>1, <1>3 DEF Gather
<1>9. g.violations \in Seq(Data)
  BY <1>1, <1>2 DEF Gather
<1>10. g.trace \in Seq(Node)
  BY <1>1 DEF Gather
<1>11. g = [code |-> g.code, public |-> g.public, delay |-> g.delay, fields |-> g.fields,
            map |-> g.map, violations |-> g.violations, trace |-> g.trace]
  BY DEF Gather
<1> HIDE DEF g
<1>12. [code |-> g.code, public |-> g.public, delay |-> g.delay, fields |-> g.fields,
        map |-> g.map, violations |-> g.violations, trace |-> g.trace] \in Acc
  BY <1>4, <1>5, <1>6, <1>7, <1>8, <1>9, <1>10, Zenon DEF Acc
<1>13. g \in Acc
  BY <1>11, <1>12, Zenon
<1> QED
  BY <1>13 DEF g

\* Below a barrier, Gather leaves the public parts of the accumulator alone.
LEMMA GatherBlocked ==
    ASSUME blocked, NEW x
    PROVE  LET g == Gather(collector, x, blocked, acc)
           IN  /\ g.public = acc.public /\ g.delay = acc.delay /\ g.fields = acc.fields
               /\ g.map = acc.map /\ g.violations = acc.violations
<1>1. \A cs : ~Shown(collector, blocked, cs)
  BY DEF Shown
<1> QED
  BY <1>1 DEF Gather

\* Above it, Gather adds what the node at hand says, and nothing else.
LEMMA GatherOpen ==
    ASSUME NEW x
    PROVE  LET g == Gather(collector, x, blocked, acc)
           IN  /\ g.public \in {acc.public, x.public}
               /\ g.delay \in {acc.delay, x.delay}
               /\ g.fields = acc.fields \/ g.fields = acc.fields \o x.fields
               /\ g.map = acc.map \/ g.map = MergeFields(acc.map, x.fields)
               /\ g.violations = acc.violations \/ g.violations = acc.violations \o x.violations
BY DEF Gather, First, Overwrite

----------------------------------------------------------------------------
(* Types.                                                                  *)

USE WalkAssumption

\* The contents of a heap, and what Unwrap yields.
LEMMA HeapType ==
    ASSUME heap \in [Node -> Content], NEW n \in Node
    PROVE  /\ heap[n] \in Content
           /\ heap[n].branches \in Seq(Node \cup {0})
           /\ heap[n].barrier \in BOOLEAN
BY DEF Content

\* An empty accumulator is one.
LEMMA NothingType == Nothing \in Acc
<1>1. <<>> \in Seq(Field) /\ <<>> \in Seq(Data) /\ <<>> \in Seq(Node)
  OBVIOUS
<1>2. [k \in Key |-> Unset] \in [Key -> Data \cup {Unset}]
  OBVIOUS
<1> QED
  BY <1>1, <1>2, Zenon DEF Nothing, Acc

\* The initial states are typed.
LEMMA InitTyped == Init => Typed /\ Quiet
<1> SUFFICES ASSUME Init PROVE Typed /\ Quiet
  OBVIOUS
<1>1. heap \in Heaps /\ heap \in [Node -> Content]
  BY DEF Init
<1>2. <<>> \in Seq(Frame) /\ <<>> \in Seq([node: {n \in Node : heap[n].kind = "Error"}, blocked: BOOLEAN])
  OBVIOUS
<1>3. Nothing \in Acc
  BY NothingType
<1> QED
  BY <1>1, <1>2, <1>3 DEF Init, Typed, TypeOK, Quiet, Frame, Collectors

\* What a heap has branches for.
LEMMA OneBranch ==
    ASSUME heap \in Heaps, NEW n \in Node, heap[n].kind \in {"Error", "nilError", "wrap"}
    PROVE  /\ Len(heap[n].branches) = 1
           /\ heap[n].branches[1] \in Node \cup {0}
<1>1. heap \in [Node -> Content] /\ Len(heap[n].branches) = 1
  BY WalkAssumption
<1>2. heap[n].branches \in Seq(Node \cup {0})
  BY <1>1, HeapType
<1> QED
  BY <1>1, <1>2

Visits(h) == Seq([node: {n \in Node : h[n].kind = "Error"}, blocked: BOOLEAN])

\* Every step keeps the types.
LEMMA StepTyped == Typed /\ Quiet /\ [Next]_vars => Typed' /\ Quiet'
<1> SUFFICES ASSUME Typed, Quiet, [Next]_vars PROVE Typed' /\ Quiet'
  OBVIOUS
<1> DEFINE T == Typed' /\ Quiet'
<1>0. /\ heap \in Heaps /\ heap \in [Node -> Content] /\ acc \in Acc
      /\ collector \in Collectors /\ root \in Node \cup {0} /\ err \in Node \cup {0}
      /\ pc \in {"idle", "loop", "unwrap", "return", "done"} /\ blocked \in BOOLEAN
      /\ stack \in Seq(Frame) /\ visits \in Visits(heap)
  BY DEF Typed, TypeOK, Frame, Visits
<1>1. ASSUME NEW c \in Collectors, NEW r \in Roots, Call(c, r) PROVE T
  <2>1. Nothing \in Acc
    BY NothingType
  <2>2. <<>> \in Visits(heap)
    BY DEF Visits
  <2> QED
    BY <1>0, <1>1, <2>1, <2>2 DEF Call, Typed, TypeOK, Quiet, Frame, Visits
<1>2. CASE Visit
  <2>1. err \in Node /\ heap[err] \in Content /\ heap[err].barrier \in BOOLEAN
    BY <1>0, <1>2, HeapType DEF Visit, Showable, FlagBelow
  <2>2. acc' \in Acc
    BY <1>0, <1>2, <2>1, GatherType DEF Visit, Showable, FlagBelow, X
  <2>3. [node |-> err, blocked |-> blocked] \in [node: {n \in Node : heap[n].kind = "Error"}, blocked: BOOLEAN]
    BY <1>0, <1>2, <2>1, Zenon DEF Visit, Showable, FlagBelow, X
  <2>4. visits' \in Visits(heap)
    BY <1>0, <1>2, <2>3 DEF Visit, Showable, FlagBelow, Visits
  <2>5. heap' = heap /\ collector' = collector /\ root' = root /\ err' = err
    BY <1>2 DEF Visit
  <2>6. \/ pc' = "done" /\ stack' = <<>> /\ blocked' = blocked
        \/ pc' = "unwrap" /\ blocked' = (blocked \/ heap[err].barrier) /\ stack' = stack
    BY <1>2 DEF Visit, Showable, FlagBelow, X
  <2>7. blocked' \in BOOLEAN
    BY <1>0, <2>1, <2>6
  <2>8. stack' \in Seq(Frame)
    <3>1. <<>> \in Seq(Frame) /\ stack \in Seq(Frame)
      BY <1>0
    <3> QED
      BY <2>6, <3>1, Zenon
  <2>9. Typed'
    BY <1>0, <2>2, <2>4, <2>5, <2>6, <2>7, <2>8 DEF Typed, TypeOK, Frame, Visits
  <2>10. Quiet'
    BY <1>0, <2>1, <2>5, <2>6 DEF Quiet
  <2> QED
    BY <2>9, <2>10
<1>3. CASE PassOver
  BY <1>0, <1>3 DEF PassOver, Showable, Typed, TypeOK, Quiet, Frame, Visits
<1>4. CASE Unwrap
  <2>1. err \in Node
    BY <1>0, <1>4 DEF Unwrap, Quiet
  <2>2. err' \in Node \cup {0}
    BY <1>0, <1>4, <2>1, OneBranch DEF Unwrap, X
  <2> QED
    BY <1>0, <1>4, <2>2 DEF Unwrap, Typed, TypeOK, Quiet, Frame, Visits
<1>5. CASE EnterJoin
  <2>1. err \in Node
    BY <1>0, <1>5 DEF EnterJoin, Quiet
  <2>2. heap[err].branches \in Seq(Node \cup {0})
    BY <1>0, <2>1, HeapType
  <2>3. [left |-> heap[err].branches, blocked |-> blocked] \in Frame
    BY <1>0, <2>2, Zenon DEF Frame
  <2>4. stack' \in Seq(Frame)
    BY <1>0, <1>5, <2>3 DEF EnterJoin, X
  <2> QED
    BY <1>0, <1>5, <2>4 DEF EnterJoin, Typed, TypeOK, Quiet, Frame, Visits
<1>6. CASE EndOfChain
  BY <1>0, <1>6 DEF EndOfChain, Typed, TypeOK, Quiet, Frame, Visits
<1>7. CASE NextBranch
  <2>1. Len(stack) \in 1..Len(stack) /\ Top \in Frame
    BY <1>0, <1>7 DEF NextBranch, Top
  <2>2. Top.left \in Seq(Node \cup {0}) /\ Top.left # <<>> /\ Top.blocked \in BOOLEAN
    BY <1>7, <2>1 DEF NextBranch, Frame
  <2>3. Head(Top.left) \in Node \cup {0} /\ Tail(Top.left) \in Seq(Node \cup {0})
    BY <2>2, HeadTailProperties
  <2>4. stack' \in Seq(Frame)
    <3>1. [left |-> Tail(Top.left), blocked |-> Top.blocked] \in Frame
      BY <2>2, <2>3, Zenon DEF Frame
    <3>2. stack' = [stack EXCEPT ![Len(stack)] = [left |-> Tail(Top.left), blocked |-> Top.blocked]]
      BY <1>7 DEF NextBranch
    <3> QED
      BY <1>0, <2>1, <3>1, <3>2, ExceptSeq
  <2>5. err' \in Node \cup {0} /\ blocked' \in BOOLEAN
    BY <1>7, <2>2, <2>3 DEF NextBranch
  <2> QED
    BY <1>0, <1>7, <2>4, <2>5 DEF NextBranch, Typed, TypeOK, Quiet, Frame, Visits
<1>8. CASE Leave
  <2>1. stack # <<>> => Below \in Seq(Frame)
    BY <1>0 DEF Below
  <2>2. stack' \in Seq(Frame)
    BY <1>0, <1>8, <2>1 DEF Leave
  <2> QED
    BY <1>0, <1>8, <2>2 DEF Leave, Typed, TypeOK, Quiet, Frame, Visits
<1>9. CASE Return
  <2>1. Nothing \in Acc
    BY NothingType
  <2>2. <<>> \in Visits(heap)
    BY DEF Visits
  <2> QED
    BY <1>0, <1>9, <2>1, <2>2 DEF Return, Typed, TypeOK, Quiet, Frame, Visits, Collectors
<1>10. CASE UNCHANGED vars
  BY <1>10 DEF vars, Typed, TypeOK, Quiet
<1> QED
  BY <1>1, <1>2, <1>3, <1>4, <1>5, <1>6, <1>7, <1>8, <1>9, <1>10 DEF Next, Step

\* Every reachable state is well typed, and fn is only given *Errors that are
\* there.
THEOREM TypeCorrect == Spec => []TypeOK
<1>1. Typed /\ Quiet => TypeOK
  BY DEF Typed
<1> QED
  BY <1>1, InitTyped, StepTyped, PTL DEF Spec

----------------------------------------------------------------------------
(* Where the flag is not set, the walk is within s.                        *)

\* A closed set stays closed as long as the same error is walked.
LEMMA SameChain ==
    ASSUME NEW s, heap' = heap, root' = root
    PROVE  OpenClosed(s)' = OpenClosed(s)
BY DEF OpenClosed, Open, OpenBranches, Within

\* What an unblocked node that is no barrier has below it is within s.
LEMMA OpenBelow ==
    ASSUME NEW s \in SUBSET Node, OpenClosed(s), NEW n \in s, ~heap[n].barrier
    PROVE  Within(heap[n].branches, s)
BY DEF OpenClosed, Open, OpenBranches

\* Every step keeps the walk within s.
LEMMA StepPath ==
    ASSUME NEW s \in SUBSET Node, Typed, Quiet, [Next]_vars, OpenClosed(s)',
           OpenClosed(s) => Path(s) /\ VisitsWithin(s)
    PROVE  Path(s)' /\ VisitsWithin(s)'
<1> DEFINE P == Path(s)' /\ VisitsWithin(s)'
<1>0. /\ heap \in Heaps /\ heap \in [Node -> Content]
      /\ root \in Node \cup {0} /\ err \in Node \cup {0} /\ blocked \in BOOLEAN
      /\ stack \in Seq(Frame) /\ visits \in Visits(heap)
  BY DEF Typed, TypeOK, Frame, Visits
<1>a. Step => heap' = heap /\ root' = root
  BY DEF Step, Visit, PassOver, Unwrap, EnterJoin, EndOfChain, NextBranch, Leave
<1>b. Step => OpenClosed(s) /\ Path(s) /\ VisitsWithin(s)
  BY <1>a, SameChain
<1>1. ASSUME NEW c \in Collectors, NEW r \in Roots, Call(c, r) PROVE P
  <2>1. stack' = <<>> /\ visits' = <<>> /\ root' = r /\ err' = r /\ pc' # "unwrap"
    BY <1>1 DEF Call, Quiet
  <2>2. r # 0 => r \in s
    BY <2>1 DEF OpenClosed
  <2> QED
    BY <2>1, <2>2 DEF Path, VisitsWithin
<1>2. CASE Visit
  <2>0. Path(s) /\ VisitsWithin(s) /\ OpenClosed(s)
    BY <1>b, <1>2 DEF Step
  <2>1. /\ pc = "loop" /\ err # 0 /\ err' = err /\ heap' = heap
        /\ visits' = Append(visits, [node |-> err, blocked |-> blocked])
    BY <1>2 DEF Visit
  <2>2. \/ pc' = "done" /\ stack' = <<>>
        \/ pc' = "unwrap" /\ blocked' = (blocked \/ heap[err].barrier) /\ stack' = stack
    BY <1>2 DEF Visit, Showable, FlagBelow, X
  <2>3. ~blocked => err \in s
    BY <2>0, <2>1 DEF Path
  <2>4. VisitsWithin(s)'
    <3>1. ASSUME NEW i \in 1..Len(visits'), ~visits'[i].blocked PROVE visits'[i].node \in s
      <4>1. CASE i \in 1..Len(visits)
        <5>1. visits'[i] = visits[i]
          BY <1>0, <2>1, <4>1 DEF Visits
        <5> QED
          BY <2>0, <3>1, <4>1, <5>1 DEF VisitsWithin
      <4>2. CASE i = Len(visits) + 1
        <5>1. visits'[i] = [node |-> err, blocked |-> blocked]
          BY <1>0, <2>1, <4>2 DEF Visits
        <5> QED
          BY <2>3, <3>1, <5>1
      <4>3. Len(visits') = Len(visits) + 1 /\ Len(visits) \in Nat
        BY <1>0, <2>1 DEF Visits
      <4> QED
        BY <4>1, <4>2, <4>3
    <3> QED
      BY <3>1 DEF VisitsWithin
  <2>5. pc' = "unwrap" /\ ~blocked' => Within(heap'[err'].branches, s)
    BY <1>0, <2>0, <2>1, <2>2, <2>3, OpenBelow
  <2>6. \A f \in 1..Len(stack') : ~stack'[f].blocked => Within(stack'[f].left, s)
    BY <2>0, <2>2 DEF Path
  <2>7. pc' # "loop"
    BY <2>2
  <2> QED
    BY <2>4, <2>5, <2>6, <2>7 DEF Path, Within
<1>3. CASE PassOver
  <2>0. Path(s) /\ VisitsWithin(s) /\ OpenClosed(s)
    BY <1>b, <1>3 DEF Step
  <2>1. /\ pc = "loop" /\ err # 0 /\ heap[err].kind # "Error" /\ pc' = "unwrap"
        /\ err' = err /\ blocked' = blocked /\ heap' = heap /\ stack' = stack /\ visits' = visits
    BY <1>3 DEF PassOver, Showable, X
  <2>2. ~blocked => Within(heap[err].branches, s)
    BY <2>0, <2>1 DEF Path, OpenClosed, Open, OpenBranches
  <2> QED
    BY <2>0, <2>1, <2>2 DEF Path, Within, VisitsWithin
<1>4. CASE Unwrap
  <2>0. Path(s) /\ VisitsWithin(s)
    BY <1>b, <1>4 DEF Step
  <2>1. /\ pc = "unwrap" /\ pc' = "loop" /\ err' = heap[err].branches[1]
        /\ blocked' = blocked /\ heap' = heap /\ stack' = stack /\ visits' = visits
    BY <1>4 DEF Unwrap, X
  <2>2. Len(heap[err].branches) = 1
    BY <1>0, <1>4, OneBranch DEF Unwrap, Quiet, X
  <2>3. ~blocked /\ err' # 0 => err' \in s
    BY <2>0, <2>1, <2>2 DEF Path, Within
  <2> QED
    BY <2>0, <2>1, <2>3 DEF Path, Within, VisitsWithin
<1>5. CASE EnterJoin
  <2>0. Path(s) /\ VisitsWithin(s)
    BY <1>b, <1>5 DEF Step
  <2> DEFINE frame == [left |-> heap[err].branches, blocked |-> blocked]
  <2>1. /\ pc = "unwrap" /\ pc' = "return" /\ visits' = visits
        /\ stack' = stack \/ stack' = Append(stack, frame)
    BY <1>5 DEF EnterJoin, X
  <2>2. ~frame.blocked => Within(frame.left, s)
    BY <2>0, <2>1 DEF Path
  <2>3. ASSUME NEW f \in 1..Len(stack'), ~stack'[f].blocked PROVE Within(stack'[f].left, s)
    <3>1. CASE stack' = stack
      BY <2>0, <2>3, <3>1 DEF Path
    <3>2. CASE stack' = Append(stack, frame)
      <4> HIDE DEF frame
      <4>1. Len(stack') = Len(stack) + 1 /\ Len(stack) \in Nat
        BY <1>0, <3>2
      <4>2. CASE f \in 1..Len(stack)
        <5>1. stack'[f] = stack[f]
          BY <1>0, <3>2, <4>2
        <5> QED
          BY <2>0, <2>3, <4>2, <5>1 DEF Path
      <4>3. CASE f = Len(stack) + 1
        <5>1. stack'[f] = frame
          BY <1>0, <3>2, <4>3
        <5> QED
          BY <2>2, <2>3, <5>1
      <4> QED
        BY <4>1, <4>2, <4>3
    <3> QED
      BY <2>1, <3>1, <3>2
  <2> QED
    BY <2>0, <2>1, <2>3 DEF Path, Within, VisitsWithin
<1>6. CASE EndOfChain
  <2>0. Path(s) /\ VisitsWithin(s)
    BY <1>b, <1>6 DEF Step
  <2> QED
    BY <1>6, <2>0 DEF EndOfChain, Path, Within, VisitsWithin
<1>7. CASE NextBranch
  <2>0. Path(s) /\ VisitsWithin(s)
    BY <1>b, <1>7 DEF Step
  <2> DEFINE n == Len(stack)
             frame == [left |-> Tail(Top.left), blocked |-> Top.blocked]
  <2>1. /\ stack # <<>> /\ Top.left # <<>> /\ err' = Head(Top.left) /\ blocked' = Top.blocked
        /\ stack' = [stack EXCEPT ![n] = frame] /\ pc' = "loop" /\ visits' = visits
    BY <1>7 DEF NextBranch
  <2>2. n \in 1..n /\ Top \in Frame
    BY <1>0, <2>1 DEF Top
  <2>3. Top.left \in Seq(Node \cup {0}) /\ Top.blocked \in BOOLEAN
    BY <2>2 DEF Frame
  <2>4. ~Top.blocked => Within(Top.left, s)
    BY <2>0, <2>2 DEF Path, Top
  <2>5. ~Top.blocked /\ err' # 0 => err' \in s
    BY <2>1, <2>3, <2>4 DEF Within
  <2>6. ~Top.blocked => Within(Tail(Top.left), s)
    BY <2>1, <2>3, <2>4 DEF Within
  <2>7. ASSUME NEW f \in 1..Len(stack'), ~stack'[f].blocked PROVE Within(stack'[f].left, s)
    <3>1. Len(stack') = n /\ (f # n => stack'[f] = stack[f]) /\ (f = n => stack'[f] = frame)
      BY <1>0, <2>1, <2>2
    <3>2. CASE f = n
      <4>1. ~frame.blocked => Within(frame.left, s)
        BY <2>6
      <4>2. stack'[f] = frame
        BY <3>1, <3>2
      <4> HIDE DEF frame
      <4> QED
        BY <2>7, <4>1, <4>2
    <3>3. CASE f # n
      BY <2>0, <2>7, <3>1, <3>3 DEF Path
    <3> QED
      BY <3>2, <3>3
  <2> QED
    BY <2>0, <2>1, <2>5, <2>7 DEF Path, Within, VisitsWithin
<1>8. CASE Leave
  <2>0. Path(s) /\ VisitsWithin(s)
    BY <1>b, <1>8 DEF Step
  <2>1. /\ visits' = visits /\ pc' \in {"return", "done"}
        /\ stack' = stack \/ (stack # <<>> /\ stack' = SubSeq(stack, 1, Len(stack) - 1))
    BY <1>8 DEF Leave, Below
  <2>2. \A f \in 1..Len(stack') : f \in 1..Len(stack) /\ stack'[f] = stack[f]
    BY <1>0, <2>1
  <2> QED
    BY <2>0, <2>1, <2>2 DEF Path, Within, VisitsWithin
<1>9. CASE Return
  <2>1. stack' = <<>> /\ visits' = <<>> /\ pc' = "idle"
    BY <1>9 DEF Return, Quiet
  <2> QED
    BY <2>1 DEF Path, VisitsWithin
<1>10. CASE UNCHANGED vars
  BY <1>10 DEF vars, Path, VisitsWithin, OpenClosed, Open, OpenBranches, Within
<1> QED
  BY <1>1, <1>2, <1>3, <1>4, <1>5, <1>6, <1>7, <1>8, <1>9, <1>10 DEF Next, Step

----------------------------------------------------------------------------
(* No leak.                                                                *)

\* An element of a concatenation is an element of one of its parts.
LEMMA ConcatSource ==
    ASSUME NEW S, NEW a \in Seq(S), NEW b \in Seq(S), NEW i \in 1..Len(a \o b)
    PROVE  \/ i \in 1..Len(a) /\ (a \o b)[i] = a[i]
           \/ \E j \in 1..Len(b) : (a \o b)[i] = b[j]
<1>1. CASE i \in 1..Len(a)
  BY <1>1
<1>2. CASE i \notin 1..Len(a)
  <2>1. i - Len(a) \in 1..Len(b) /\ (a \o b)[i] = b[i - Len(a)]
    BY <1>2
  <2> QED
    BY <2>1
<1> QED
  BY <1>1, <1>2

\* What a visit adds to the accumulator comes from the node at hand, which is
\* within s unless the flag is set.
LEMMA VisitSourced ==
    ASSUME NEW s \in SUBSET Node, Typed, Visit, Sourced(s), ~blocked => err \in s
    PROVE  Sourced(s)'
<1> DEFINE x == heap[err]
           g == Gather(collector, x, blocked, acc)
<1>1. /\ heap' = heap /\ acc' = g /\ err \in Node /\ acc \in Acc /\ blocked \in BOOLEAN
      /\ heap \in [Node -> Content]
  BY DEF Typed, TypeOK, Visit, Showable, FlagBelow, X
<1>2. /\ x.fields \in Seq(Field) /\ x.violations \in Seq(Data)
      /\ acc.fields \in Seq(Field) /\ acc.violations \in Seq(Data)
      /\ acc.map \in [Key -> Data \cup {Unset}]
  BY <1>1 DEF Content, Acc
<1>3. CASE blocked
  <2>1. acc' = Gather(collector, x, blocked, acc)
    BY <1>1
  <2> HIDE DEF g, x
  <2>2. /\ acc'.public = acc.public /\ acc'.delay = acc.delay /\ acc'.fields = acc.fields
        /\ acc'.map = acc.map /\ acc'.violations = acc.violations
    <3>1. LET h == Gather(collector, x, blocked, acc)
          IN  /\ h.public = acc.public /\ h.delay = acc.delay /\ h.fields = acc.fields
              /\ h.map = acc.map /\ h.violations = acc.violations
      BY <1>3, GatherBlocked
    <3> QED
      BY <2>1, <3>1, Zenon
  <2> QED
    BY <1>1, <2>2, SMTT(30) DEF Sourced, HasField, HasViolation
<1>4. CASE ~blocked
  <2>0. err \in s
    BY <1>4
  <2>a. acc' = Gather(collector, x, blocked, acc)
    BY <1>1
  <2> HIDE DEF g, x
  <2>1. /\ acc'.public \in {acc.public, x.public}
        /\ acc'.delay \in {acc.delay, x.delay}
        /\ acc'.fields = acc.fields \/ acc'.fields = acc.fields \o x.fields
        /\ acc'.map = acc.map \/ acc'.map = MergeFields(acc.map, x.fields)
        /\ acc'.violations = acc.violations \/ acc'.violations = acc.violations \o x.violations
    <3>1. LET h == Gather(collector, x, blocked, acc)
          IN  /\ h.public \in {acc.public, x.public}
              /\ h.delay \in {acc.delay, x.delay}
              /\ h.fields = acc.fields \/ h.fields = acc.fields \o x.fields
              /\ h.map = acc.map \/ h.map = MergeFields(acc.map, x.fields)
              /\ h.violations = acc.violations \/ h.violations = acc.violations \o x.violations
      BY GatherOpen
    <3> QED
      BY <2>a, <3>1, Zenon
  <2> USE DEF x
  <2>2. acc'.public # Unset => \E n \in s : acc'.public = heap'[n].public
    BY <1>1, <2>0, <2>1 DEF Sourced
  <2>3. acc'.delay # Unset => \E n \in s : acc'.delay = heap'[n].delay
    BY <1>1, <2>0, <2>1 DEF Sourced
  <2>4. ASSUME NEW i \in 1..Len(acc'.violations)
        PROVE  \E n \in s : HasViolation(n, acc'.violations[i])
    <3>1. CASE i \in 1..Len(acc.violations) /\ acc'.violations[i] = acc.violations[i]
      BY <3>1 DEF Sourced
    <3>2. CASE \E j \in 1..Len(x.violations) : acc'.violations[i] = x.violations[j]
      <4>1. HasViolation(err, acc'.violations[i])
        BY <3>2 DEF HasViolation
      <4> QED
        BY <2>0, <4>1
    <3>3. \/ i \in 1..Len(acc.violations) /\ acc'.violations[i] = acc.violations[i]
          \/ \E j \in 1..Len(x.violations) : acc'.violations[i] = x.violations[j]
      <4> DEFINE u == acc.violations
                 v == x.violations
      <4>1. /\ u \in Seq(Data) /\ v \in Seq(Data)
            /\ acc'.violations = u \/ acc'.violations = u \o v
        BY <1>2, <2>1
      <4>2. \/ i \in 1..Len(u) /\ acc'.violations[i] = u[i]
            \/ \E j \in 1..Len(v) : acc'.violations[i] = v[j]
        <5> HIDE DEF u, v, x
        <5>1. CASE acc'.violations = u
          BY <5>1
        <5>2. CASE acc'.violations = u \o v
          <6>1. i \in 1..Len(u \o v)
            BY <5>2
          <6>2. \/ i \in 1..Len(u) /\ (u \o v)[i] = u[i]
                \/ \E j \in 1..Len(v) : (u \o v)[i] = v[j]
            BY <4>1, <6>1, ConcatSource
          <6> QED
            BY <5>2, <6>2, Zenon
        <5> QED
          BY <4>1, <5>1, <5>2
      <4> QED
        BY <4>2
    <3> QED
      BY <3>1, <3>2, <3>3
  <2>5. ASSUME NEW i \in 1..Len(acc'.fields)
        PROVE  \E n \in s : HasField(n, acc'.fields[i])
    <3>1. CASE i \in 1..Len(acc.fields) /\ acc'.fields[i] = acc.fields[i]
      BY <3>1 DEF Sourced
    <3>2. CASE \E j \in 1..Len(x.fields) : acc'.fields[i] = x.fields[j]
      <4>1. HasField(err, acc'.fields[i])
        BY <3>2 DEF HasField
      <4> QED
        BY <2>0, <4>1
    <3>3. \/ i \in 1..Len(acc.fields) /\ acc'.fields[i] = acc.fields[i]
          \/ \E j \in 1..Len(x.fields) : acc'.fields[i] = x.fields[j]
      <4> DEFINE u == acc.fields
                 v == x.fields
      <4>1. /\ u \in Seq(Field) /\ v \in Seq(Field)
            /\ acc'.fields = u \/ acc'.fields = u \o v
        BY <1>2, <2>1
      <4>2. \/ i \in 1..Len(u) /\ acc'.fields[i] = u[i]
            \/ \E j \in 1..Len(v) : acc'.fields[i] = v[j]
        <5> HIDE DEF u, v, x
        <5>1. CASE acc'.fields = u
          BY <5>1
        <5>2. CASE acc'.fields = u \o v
          <6>1. i \in 1..Len(u \o v)
            BY <5>2
          <6>2. \/ i \in 1..Len(u) /\ (u \o v)[i] = u[i]
                \/ \E j \in 1..Len(v) : (u \o v)[i] = v[j]
            BY <4>1, <6>1, ConcatSource
          <6> QED
            BY <5>2, <6>2, Zenon
        <5> QED
          BY <4>1, <5>1, <5>2
      <4> QED
        BY <4>2
    <3> QED
      BY <3>1, <3>2, <3>3
  <2>6. ASSUME NEW k \in Key, acc'.map[k] # Unset
        PROVE  \E n \in s : HasField(n, [key |-> k, value |-> acc'.map[k]])
    <3>1. CASE acc'.map[k] = acc.map[k]
      BY <2>6, <3>1 DEF Sourced
    <3>2. CASE acc'.map[k] = LastField(x.fields, k)
      <4>0. PICK v : v = acc'.map[k]
        OBVIOUS
      <4>a. v = LastField(x.fields, k) /\ v # Unset
        BY <2>6, <3>2, <4>0
      <4>b. \E j \in 1..Len(x.fields) : x.fields[j] = [key |-> k, value |-> v]
        BY <1>2, <4>a, LastFieldSound
      <4>1. \E j \in 1..Len(x.fields) : x.fields[j] = [key |-> k, value |-> acc'.map[k]]
        BY <4>0, <4>b, Zenon
      <4>2. HasField(err, [key |-> k, value |-> acc'.map[k]])
        BY <4>1 DEF HasField
      <4> QED
        BY <2>0, <4>2
    <3> QED
      BY <2>1, <3>1, <3>2 DEF MergeFields, First
  <2> QED
    BY <1>1, <2>2, <2>3, <2>4, <2>5, <2>6 DEF Sourced, HasField, HasViolation
<1> QED
  BY <1>3, <1>4

\* What is sourced stays sourced while nothing is gathered.
LEMMA SourcedStays ==
    ASSUME NEW s, Sourced(s), heap' = heap, acc' = acc
    PROVE  Sourced(s)'
<1>1. \A n, f : HasField(n, f)' <=> HasField(n, f)
  BY DEF HasField
<1>2. \A n, v : HasViolation(n, v)' <=> HasViolation(n, v)
  BY DEF HasViolation
<1> QED
  BY <1>1, <1>2, Zenon DEF Sourced

\* Nothing gathered is sourced.
LEMMA NothingSourced ==
    ASSUME NEW s, acc' = Nothing
    PROVE  Sourced(s)'
BY DEF Sourced, Nothing

\* Every step keeps what is gathered sourced within s.
LEMMA StepSourced ==
    ASSUME NEW s \in SUBSET Node, Typed, Quiet, [Next]_vars, OpenClosed(s)',
           OpenClosed(s) => Path(s) /\ Sourced(s)
    PROVE  Sourced(s)'
<1>1. ASSUME NEW c \in Collectors, NEW r \in Roots, Call(c, r) PROVE Sourced(s)'
  <2>1. acc' = Nothing
    BY <1>1 DEF Call
  <2> QED
    BY <2>1, NothingSourced
<1>2. CASE Visit
  <2>1. OpenClosed(s)
    BY <1>2, SameChain DEF Visit
  <2>2. ~blocked => err \in s
    BY <1>2, <2>1 DEF Path, Visit
  <2> QED
    BY <1>2, <2>1, <2>2, VisitSourced
<1>3. CASE PassOver \/ Unwrap \/ EnterJoin \/ EndOfChain \/ NextBranch \/ Leave
  <2>1. heap' = heap /\ root' = root /\ acc' = acc
    BY <1>3 DEF PassOver, Unwrap, EnterJoin, EndOfChain, NextBranch, Leave
  <2>2. Sourced(s)
    BY <2>1, SameChain
  <2> QED
    BY <2>1, <2>2, SourcedStays
<1>4. CASE Return
  <2>1. acc' = Nothing
    BY <1>4 DEF Return
  <2> QED
    BY <2>1, NothingSourced
<1>5. CASE UNCHANGED vars
  <2>1. heap' = heap /\ root' = root /\ acc' = acc
    BY <1>5 DEF vars
  <2>2. Sourced(s)
    BY <2>1, SameChain
  <2> QED
    BY <2>1, <2>2, SourcedStays
<1> QED
  BY <1>1, <1>2, <1>3, <1>4, <1>5 DEF Next, Step

----------------------------------------------------------------------------
(* The inductive invariant and what follows from it.                       *)

IInv ==
    /\ Typed
    /\ Quiet
    /\ \A s \in SUBSET Node : OpenClosed(s) => Path(s) /\ VisitsWithin(s) /\ Sourced(s)

\* The invariant holds at the start.
LEMMA InitIInv == Init => IInv
<1> SUFFICES ASSUME Init, NEW s \in SUBSET Node PROVE Path(s) /\ VisitsWithin(s) /\ Sourced(s)
  BY InitTyped DEF IInv
<1>1. stack = <<>> /\ visits = <<>> /\ pc = "idle" /\ acc = Nothing
  BY DEF Init
<1>2. Sourced(s)
  BY <1>1 DEF Sourced, Nothing
<1> QED
  BY <1>1, <1>2 DEF Path, VisitsWithin

\* The invariant is inductive.
LEMMA StepIInv == IInv /\ [Next]_vars => IInv'
<1> SUFFICES ASSUME IInv, [Next]_vars PROVE IInv'
  OBVIOUS
<1>1. Typed' /\ Quiet'
  BY StepTyped DEF IInv
<1>2. ASSUME NEW s \in SUBSET Node, OpenClosed(s)' PROVE Path(s)' /\ VisitsWithin(s)' /\ Sourced(s)'
  BY <1>2, StepPath, StepSourced DEF IInv
<1> QED
  BY <1>1, <1>2 DEF IInv

\* A node that walkFrom shows as unblocked can be reached above every barrier.
THEOREM UnblockedCorrect == Spec => []UnblockedIsOpen
<1>1. IInv => UnblockedIsOpen
  BY DEF IInv, UnblockedIsOpen
<1> QED
  BY <1>1, InitIInv, StepIInv, PTL DEF Spec

\* No collector gives out public data that stands only below a barrier.
THEOREM NoLeakCorrect == Spec => []NoLeak
<1>1. IInv => NoLeak
  BY DEF IInv, NoLeak
<1> QED
  BY <1>1, InitIInv, StepIInv, PTL DEF Spec

----------------------------------------------------------------------------
(* Walk: what is left of the order of the chain.                           *)

HIDE WalkAssumption

\* The branches that a walk follows for all that a chain says, or for its
\* public data.
nextOf(open) == [n \in Node |-> IF open THEN OpenBranches(heap[n]) ELSE heap[n].branches]
InChain == ErrorsOf(heap)
Chain(p, open) == p = [n \in Node \cup {0} |-> Preorder(heap, n, nextOf(open))]

\* Branches are sequences of nodes, and a barrier has none for the public data.
LEMMA NextOfType ==
    ASSUME heap \in [Node -> Content], NEW open \in BOOLEAN, NEW n \in Node
    PROVE  /\ heap[n].branches \in Sq(Node \cup {0})
           /\ nextOf(open)[n] \in Sq(Node \cup {0})
           /\ nextOf(open)[n] = IF open /\ heap[n].kind = "Error" /\ heap[n].barrier THEN <<>>
                                ELSE heap[n].branches
<1>1. heap[n].branches \in Sq(Node \cup {0})
  BY HeapType DEF Sq
<1>2. <<>> \in Sq(Node \cup {0})
  BY SqBasics
<1>3. nextOf(open)[n] = IF open /\ heap[n].kind = "Error" /\ heap[n].barrier THEN <<>>
                        ELSE heap[n].branches
  BY DEF nextOf, OpenBranches
<1> QED
  BY <1>1, <1>2, <1>3

\* p has the order of every node of h; what that means.
Preorders(h, D, next, p) == D = DOMAIN h /\ p = [n \in D \cup {0} |-> Preorder(h, n, next)]
Unfolds(h, D, next, p) ==
    /\ Maps(p, D \cup {0}, Sq(ErrorsOf(h)))
    /\ p[0] = <<>>
    /\ \A n \in D : p[n] = Cat(Own(h, n), Together(next[n], p))

\* The recursion of Preorder, as facts to cite by name.
LEMMA PreordersUnfold ==
    ASSUME NEW h, NEW D, NEW next, NEW rank, NEW K, Ranked(D, next, rank, K), NEW p,
           Preorders(h, D, next, p)
    PROVE  Unfolds(h, D, next, p)
BY PreorderIs DEF Preorders, Unfolds

\* p has the order of every node: it comes before what it wraps.
LEMMA ChainIs ==
    ASSUME Acyclic, Typed, NEW p, NEW open \in BOOLEAN, Chain(p, open)
    PROVE  /\ Maps(p, Node \cup {0}, Sq(InChain))
           /\ p[0] = <<>>
           /\ \A n \in Node : p[n] = Cat(Own(heap, n), Together(nextOf(open)[n], p))
           /\ p[root] = IF open THEN OpenErrors ELSE AllErrors
<1>1. heap \in Heaps /\ heap \in [Node -> Content] /\ DOMAIN heap = Node /\ root \in Node \cup {0}
  BY DEF Typed, TypeOK
<1>2. PICK K \in Nat : \E rank \in [Node -> 0..K] : Ends(heap, rank)
  BY <1>1 DEF Acyclic
<1>3. PICK rank \in [Node -> 0..K] : Ends(heap, rank)
  BY <1>2
<1>4. Ranked(Node, nextOf(open), rank, K)
  <2>1. \A n \in Node : \A m \in ToSet(nextOf(open)[n]) : m # 0 => rank[m] < rank[n]
    BY <1>1, <1>3, NextOfType, InEmpty DEF Ends
  <2>2. 0 \notin Node
    BY WalkAssumption
  <2>3. \A n \in Node : nextOf(open)[n] \in Sq(Node \cup {0})
    BY <1>1, NextOfType
  <2>4. rank \in [Node -> 0..K]
    OBVIOUS
  <2> QED
    BY <2>1, <2>2, <2>3, <2>4, Zenon DEF Ranked
<1>5. p = [n \in Node \cup {0} |-> Preorder(heap, n, nextOf(open))]
  BY Zenon DEF Chain
<1>6. /\ Maps(p, Node \cup {0}, Sq(InChain))
      /\ p[0] = <<>>
      /\ \A n \in Node : p[n] = Cat(Own(heap, n), Together(nextOf(open)[n], p))
  <2>1. Preorders(heap, Node, nextOf(open), p)
    BY <1>1, <1>5 DEF Preorders
  <2>2. Unfolds(heap, Node, nextOf(open), p)
    BY <1>4, <2>1, PreordersUnfold
  <2> QED
    BY <2>2 DEF Unfolds, InChain
<1>7. p[root] = Preorder(heap, root, nextOf(open))
  BY <1>1, <1>5
<1>8. nextOf(open) = IF open THEN [n \in Node |-> Open(n)] ELSE [n \in Node |-> heap[n].branches]
  BY DEF nextOf, Open
<1> QED
  BY <1>6, <1>7, <1>8 DEF OpenErrors, AllErrors

\* The errors are immutable, and so is their order.
LEMMA ChainStays ==
    ASSUME NEW p, NEW open, heap' = heap
    PROVE  Chain(p, open)' = Chain(p, open)
BY DEF Chain, nextOf

\* What the walk has still to do for the chain: at the error at hand, and in
\* the loops that are suspended, rest[k] being what is left of the k-th loop and
\* of those outside it.  For the public data, what the flag is set for is left
\* out.
Blank(b, s) == IF b THEN <<>> ELSE s
Now(p, open) == Blank(open /\ blocked, IF pc = "loop" THEN p[err]
                                       ELSE IF pc = "unwrap" THEN Together(heap[err].branches, p)
                                       ELSE <<>>)
Part(p, open, f) == Blank(open /\ f.blocked, Together(f.left, p))
Remains(p, open, seen, rest) ==
    /\ seen \in Sq(InChain)
    /\ Maps(rest, 0..Len(stack), Sq(InChain))
    /\ rest[0] = <<>>
    /\ \A k \in 1..Len(stack) : rest[k] = Cat(Part(p, open, stack[k]), rest[k - 1])
    /\ Cat(seen, Cat(Now(p, open), rest[Len(stack)])) = p[root]

\* The first of several comes first.
LEMMA TogetherHead ==
    ASSUME NEW N, NEW S, NEW f, Maps(f, N, Sq(S)), NEW ns \in Sq(N), ns # <<>>
    PROVE  /\ Head(ns) \in N /\ Tail(ns) \in Sq(N)
           /\ Together(ns, f) = Cat(f[Head(ns)], Together(Tail(ns), f))
<1>1. Head(ns) \in N /\ Tail(ns) \in Sq(N)
  BY HeadTailProperties DEF Sq
<1>2. ns = Cat(<<Head(ns)>>, Tail(ns))
  <2>1. ns \in Seq(N)
    BY DEF Sq
  <2> QED
    BY <2>1 DEF Cat
<1>3. <<Head(ns)>> \in Sq(N)
  BY <1>1, SqBasics
<1>4. Together(ns, f) = Cat(Together(<<Head(ns)>>, f), Together(Tail(ns), f))
  <2>1. PICK h : h = <<Head(ns)>>
    OBVIOUS
  <2>2. PICK t : t = Tail(ns)
    OBVIOUS
  <2>3. h \in Sq(N) /\ t \in Sq(N) /\ ns = Cat(h, t)
    BY <1>1, <1>2, <1>3, <2>1, <2>2
  <2>4. Together(Cat(h, t), f) = Cat(Together(h, f), Together(t, f))
    BY <2>3, TogetherCat
  <2> QED
    BY <2>1, <2>2, <2>3, <2>4
<1> QED
  BY <1>1, <1>4, TogetherOne

\* The types of a walk, as facts to cite by name.
LEMMA WalkTypes ==
    ASSUME Typed
    PROVE  /\ heap \in Heaps /\ heap \in [Node -> Content]
           /\ root \in Node \cup {0} /\ err \in Node \cup {0} /\ blocked \in BOOLEAN
           /\ stack \in Seq(Frame) /\ Len(stack) \in Nat /\ DOMAIN stack = 1..Len(stack)
           /\ \A k \in 1..Len(stack) : stack[k].left \in Sq(Node \cup {0}) /\ stack[k].blocked \in BOOLEAN
<1>1. stack \in Seq(Frame)
  BY DEF Typed, TypeOK, Frame
<1>2. Len(stack) \in Nat /\ DOMAIN stack = 1..Len(stack) /\ \A k \in 1..Len(stack) : stack[k] \in Frame
  BY <1>1
<1>3. \A k \in 1..Len(stack) : stack[k].left \in Sq(Node \cup {0}) /\ stack[k].blocked \in BOOLEAN
  BY <1>2 DEF Frame, Sq
<1>4. /\ heap \in Heaps /\ heap \in [Node -> Content]
      /\ root \in Node \cup {0} /\ err \in Node \cup {0} /\ blocked \in BOOLEAN
  BY DEF Typed, TypeOK
<1> QED
  BY <1>1, <1>2, <1>3, <1>4

\* What is left stays left when neither the stack nor what is at hand changes.
LEMMA RemainsSame ==
    ASSUME NEW p, NEW open, NEW seen, NEW rest, Remains(p, open, seen, rest),
           heap' = heap, root' = root, stack' = stack, Now(p, open)' = Now(p, open)
    PROVE  Remains(p, open, seen, rest)'
BY DEF Remains, InChain, Part

\* What is at hand is a sequence of *Errors.
LEMMA NowType ==
    ASSUME Acyclic, Typed, Quiet, NEW p, NEW open \in BOOLEAN, Chain(p, open)
    PROVE  Now(p, open) \in Sq(InChain)
<1>1. Maps(p, Node \cup {0}, Sq(InChain))
  BY ChainIs
<1>2. p[err] \in Sq(InChain) /\ <<>> \in Sq(InChain)
  BY <1>1, WalkTypes, SqBasics DEF Maps
<1>3. CASE pc = "unwrap"
  <2>1. heap[err].branches \in Sq(Node \cup {0})
    BY <1>3, WalkTypes, NextOfType DEF Quiet
  <2>2. Together(heap[err].branches, p) \in Sq(InChain)
    BY <1>1, <2>1, TogetherType
  <2> QED
    BY <1>2, <2>2 DEF Now, Blank
<1> QED
  BY <1>2, <1>3 DEF Now, Blank

\* What is not shown to fn adds nothing of its own.
LEMMA PassOverRemains ==
    ASSUME Acyclic, Typed, Quiet, NEW p, NEW open \in BOOLEAN, Chain(p, open), NEW seen, NEW rest,
           Remains(p, open, seen, rest), PassOver
    PROVE  Remains(p, open, seen, rest)'
<1>1. /\ pc = "loop" /\ pc' = "unwrap" /\ err \in Node /\ heap[err].kind # "Error"
      /\ heap' = heap /\ root' = root /\ err' = err /\ blocked' = blocked /\ stack' = stack
  BY WalkTypes DEF PassOver, Showable, X
<1>2. p[err] = Cat(Own(heap, err), Together(nextOf(open)[err], p)) /\ p[err] \in Sq(InChain)
  BY <1>1, ChainIs DEF Maps
<1>3. nextOf(open)[err] = heap[err].branches /\ Own(heap, err) = <<>>
  BY <1>1, WalkTypes, NextOfType DEF Own
<1>4. Together(heap[err].branches, p) \in Sq(InChain)
  BY <1>1, WalkTypes, NextOfType, ChainIs, TogetherType
<1>5. p[err] = Together(heap[err].branches, p)
  BY <1>2, <1>3, <1>4, CatEmpty
<1>6. Now(p, open)' = Now(p, open)
  BY <1>1, <1>5 DEF Now
<1> QED
  BY <1>1, <1>6, RemainsSame

\* A node with one cause is followed by what the cause has.
LEMMA UnwrapRemains ==
    ASSUME Acyclic, Typed, Quiet, NEW p, NEW open \in BOOLEAN, Chain(p, open), NEW seen, NEW rest,
           Remains(p, open, seen, rest), Unwrap
    PROVE  Remains(p, open, seen, rest)'
<1>1. /\ pc = "unwrap" /\ pc' = "loop" /\ err \in Node /\ err' = heap[err].branches[1]
      /\ heap[err].kind \in {"Error", "nilError", "wrap"}
      /\ heap' = heap /\ root' = root /\ blocked' = blocked /\ stack' = stack
  BY WalkTypes DEF Unwrap, Quiet, X
<1>2. heap[err].branches \in Seq(Node \cup {0}) /\ Len(heap[err].branches) = 1 /\ err' \in Node \cup {0}
  BY <1>1, WalkTypes, OneBranch, NextOfType DEF Sq
<1>3. heap[err].branches = <<err'>>
  <2>1. PICK bs : bs = heap[err].branches
    OBVIOUS
  <2>2. bs \in Seq(Node \cup {0}) /\ Len(bs) = 1 /\ err' = bs[1]
    BY <1>1, <1>2, <2>1
  <2>3. bs = <<bs[1]>>
    BY <2>2
  <2> QED
    BY <2>1, <2>2, <2>3
<1>4. Together(<<err'>>, p) = p[err']
  <2>1. PICK e \in Node \cup {0} : e = err'
    BY <1>2
  <2>2. Together(<<e>>, p) = p[e]
    BY ChainIs, TogetherOne
  <2> QED
    BY <2>1, <2>2
<1>5. Now(p, open)' = Now(p, open)
  BY <1>1, <1>3, <1>4 DEF Now
<1> QED
  BY <1>1, <1>5, RemainsSame

\* The nil error has nothing.
LEMMA EndOfChainRemains ==
    ASSUME Acyclic, Typed, Quiet, NEW p, NEW open \in BOOLEAN, Chain(p, open), NEW seen, NEW rest,
           Remains(p, open, seen, rest), EndOfChain
    PROVE  Remains(p, open, seen, rest)'
<1>1. p[0] = <<>>
  BY ChainIs
<1>2. Now(p, open)' = Now(p, open)
  BY <1>1 DEF Now, EndOfChain
<1> QED
  BY <1>2, RemainsSame DEF EndOfChain

\* The first of what is left moves to the end of what is done.
LEMMA CatShift ==
    ASSUME NEW S, NEW s \in Sq(S), NEW e \in S, NEW t \in Sq(S), NEW u \in Sq(S)
    PROVE  Cat(s, Cat(Cat(<<e>>, t), u)) = Cat(Add(s, e), Cat(t, u))
<1>1. PICK o \in Sq(S) : o = <<e>>
  BY SqBasics
<1>2. Cat(t, u) \in Sq(S) /\ Cat(o, t) \in Sq(S)
  BY CatType
<1>3. Cat(Cat(o, t), u) = Cat(o, Cat(t, u))
  BY CatAssoc
<1>4. Cat(s, Cat(o, Cat(t, u))) = Cat(Cat(s, o), Cat(t, u))
  BY <1>2, CatAssoc
<1>5. Add(s, e) = Cat(s, o)
  BY <1>1, CatAppend
<1> QED
  BY <1>1, <1>3, <1>4, <1>5

\* An *Error at hand is next in the order, and what it wraps comes after it.
LEMMA VisitSplit ==
    ASSUME Acyclic, Typed, NEW p, NEW open \in BOOLEAN, Chain(p, open), NEW seen, NEW rest,
           Remains(p, open, seen, rest), pc = "loop", err # 0, heap[err].kind = "Error",
           ~(open /\ blocked), NEW below, below = Together(nextOf(open)[err], p)
    PROVE  /\ err \in InChain /\ Add(seen, err) \in Sq(InChain) /\ below \in Sq(InChain)
           /\ Cat(Add(seen, err), Cat(below, rest[Len(stack)])) = p[root]
<1>1. err \in Node /\ DOMAIN heap = Node /\ Len(stack) \in Nat /\ heap \in [Node -> Content]
  BY WalkTypes
<1>2. err \in InChain
  BY <1>1 DEF InChain, ErrorsOf
<1>3. /\ seen \in Sq(InChain)
      /\ Cat(seen, Cat(p[err], rest[Len(stack)])) = p[root]
  BY DEF Remains, Now, Blank
<1>4. rest[Len(stack)] \in Sq(InChain)
  <2>1. Len(stack) \in 0..Len(stack)
    BY <1>1
  <2> QED
    BY <2>1 DEF Remains, Maps
<1>5. below \in Sq(InChain)
  BY <1>1, NextOfType, ChainIs, TogetherType
<1>6. p[err] = Cat(<<err>>, below)
  BY <1>1, ChainIs DEF Own
<1>7. Cat(seen, Cat(Cat(<<err>>, below), rest[Len(stack)])) = Cat(Add(seen, err), Cat(below, rest[Len(stack)]))
  BY <1>2, <1>3, <1>4, <1>5, CatShift
<1> QED
  BY <1>2, <1>3, <1>5, <1>6, <1>7, AddProperties

\* A visit that does not stop the walk moves the node from what is left to what
\* is seen; below a barrier the public data loses nothing by it.
LEMMA VisitRemains ==
    ASSUME Acyclic, Typed, NEW p, NEW open \in BOOLEAN, Chain(p, open), NEW seen, NEW rest,
           Remains(p, open, seen, rest), Visit, pc' = "unwrap",
           NEW more, more = IF open /\ blocked THEN seen ELSE Add(seen, err)
    PROVE  Remains(p, open, more, rest)'
<1>1. /\ pc = "loop" /\ err \in Node /\ heap[err].kind = "Error"
      /\ heap' = heap /\ root' = root /\ err' = err /\ stack' = stack
      /\ blocked' = (blocked \/ heap[err].barrier)
  BY WalkTypes DEF Visit, Showable, FlagBelow, X
<1>2. CASE open /\ blocked
  <2>1. Now(p, open)' = Now(p, open)
    BY <1>1, <1>2 DEF Now, Blank
  <2> QED
    BY <1>1, <1>2, <2>1, RemainsSame
<1>3. CASE ~(open /\ blocked)
  <2>1. PICK below : below = Together(nextOf(open)[err], p)
    OBVIOUS
  <2>2. Now(p, open)' = below
    <3>1. CASE open /\ heap[err].barrier
      BY <1>1, <2>1, <3>1, WalkTypes, NextOfType, TogetherEmpty DEF Now, Blank
    <3>2. CASE ~(open /\ heap[err].barrier)
      <4>1. nextOf(open)[err] = heap[err].branches
        BY <1>1, <3>2, WalkTypes, NextOfType
      <4> QED
        BY <1>1, <1>3, <2>1, <3>2, <4>1 DEF Now, Blank
    <3> QED
      BY <3>1, <3>2
  <2>3. err # 0
    BY <1>1, WalkAssumption
  <2>4. /\ more \in Sq(InChain)
        /\ Cat(more, Cat(below, rest[Len(stack)])) = p[root]
    BY <1>1, <1>3, <2>1, <2>3, VisitSplit
  <2>5. Remains(p, open, more, rest)'
    BY <1>1, <2>2, <2>4 DEF Remains, InChain, Part
  <2> QED
    BY <1>1, <1>3, <2>5
<1> QED
  BY <1>2, <1>3

\* What Remains says of the loops, and that a loop's part is a sequence.
LEMMA RestTypes ==
    ASSUME Acyclic, Typed, NEW p, NEW open \in BOOLEAN, Chain(p, open), NEW seen, NEW rest,
           Remains(p, open, seen, rest)
    PROVE  /\ seen \in Sq(InChain) /\ p[root] = Cat(seen, Cat(Now(p, open), rest[Len(stack)]))
           /\ \A k \in 0..Len(stack) : rest[k] \in Sq(InChain)
           /\ \A k \in 1..Len(stack) : /\ Part(p, open, stack[k]) \in Sq(InChain)
                                       /\ rest[k] = Cat(Part(p, open, stack[k]), rest[k - 1])
<1>1. ASSUME NEW k \in 1..Len(stack) PROVE Part(p, open, stack[k]) \in Sq(InChain)
  <2>1. stack[k].left \in Sq(Node \cup {0})
    BY WalkTypes
  <2>2. Together(stack[k].left, p) \in Sq(InChain)
    BY <2>1, ChainIs, TogetherType
  <2> QED
    BY <2>2, SqBasics DEF Part, Blank
<1>2. \A k \in 0..Len(stack) : rest[k] \in Sq(InChain)
  BY DEF Remains, Maps
<1> QED
  BY <1>1, <1>2 DEF Remains

\* The branches of a Join become the innermost loop.
LEMMA EnterJoinRemains ==
    ASSUME Acyclic, Typed, Quiet, NEW p, NEW open \in BOOLEAN, Chain(p, open), NEW seen, NEW rest,
           Remains(p, open, seen, rest), EnterJoin
    PROVE  \E more : Remains(p, open, seen, more)'
<1>1. /\ pc = "unwrap" /\ pc' = "return" /\ err \in Node /\ heap[err].kind \in {"join", "plain"}
      /\ heap' = heap /\ root' = root
      /\ heap \in Heaps /\ stack \in Seq(Frame) /\ Len(stack) \in Nat
  BY WalkTypes DEF EnterJoin, Quiet, X
<1>2. Now(p, open)' = <<>> /\ Now(p, open) = Blank(open /\ blocked, Together(heap[err].branches, p))
  BY <1>1 DEF Now, Blank
<1>3. CASE heap[err].kind = "plain"
  <2>1. heap[err].branches = <<>> /\ stack' = stack
    BY <1>1, <1>3, WalkAssumption DEF EnterJoin, X
  <2>2. Now(p, open) = <<>>
    BY <1>2, <2>1, TogetherEmpty DEF Blank
  <2> QED
    BY <1>1, <1>2, <2>1, <2>2, RemainsSame
<1>4. CASE heap[err].kind = "join"
  <2>1. PICK frame : frame = [left |-> heap[err].branches, blocked |-> blocked]
    OBVIOUS
  <2>2. PICK n \in Nat : n = Len(stack)
    BY <1>1
  <2>3. stack' = Append(stack, frame)
    BY <1>4, <2>1 DEF EnterJoin, X
  <2>4. Len(stack') = n + 1 /\ stack'[n + 1] = frame /\ \A k \in 1..n : stack'[k] = stack[k]
    BY <1>1, <2>2, <2>3
  <2>5. Part(p, open, frame) = Now(p, open)
    BY <1>2, <2>1 DEF Part
  <2>6. Now(p, open) \in Sq(InChain)
    BY NowType
  <2>0. PICK top : top = Cat(Now(p, open), rest[n])
    OBVIOUS
  <2> DEFINE more == [k \in 0..n + 1 |-> IF k = n + 1 THEN top ELSE rest[k]]
  <2>7. n \in 0..n /\ rest[n] \in Sq(InChain) /\ rest[0] = <<>>
    BY <2>2, RestTypes DEF Remains
  <2>8. top \in Sq(InChain)
    BY <2>0, <2>6, <2>7, CatType
  <2>9. more[0] = <<>> /\ more[n + 1] = top /\ \A k \in 0..n : more[k] = rest[k]
    BY <2>7
  <2>10. Maps(more, 0..n + 1, Sq(InChain))
    BY <2>2, <2>8, RestTypes DEF Maps
  <2> HIDE DEF more
  <2>11. ASSUME NEW k \in 1..n + 1 PROVE more[k] = Cat(Part(p, open, stack'[k]), more[k - 1])
    <3>1. CASE k = n + 1
      <4>1. more[k] = top /\ more[k - 1] = rest[n] /\ stack'[k] = frame
        BY <2>4, <2>9, <3>1
      <4> QED
        BY <2>0, <2>5, <4>1
    <3>2. CASE k # n + 1
      <4>1. k \in 1..n /\ more[k] = rest[k] /\ more[k - 1] = rest[k - 1] /\ stack'[k] = stack[k]
        BY <2>4, <2>9, <3>2
      <4> QED
        BY <2>2, <4>1, RestTypes
    <3> QED
      BY <3>1, <3>2
  <2>12. Cat(seen, Cat(<<>>, more[n + 1])) = p[root] /\ seen \in Sq(InChain)
    BY <2>0, <2>2, <2>8, <2>9, RestTypes, CatEmpty
  <2>13. InChain' = InChain /\ root' = root
    BY <1>1 DEF InChain
  <2>14. PICK m : m = n + 1
    OBVIOUS
  <2>15. /\ Len(stack') = m /\ Maps(more, 0..m, Sq(InChain)) /\ Cat(seen, Cat(<<>>, more[m])) = p[root]
         /\ \A k \in 1..m : more[k] = Cat(Part(p, open, stack'[k]), more[k - 1])
    BY <2>4, <2>10, <2>11, <2>12, <2>14
  <2>16. Remains(p, open, seen, more)'
    <3>1. seen \in Sq(InChain) /\ more[0] = <<>> /\ Now(p, open)' = <<>>
      BY <1>2, <2>9, <2>12
    <3> QED
      BY <2>13, <2>15, <3>1 DEF Remains
  <2> QED
    BY <2>16
<1> QED
  BY <1>1, <1>3, <1>4

\* The next branch is taken off the innermost loop, with the loop's own flag.
LEMMA NextBranchRemains ==
    ASSUME Acyclic, Typed, Quiet, NEW p, NEW open \in BOOLEAN, Chain(p, open), NEW seen, NEW rest,
           Remains(p, open, seen, rest), NextBranch
    PROVE  \E more : Remains(p, open, seen, more)'
<1>1. PICK n \in Nat : n = Len(stack)
  BY WalkTypes
<1>2. n \in 1..n /\ n - 1 \in 0..n /\ stack[n].left \in Sq(Node \cup {0}) /\ stack[n].blocked \in BOOLEAN
      /\ stack \in Seq(Frame) /\ stack[n].left # <<>>
  <2>1. stack # <<>> /\ stack[n].left # <<>> /\ stack \in Seq(Frame)
    BY <1>1, WalkTypes DEF NextBranch, Top
  <2>2. n # 0
    BY <1>1, <2>1
  <2>3. n \in 1..n /\ n - 1 \in 0..n
    BY <2>2
  <2> QED
    BY <1>1, <2>1, <2>3, WalkTypes
<1>3. PICK top \in [left: Sq(Node \cup {0}), blocked: BOOLEAN] :
          top.left = stack[n].left /\ top.blocked = stack[n].blocked
  <2>1. [left |-> stack[n].left, blocked |-> stack[n].blocked] \in [left: Sq(Node \cup {0}), blocked: BOOLEAN]
    BY <1>2
  <2> QED
    BY <2>1
<1>4. PICK head : head = Head(top.left)
  OBVIOUS
<1>5. PICK frame : frame = [left |-> Tail(top.left), blocked |-> top.blocked]
  OBVIOUS
<1>6. /\ pc = "return" /\ pc' = "loop" /\ err' = head /\ blocked' = top.blocked
      /\ heap' = heap /\ root' = root /\ stack' = [stack EXCEPT ![n] = frame]
  BY <1>1, <1>3, <1>4, <1>5 DEF NextBranch, Top
<1>7. Len(stack') = n /\ stack'[n] = frame /\ \A k \in 1..n : k # n => stack'[k] = stack[k]
  BY <1>1, <1>2, <1>6
<1>8. /\ head \in Node \cup {0} /\ frame.left \in Sq(Node \cup {0})
      /\ Together(top.left, p) = Cat(p[head], Together(frame.left, p))
  <2>1. Maps(p, Node \cup {0}, Sq(InChain)) /\ top.left \in Sq(Node \cup {0}) /\ top.left # <<>>
    BY <1>2, <1>3, ChainIs
  <2>2. /\ Head(top.left) \in Node \cup {0} /\ Tail(top.left) \in Sq(Node \cup {0})
        /\ Together(top.left, p) = Cat(p[Head(top.left)], Together(Tail(top.left), p))
    BY <2>1, TogetherHead
  <2> QED
    BY <1>4, <1>5, <2>2
<1>9. p[head] \in Sq(InChain) /\ Together(frame.left, p) \in Sq(InChain)
  BY <1>8, ChainIs, TogetherType DEF Maps
<1> DEFINE now == Blank(open /\ top.blocked, p[head])
           part == Blank(open /\ top.blocked, Together(frame.left, p))
<1>10. Now(p, open)' = now /\ Now(p, open) = <<>> /\ Part(p, open, frame) = part
  BY <1>5, <1>6 DEF Now, Part, Blank
<1>11. now \in Sq(InChain) /\ part \in Sq(InChain)
  BY <1>9, SqBasics DEF Blank
<1>12. Part(p, open, stack[n]) = Cat(now, part)
  <2>1. Part(p, open, stack[n]) = Blank(open /\ top.blocked, Cat(p[head], Together(frame.left, p)))
    BY <1>3, <1>8 DEF Part
  <2>2. Cat(<<>>, <<>>) = <<>>
    BY SqBasics, CatEmpty
  <2> QED
    BY <2>1, <2>2 DEF Blank
<1> HIDE DEF now, part
<1>13. PICK under : under = rest[n - 1]
  OBVIOUS
<1>14. under \in Sq(InChain) /\ rest[n] = Cat(Cat(now, part), under) /\ rest[n] \in Sq(InChain)
  BY <1>1, <1>2, <1>12, <1>13, RestTypes
<1> DEFINE new == Cat(part, under)
           more == [k \in 0..n |-> IF k = n THEN new ELSE rest[k]]
<1>15. new \in Sq(InChain) /\ Cat(now, new) = rest[n]
  BY <1>11, <1>14, CatType, CatAssoc
<1>16. rest[0] = <<>>
  BY DEF Remains
<1>17. more[0] = <<>> /\ more[n] = new /\ \A k \in 0..n : k # n => more[k] = rest[k]
  BY <1>2, <1>16
<1> HIDE DEF new
<1>18. Maps(more, 0..n, Sq(InChain))
  BY <1>1, <1>15, RestTypes DEF Maps
<1> HIDE DEF more
<1>19. ASSUME NEW k \in 1..n PROVE more[k] = Cat(Part(p, open, stack'[k]), more[k - 1])
  <2>1. k - 1 \in 0..n /\ k - 1 # n /\ more[k - 1] = rest[k - 1]
    BY <1>17
  <2>2. CASE k = n
    <3>1. more[k] = new /\ stack'[k] = frame /\ rest[k - 1] = under
      BY <1>7, <1>13, <1>17, <2>2
    <3> QED
      BY <1>10, <2>1, <3>1 DEF new
  <2>3. CASE k # n
    <3>1. more[k] = rest[k] /\ stack'[k] = stack[k]
      BY <1>7, <1>17, <2>3
    <3>2. rest[k] = Cat(Part(p, open, stack[k]), rest[k - 1])
      BY <1>1, RestTypes
    <3> QED
      BY <2>1, <3>1, <3>2
  <2> QED
    BY <2>2, <2>3
<1>20. Cat(seen, Cat(now, more[n])) = p[root] /\ seen \in Sq(InChain)
  <2>1. p[root] = Cat(seen, Cat(<<>>, rest[n])) /\ seen \in Sq(InChain)
    BY <1>1, <1>10, RestTypes
  <2>2. Cat(<<>>, rest[n]) = rest[n]
    BY <1>14, CatEmpty
  <2> QED
    BY <1>15, <1>17, <2>1, <2>2
<1>21. InChain' = InChain
  BY <1>6 DEF InChain
<1>22. Remains(p, open, seen, more)'
  BY <1>6, <1>7, <1>10, <1>17, <1>18, <1>19, <1>20, <1>21 DEF Remains
<1> QED
  BY <1>22

\* A loop that is left had nothing left; when none is left, all has been seen.
LEMMA LeaveRemains ==
    ASSUME Acyclic, Typed, Quiet, NEW p, NEW open \in BOOLEAN, Chain(p, open), NEW seen, NEW rest,
           Remains(p, open, seen, rest), Leave
    PROVE  IF stack = <<>> THEN seen = p[root] ELSE Remains(p, open, seen, rest)'
<1>1. PICK n \in Nat : n = Len(stack)
  BY WalkTypes
<1>2. pc = "return" /\ Now(p, open) = <<>> /\ heap' = heap /\ root' = root /\ stack \in Seq(Frame)
  BY WalkTypes DEF Leave, Now, Blank
<1>3. p[root] = Cat(seen, Cat(<<>>, rest[n])) /\ seen \in Sq(InChain) /\ rest[n] \in Sq(InChain) /\ rest[0] = <<>>
  <2>1. n \in 0..n
    OBVIOUS
  <2> QED
    BY <1>1, <1>2, <2>1, RestTypes DEF Remains
<1>4. p[root] = Cat(seen, rest[n])
  BY <1>3, CatEmpty
<1>5. CASE stack = <<>>
  <2>1. n = 0
    BY <1>1, <1>5
  <2> QED
    BY <1>3, <1>4, <1>5, <2>1, CatEmpty
<1>6. CASE stack # <<>>
  <2>1. n \in 1..n /\ n - 1 \in 0..n /\ stack[n].left = <<>> /\ stack' = SubSeq(stack, 1, n - 1) /\ pc' = "return"
    BY <1>1, <1>2, <1>6 DEF Leave, Top, Below
  <2>2. Len(stack') = n - 1 /\ \A k \in 1..n - 1 : k \in 1..n /\ stack'[k] = stack[k]
    BY <1>1, <1>2, <2>1
  <2>3. rest[n] = rest[n - 1]
    <3>1. Part(p, open, stack[n]) = <<>>
      BY <2>1, TogetherEmpty DEF Part, Blank
    <3>2. rest[n] = Cat(<<>>, rest[n - 1]) /\ rest[n - 1] \in Sq(InChain)
      BY <1>1, <2>1, <3>1, RestTypes
    <3> QED
      BY <3>2, CatEmpty
  <2>4. Now(p, open)' = <<>>
    BY <2>1 DEF Now, Blank
  <2>5. InChain' = InChain
    BY <1>2 DEF InChain
  <2>6. Maps(rest, 0..n - 1, Sq(InChain))
    BY <1>1, RestTypes DEF Maps
  <2>7. \A k \in 1..n - 1 : rest[k] = Cat(Part(p, open, stack'[k]), rest[k - 1])
    BY <1>1, <2>2, RestTypes
  <2>8. Cat(seen, Cat(<<>>, rest[n - 1])) = p[root]
    BY <1>3, <2>3
  <2>9. Remains(p, open, seen, rest)'
    BY <1>2, <1>3, <2>2, <2>4, <2>5, <2>6, <2>7, <2>8 DEF Remains
  <2> QED
    BY <1>6, <2>9
<1> QED
  BY <1>5, <1>6

----------------------------------------------------------------------------
(* What the walk has gathered.                                             *)

codeSaid == [n \in Node |-> heap[n].code]
publicSaid == [n \in Node |-> heap[n].public]
delaySaid == [n \in Node |-> heap[n].delay]
violationsSaid == [n \in Node |-> heap[n].violations]
fieldsSaid == [n \in Node |-> heap[n].fields]
fieldSaid(k) == [n \in Node |-> LastField(heap[n].fields, k)]

\* The accumulator has what the *Errors seen have said, and its public parts
\* what those seen above every barrier have.
Has(cs) == collector \in cs
Gathered(seen, seenOpen) ==
    /\ Has({"CodeOf", "collect", "collectInternal"}) => acc.code = FirstSet(seen, codeSaid)
    /\ Has({"LookupPublicMessage", "collect"}) => acc.public = FirstSet(seenOpen, publicSaid)
    /\ Has({"LookupRetryDelay", "collect"}) => acc.delay = FirstSet(seenOpen, delaySaid)
    /\ Has({"FieldViolations", "collect"}) => acc.violations = Together(seenOpen, violationsSaid)
    /\ Has({"collect"}) => acc.fields = Together(seenOpen, fieldsSaid)
    /\ Has({"PublicFields"}) => \A k \in Key : acc.map[k] = FirstSet(seenOpen, fieldSaid(k))
    /\ Has({"Trace", "Attrs", "collect", "collectInternal"}) => acc.trace = seen

\* What would have stopped the walk has not been found.
Unstopped ==
    /\ collector = "CodeOf" => acc.code = Unset
    /\ collector = "LookupPublicMessage" => acc.public = Unset
    /\ collector = "LookupRetryDelay" => acc.delay = Unset

\* What the nodes say is of the types that Together needs.
LEMMA Said ==
    ASSUME Typed
    PROVE  /\ Maps(violationsSaid, InChain, Sq(Data)) /\ Maps(fieldsSaid, InChain, Sq(Field))
           /\ InChain \subseteq Node
<1>1. InChain \subseteq Node
  BY WalkTypes DEF InChain, ErrorsOf
<1>2. \A n \in Node : heap[n].violations \in Sq(Data) /\ heap[n].fields \in Sq(Field)
  <2>1. \A n \in Node : heap[n] \in Content
    BY WalkTypes
  <2> QED
    BY <2>1 DEF Content, Sq
<1> QED
  BY <1>1, <1>2 DEF Maps, violationsSaid, fieldsSaid

\* fn at the node at hand.
LEMMA GatherIs ==
    ASSUME Typed, Visit, Unstopped
    PROVE  LET x == heap[err]
           IN  /\ Has({"CodeOf", "collect", "collectInternal"}) => acc'.code = First(acc.code, x.code)
               /\ Has({"LookupPublicMessage", "collect"}) =>
                    acc'.public = IF blocked THEN acc.public ELSE First(acc.public, x.public)
               /\ Has({"LookupRetryDelay", "collect"}) =>
                    acc'.delay = IF blocked THEN acc.delay ELSE First(acc.delay, x.delay)
               /\ Has({"FieldViolations", "collect"}) =>
                    acc'.violations = IF blocked THEN acc.violations ELSE Cat(acc.violations, x.violations)
               /\ Has({"collect"}) =>
                    acc'.fields = IF blocked THEN acc.fields ELSE Cat(acc.fields, x.fields)
               /\ Has({"PublicFields"}) => \A k \in Key :
                    acc'.map[k] = IF blocked THEN acc.map[k] ELSE First(acc.map[k], LastField(x.fields, k))
               /\ Has({"Trace", "Attrs", "collect", "collectInternal"}) => acc'.trace = Add(acc.trace, err)
<1>1. acc' = Gather(collector, heap[err], blocked, acc)
  BY DEF Visit, X
<1> DEFINE g == Gather(collector, heap[err], blocked, acc)
<1>2. Has({"CodeOf", "collect", "collectInternal"}) => g.code = First(acc.code, heap[err].code)
  BY DEF Gather, Has, Unstopped, First, Overwrite
<1>3. Has({"LookupPublicMessage", "collect"}) =>
        g.public = IF blocked THEN acc.public ELSE First(acc.public, heap[err].public)
  BY DEF Gather, Has, Unstopped, First, Overwrite, Shown
<1>4. Has({"LookupRetryDelay", "collect"}) =>
        g.delay = IF blocked THEN acc.delay ELSE First(acc.delay, heap[err].delay)
  BY DEF Gather, Has, Unstopped, First, Overwrite, Shown
<1>5. Has({"FieldViolations", "collect"}) =>
        g.violations = IF blocked THEN acc.violations ELSE Cat(acc.violations, heap[err].violations)
  BY DEF Gather, Has, Shown, Cat
<1>6. Has({"collect"}) =>
        g.fields = IF blocked THEN acc.fields ELSE Cat(acc.fields, heap[err].fields)
  BY DEF Gather, Has, Shown, Cat
<1>7. Has({"PublicFields"}) => \A k \in Key :
        g.map[k] = IF blocked THEN acc.map[k] ELSE First(acc.map[k], LastField(heap[err].fields, k))
  BY DEF Gather, Has, Shown, MergeFields
<1>8. Has({"Trace", "Attrs", "collect", "collectInternal"}) => g.trace = Add(acc.trace, err)
  BY DEF Gather, Has, Add
<1>9. acc' = g
  BY <1>1
<1> HIDE DEF g
<1> QED
  BY <1>2, <1>3, <1>4, <1>5, <1>6, <1>7, <1>8, <1>9

\* A visit gathers what the node at hand says, and the node is seen.
LEMMA VisitGathered ==
    ASSUME Typed, Visit, Unstopped, NEW seen \in Sq(InChain), NEW seenOpen \in Sq(InChain),
           Gathered(seen, seenOpen), NEW more, more = Add(seen, err),
           NEW moreOpen, moreOpen = IF blocked THEN seenOpen ELSE Add(seenOpen, err)
    PROVE  Gathered(more, moreOpen)'
<1>1. heap' = heap /\ collector' = collector /\ err \in InChain /\ err \in Node
  BY WalkTypes DEF Visit, Showable, X, InChain, ErrorsOf
<1>2. ASSUME NEW f PROVE /\ FirstSet(more, f) = First(FirstSet(seen, f), f[err])
                         /\ FirstSet(moreOpen, f) = IF blocked THEN FirstSet(seenOpen, f)
                                                    ELSE First(FirstSet(seenOpen, f), f[err])
  <2>1. /\ FirstSet(Add(seen, err), f) = First(FirstSet(seen, f), f[err])
        /\ FirstSet(Add(seenOpen, err), f) = First(FirstSet(seenOpen, f), f[err])
    BY <1>1, FirstSetAppend
  <2> QED
    BY <2>1
<1>3. ASSUME NEW f, NEW S, Maps(f, InChain, Sq(S))
      PROVE  Together(moreOpen, f) = IF blocked THEN Together(seenOpen, f)
                                     ELSE Cat(Together(seenOpen, f), f[err])
  BY <1>1, <1>3, TogetherAppend
<1>4. /\ codeSaid[err] = heap[err].code /\ publicSaid[err] = heap[err].public
      /\ delaySaid[err] = heap[err].delay /\ violationsSaid[err] = heap[err].violations
      /\ fieldsSaid[err] = heap[err].fields
      /\ \A k \in Key : fieldSaid(k)[err] = LastField(heap[err].fields, k)
  BY <1>1 DEF codeSaid, publicSaid, delaySaid, violationsSaid, fieldsSaid, fieldSaid
<1>5. /\ codeSaid' = codeSaid /\ publicSaid' = publicSaid /\ delaySaid' = delaySaid
      /\ violationsSaid' = violationsSaid /\ fieldsSaid' = fieldsSaid
      /\ \A k : fieldSaid(k)' = fieldSaid(k)
  BY <1>1 DEF codeSaid, publicSaid, delaySaid, violationsSaid, fieldsSaid, fieldSaid
<1>6. \A cs : Has(cs)' <=> Has(cs)
  BY <1>1 DEF Has
<1>7. Has({"CodeOf", "collect", "collectInternal"}) => acc'.code = FirstSet(more, codeSaid)
  BY <1>2, <1>4, GatherIs DEF Gathered
<1>8. Has({"LookupPublicMessage", "collect"}) => acc'.public = FirstSet(moreOpen, publicSaid)
  BY <1>2, <1>4, GatherIs DEF Gathered
<1>9. Has({"LookupRetryDelay", "collect"}) => acc'.delay = FirstSet(moreOpen, delaySaid)
  BY <1>2, <1>4, GatherIs DEF Gathered
<1>10. Has({"FieldViolations", "collect"}) => acc'.violations = Together(moreOpen, violationsSaid)
  <2>1. Together(moreOpen, violationsSaid) = IF blocked THEN Together(seenOpen, violationsSaid)
                                             ELSE Cat(Together(seenOpen, violationsSaid), violationsSaid[err])
    BY <1>3, Said
  <2> QED
    BY <2>1, <1>4, GatherIs DEF Gathered
<1>11. Has({"collect"}) => acc'.fields = Together(moreOpen, fieldsSaid)
  <2>1. Together(moreOpen, fieldsSaid) = IF blocked THEN Together(seenOpen, fieldsSaid)
                                         ELSE Cat(Together(seenOpen, fieldsSaid), fieldsSaid[err])
    BY <1>3, Said
  <2> QED
    BY <2>1, <1>4, GatherIs DEF Gathered
<1>12. Has({"PublicFields"}) => \A k \in Key : acc'.map[k] = FirstSet(moreOpen, fieldSaid(k))
  BY <1>2, <1>4, GatherIs DEF Gathered
<1>13. Has({"Trace", "Attrs", "collect", "collectInternal"}) => acc'.trace = more
  BY GatherIs DEF Gathered
<1> QED
  BY <1>5, <1>6, <1>7, <1>8, <1>9, <1>10, <1>11, <1>12, <1>13 DEF Gathered

\* fn asks to stop as soon as it has found what it looks for.
LEMMA VisitStops ==
    ASSUME Typed, Visit, Unstopped
    PROVE  IF Stops(collector, X, blocked)
           THEN /\ pc' = "done" /\ collector' = collector
                /\ collector \in {"CodeOf", "LookupPublicMessage", "LookupRetryDelay"}
                /\ collector = "CodeOf" => acc'.code # Unset
                /\ collector = "LookupPublicMessage" => ~blocked /\ acc'.public # Unset
                /\ collector = "LookupRetryDelay" => ~blocked /\ acc'.delay # Unset
           ELSE pc' = "unwrap" /\ Unstopped'
<1>1. /\ collector = "CodeOf" => acc'.code = First(acc.code, heap[err].code)
      /\ collector = "LookupPublicMessage" =>
           acc'.public = IF blocked THEN acc.public ELSE First(acc.public, heap[err].public)
      /\ collector = "LookupRetryDelay" =>
           acc'.delay = IF blocked THEN acc.delay ELSE First(acc.delay, heap[err].delay)
  BY GatherIs DEF Has
<1>2. collector' = collector /\ pc' = IF Stops(collector, X, blocked) THEN "done" ELSE "unwrap"
  BY DEF Visit
<1> QED
  BY <1>1, <1>2 DEF Unstopped, First, Stops, X

\* What has been gathered stays while nothing is visited.
LEMMA GatheredStays ==
    ASSUME NEW seen, NEW seenOpen, Gathered(seen, seenOpen), heap' = heap, collector' = collector, acc' = acc
    PROVE  Gathered(seen, seenOpen)'
<1>1. /\ codeSaid' = codeSaid /\ publicSaid' = publicSaid /\ delaySaid' = delaySaid
      /\ violationsSaid' = violationsSaid /\ fieldsSaid' = fieldsSaid
      /\ \A k : fieldSaid(k)' = fieldSaid(k)
  BY DEF codeSaid, publicSaid, delaySaid, violationsSaid, fieldsSaid, fieldSaid
<1>2. \A cs : Has(cs)' <=> Has(cs)
  BY DEF Has
<1> QED
  BY <1>1, <1>2 DEF Gathered

\* What is found early is found first.
LEMMA FirstOfPrefix ==
    ASSUME NEW S, NEW s \in Sq(S), NEW t \in Sq(S), NEW f, FirstSet(s, f) # Unset
    PROVE  FirstSet(Cat(s, t), f) = FirstSet(s, f)
<1>1. FirstSet(Cat(s, t), f) = First(FirstSet(s, f), FirstSet(t, f))
  BY FirstSetCat
<1> QED
  BY <1>1 DEF First

\* The orders from the root.
LEMMA OrdersAt ==
    ASSUME Typed, heap' = heap, NEW r \in Node \cup {0}, root' = r,
           NEW pa, Chain(pa, FALSE), NEW po, Chain(po, TRUE)
    PROVE  AllErrors' = pa[r] /\ OpenErrors' = po[r]
<1>1. pa[r] = Preorder(heap, r, nextOf(FALSE)) /\ po[r] = Preorder(heap, r, nextOf(TRUE))
  <2>1. /\ pa = [n \in Node \cup {0} |-> Preorder(heap, n, nextOf(FALSE))]
        /\ po = [n \in Node \cup {0} |-> Preorder(heap, n, nextOf(TRUE))]
    BY Zenon DEF Chain
  <2> QED
    BY <2>1
<1>2. nextOf(FALSE) = [n \in Node |-> heap[n].branches] /\ nextOf(TRUE) = [n \in Node |-> Open(n)]
  BY DEF nextOf, Open
<1>3. /\ AllErrors' = Preorder(heap, r, [n \in Node |-> heap[n].branches])
      /\ OpenErrors' = Preorder(heap, r, [n \in Node |-> Open(n)])
  BY DEF AllErrors, OpenErrors, Open
<1> QED
  BY <1>1, <1>2, <1>3

----------------------------------------------------------------------------
(* The walk is on its way: what it has seen it has gathered, and what it   *)
(* has not is still to come.                                               *)

Progress(pa, po, seen, seenOpen, rest, restOpen) ==
    /\ Chain(pa, FALSE) /\ Remains(pa, FALSE, seen, rest)
    /\ Chain(po, TRUE) /\ Remains(po, TRUE, seenOpen, restOpen)
    /\ Gathered(seen, seenOpen)
    /\ Unstopped
Underway == \E pa, po, seen, seenOpen, rest, restOpen : Progress(pa, po, seen, seenOpen, rest, restOpen)

ResultInv ==
    /\ Typed
    /\ Quiet
    /\ pc \in {"loop", "unwrap", "return"} => Underway
    /\ pc = "done" => Gathered(AllErrors, OpenErrors)

\* At the start, nothing has been gathered of nothing seen.
LEMMA NothingGathered ==
    ASSUME acc' = Nothing
    PROVE  Gathered(<<>>, <<>>)' /\ Unstopped'
<1>1. /\ acc'.code = Unset /\ acc'.public = Unset /\ acc'.delay = Unset /\ acc'.fields = <<>>
      /\ acc'.violations = <<>> /\ acc'.trace = <<>> /\ \A k \in Key : acc'.map[k] = Unset
  BY DEF Nothing
<1>2. \A f : FirstSet(<<>>, f) = Unset /\ Together(<<>>, f) = <<>>
  BY FirstSetEmpty, TogetherEmpty
<1> QED
  BY <1>1, <1>2 DEF Gathered, Unstopped

\* At the start, the whole order is left.
LEMMA StartRemains ==
    ASSUME Acyclic, Typed, NEW c, NEW r \in Node \cup {0}, Call(c, r), stack = <<>>, pc' = "loop",
           NEW p, NEW open \in BOOLEAN, Chain(p, open)
    PROVE  \E rest : Remains(p, open, <<>>, rest)'
<1> DEFINE rest == [k \in {0} |-> <<>>]
<1>1. /\ heap' = heap /\ root' = r /\ err' = r /\ blocked' = FALSE /\ stack' = <<>>
  BY DEF Call
<1>2. <<>> \in Sq(InChain) /\ p[r] \in Sq(InChain)
  BY ChainIs, SqBasics DEF Maps
<1>3. InChain' = InChain
  BY <1>1 DEF InChain
<1>4. Now(p, open)' = p[r]
  BY <1>1 DEF Now, Blank
<1>5. rest[0] = <<>> /\ Maps(rest, 0..0, Sq(InChain))
  BY <1>2 DEF Maps
<1>6. Cat(<<>>, Cat(p[r], <<>>)) = p[r]
  BY <1>2, CatEmpty
<1>7. Len(stack') = 0 /\ 1..0 = {}
  BY <1>1
<1> HIDE DEF rest
<1>8. Remains(p, open, <<>>, rest)'
  BY <1>1, <1>2, <1>3, <1>4, <1>5, <1>6, <1>7 DEF Remains
<1> QED
  BY <1>8

\* A call starts a walk, or ends at once for a nil error.
LEMMA CallResult ==
    ASSUME Acyclic, Typed, Quiet, NEW c, NEW r \in Node \cup {0}, Call(c, r)
    PROVE  /\ pc' = "loop" => Underway'
           /\ pc' = "done" => Gathered(AllErrors, OpenErrors)'
<1>1. heap' = heap /\ root' = r /\ acc' = Nothing /\ stack = <<>>
      /\ pc' = IF c = "CodeOf" /\ r = 0 THEN "done" ELSE "loop"
  BY DEF Call, Quiet
<1>2. PICK pa : Chain(pa, FALSE)
  BY DEF Chain
<1>3. PICK po : Chain(po, TRUE)
  BY DEF Chain
<1>4. Chain(pa, FALSE)' /\ Chain(po, TRUE)'
  BY <1>1, <1>2, <1>3, ChainStays
<1>5. ASSUME pc' = "loop" PROVE Underway'
  <2>1. PICK rest : Remains(pa, FALSE, <<>>, rest)'
    BY <1>1, <1>2, <1>5, StartRemains
  <2>2. PICK restOpen : Remains(po, TRUE, <<>>, restOpen)'
    BY <1>1, <1>3, <1>5, StartRemains
  <2>3. Progress(pa, po, <<>>, <<>>, rest, restOpen)'
    BY <1>1, <1>4, <2>1, <2>2, NothingGathered DEF Progress
  <2> QED
    BY <2>3 DEF Underway
<1>6. ASSUME pc' = "done" PROVE Gathered(AllErrors, OpenErrors)'
  <2>1. r = 0
    BY <1>1, <1>6
  <2>2. AllErrors' = <<>> /\ OpenErrors' = <<>>
    BY <1>1, <1>2, <1>3, <2>1, OrdersAt, ChainIs
  <2>3. Gathered(<<>>, <<>>)'
    BY <1>1, NothingGathered
  <2> QED
    BY <2>2, <2>3 DEF Gathered
<1> QED
  BY <1>5, <1>6

\* Between two visits nothing is gathered.
LEMMA WayResult ==
    ASSUME Acyclic, Typed, Quiet, Underway,
           PassOver \/ Unwrap \/ EnterJoin \/ EndOfChain \/ NextBranch
    PROVE  Underway' /\ pc' # "done"
<1>1. PICK pa, po, seen, seenOpen, rest, restOpen : Progress(pa, po, seen, seenOpen, rest, restOpen)
  BY DEF Underway
<1>2. heap' = heap /\ collector' = collector /\ acc' = acc /\ pc' # "done"
  BY DEF PassOver, Unwrap, EnterJoin, EndOfChain, NextBranch
<1>3. Chain(pa, FALSE)' /\ Chain(po, TRUE)'
  BY <1>1, <1>2, ChainStays DEF Progress
<1>4. Gathered(seen, seenOpen)' /\ Unstopped'
  <2>1. Gathered(seen, seenOpen)'
    BY <1>1, <1>2, GatheredStays DEF Progress
  <2>2. Unstopped'
    BY <1>1, <1>2 DEF Progress, Unstopped
  <2> QED
    BY <2>1, <2>2
<1>5. ASSUME NEW p, NEW open \in BOOLEAN, Chain(p, open), NEW now, NEW left, Remains(p, open, now, left)
      PROVE  \E more : Remains(p, open, now, more)'
  BY <1>5, PassOverRemains, UnwrapRemains, EnterJoinRemains, EndOfChainRemains, NextBranchRemains
<1>6. PICK more : Remains(pa, FALSE, seen, more)'
  BY <1>1, <1>5 DEF Progress
<1>7. PICK moreOpen : Remains(po, TRUE, seenOpen, moreOpen)'
  BY <1>1, <1>5 DEF Progress
<1>8. Progress(pa, po, seen, seenOpen, more, moreOpen)'
  BY <1>3, <1>4, <1>6, <1>7 DEF Progress
<1> QED
  BY <1>2, <1>8 DEF Underway

\* s is the beginning of t.
Begins(s, t) == s \in Sq(InChain) /\ \E u \in Sq(InChain) : t = Cat(s, u)

\* So what is seen with a visit is the beginning of the order.
LEMMA VisitBegins ==
    ASSUME Acyclic, Typed, NEW p, NEW open \in BOOLEAN, Chain(p, open), NEW seen, NEW rest,
           Remains(p, open, seen, rest), Visit, ~(open /\ blocked), NEW more, more = Add(seen, err)
    PROVE  Begins(more, p[root])
<1>1. /\ pc = "loop" /\ err # 0 /\ heap[err].kind = "Error" /\ Len(stack) \in 0..Len(stack)
  BY WalkTypes DEF Visit, Showable, X
<1>2. PICK below : below = Together(nextOf(open)[err], p)
  OBVIOUS
<1>3. /\ more \in Sq(InChain) /\ below \in Sq(InChain)
      /\ Cat(more, Cat(below, rest[Len(stack)])) = p[root]
  BY <1>1, <1>2, VisitSplit
<1>4. rest[Len(stack)] \in Sq(InChain)
  BY <1>1, RestTypes
<1>5. Cat(below, rest[Len(stack)]) \in Sq(InChain)
  BY <1>3, <1>4, CatType
<1> QED
  BY <1>3, <1>5 DEF Begins

\* A visit that stops the walk has found what the whole order says first.
LEMMA StopResult ==
    ASSUME Acyclic, Typed, Quiet, Underway, Visit, pc' = "done"
    PROVE  Gathered(AllErrors, OpenErrors)'
<1>1. PICK pa, po, seen, seenOpen, rest, restOpen : Progress(pa, po, seen, seenOpen, rest, restOpen)
  BY DEF Underway
<1>2. /\ Chain(pa, FALSE) /\ Remains(pa, FALSE, seen, rest) /\ seen \in Sq(InChain)
      /\ Chain(po, TRUE) /\ Remains(po, TRUE, seenOpen, restOpen) /\ seenOpen \in Sq(InChain)
      /\ Gathered(seen, seenOpen) /\ Unstopped
  BY <1>1 DEF Progress, Remains
<1>3. heap' = heap /\ root' = root /\ root \in Node \cup {0} /\ collector' = collector
  BY WalkTypes DEF Visit
<1>4. PICK more : more = Add(seen, err)
  OBVIOUS
<1>5. PICK moreOpen : moreOpen = IF blocked THEN seenOpen ELSE Add(seenOpen, err)
  OBVIOUS
<1>6. Gathered(more, moreOpen)'
  BY <1>2, <1>4, <1>5, VisitGathered
<1>7. /\ collector \in {"CodeOf", "LookupPublicMessage", "LookupRetryDelay"}
      /\ collector = "CodeOf" => acc'.code # Unset
      /\ collector = "LookupPublicMessage" => ~blocked /\ acc'.public # Unset
      /\ collector = "LookupRetryDelay" => ~blocked /\ acc'.delay # Unset
  BY <1>2, VisitStops
<1>8. Begins(more, pa[root])
  BY <1>2, <1>4, VisitBegins
<1>9. ~blocked => Begins(moreOpen, po[root])
  <2> SUFFICES ASSUME ~blocked PROVE Begins(moreOpen, po[root])
    OBVIOUS
  <2>1. moreOpen = Add(seenOpen, err)
    BY <1>5
  <2> QED
    BY <1>2, <2>1, VisitBegins
<1>10. AllErrors' = pa[root] /\ OpenErrors' = po[root]
  BY <1>2, <1>3, OrdersAt
<1>11. /\ codeSaid' = codeSaid /\ publicSaid' = publicSaid /\ delaySaid' = delaySaid
       /\ \A cs : Has(cs)' <=> collector \in cs
  BY <1>3 DEF codeSaid, publicSaid, delaySaid, Has
<1>12. ASSUME collector = "CodeOf" PROVE acc'.code = FirstSet(pa[root], codeSaid)
  <2>1. acc'.code = FirstSet(more, codeSaid)
    BY <1>6, <1>11, <1>12 DEF Gathered
  <2> QED
    BY <1>7, <1>8, <1>12, <2>1, FirstOfPrefix DEF Begins
<1>13. ASSUME collector = "LookupPublicMessage" PROVE acc'.public = FirstSet(po[root], publicSaid)
  <2>1. acc'.public = FirstSet(moreOpen, publicSaid)
    BY <1>6, <1>11, <1>13 DEF Gathered
  <2> QED
    BY <1>7, <1>9, <1>13, <2>1, FirstOfPrefix DEF Begins
<1>14. ASSUME collector = "LookupRetryDelay" PROVE acc'.delay = FirstSet(po[root], delaySaid)
  <2>1. acc'.delay = FirstSet(moreOpen, delaySaid)
    BY <1>6, <1>11, <1>14 DEF Gathered
  <2> QED
    BY <1>7, <1>9, <1>14, <2>1, FirstOfPrefix DEF Begins
<1> QED
  BY <1>7, <1>10, <1>11, <1>12, <1>13, <1>14 DEF Gathered

\* A visit that does not stop the walk.
LEMMA VisitResult ==
    ASSUME Acyclic, Typed, Quiet, Underway, Visit, pc' = "unwrap"
    PROVE  Underway'
<1>1. PICK pa, po, seen, seenOpen, rest, restOpen : Progress(pa, po, seen, seenOpen, rest, restOpen)
  BY DEF Underway
<1>2. /\ Chain(pa, FALSE) /\ Remains(pa, FALSE, seen, rest) /\ seen \in Sq(InChain)
      /\ Chain(po, TRUE) /\ Remains(po, TRUE, seenOpen, restOpen) /\ seenOpen \in Sq(InChain)
      /\ Gathered(seen, seenOpen) /\ Unstopped
  BY <1>1 DEF Progress, Remains
<1>3. PICK more : more = Add(seen, err)
  OBVIOUS
<1>4. PICK moreOpen : moreOpen = IF blocked THEN seenOpen ELSE Add(seenOpen, err)
  OBVIOUS
<1>5. Gathered(more, moreOpen)'
  BY <1>2, <1>3, <1>4, VisitGathered
<1>6. Remains(pa, FALSE, more, rest)'
  BY <1>2, <1>3, VisitRemains
<1>7. Remains(po, TRUE, moreOpen, restOpen)'
  BY <1>2, <1>4, VisitRemains
<1>8. Unstopped'
  BY <1>2, VisitStops
<1>9. Chain(pa, FALSE)' /\ Chain(po, TRUE)'
  BY <1>2, ChainStays DEF Visit
<1>10. Progress(pa, po, more, moreOpen, rest, restOpen)'
  BY <1>5, <1>6, <1>7, <1>8, <1>9 DEF Progress
<1> QED
  BY <1>10 DEF Underway

\* A walk that leaves its last loop has seen the whole order.
LEMMA LeaveResult ==
    ASSUME Acyclic, Typed, Quiet, Underway, Leave
    PROVE  IF stack = <<>> THEN pc' = "done" /\ Gathered(AllErrors, OpenErrors)'
           ELSE pc' = "return" /\ Underway'
<1>1. PICK pa, po, seen, seenOpen, rest, restOpen : Progress(pa, po, seen, seenOpen, rest, restOpen)
  BY DEF Underway
<1>2. /\ Chain(pa, FALSE) /\ Remains(pa, FALSE, seen, rest)
      /\ Chain(po, TRUE) /\ Remains(po, TRUE, seenOpen, restOpen)
      /\ Gathered(seen, seenOpen) /\ Unstopped
  BY <1>1 DEF Progress
<1>3. /\ heap' = heap /\ collector' = collector /\ acc' = acc /\ root' = root /\ root \in Node \cup {0}
      /\ pc' = IF stack = <<>> THEN "done" ELSE "return"
  BY WalkTypes DEF Leave
<1>4. Gathered(seen, seenOpen)'
  BY <1>2, <1>3, GatheredStays
<1>5. CASE stack = <<>>
  <2>1. seen = pa[root] /\ seenOpen = po[root]
    BY <1>2, <1>5, LeaveRemains
  <2>2. AllErrors' = seen /\ OpenErrors' = seenOpen
    BY <1>2, <1>3, <2>1, OrdersAt
  <2> QED
    BY <1>3, <1>4, <1>5, <2>2 DEF Gathered
<1>6. CASE stack # <<>>
  <2>1. Remains(pa, FALSE, seen, rest)' /\ Remains(po, TRUE, seenOpen, restOpen)'
    BY <1>2, <1>6, LeaveRemains
  <2>2. Unstopped' /\ Chain(pa, FALSE)' /\ Chain(po, TRUE)'
    BY <1>2, <1>3, ChainStays DEF Unstopped
  <2>3. Progress(pa, po, seen, seenOpen, rest, restOpen)'
    BY <1>4, <2>1, <2>2 DEF Progress
  <2> QED
    BY <1>3, <1>6, <2>3 DEF Underway
<1> QED
  BY <1>5, <1>6

\* The invariant is inductive.
LEMMA StepResult ==
    ASSUME Acyclic, ResultInv, [Next]_vars
    PROVE  ResultInv'
<1>1. Typed /\ Quiet /\ Typed' /\ Quiet'
  BY StepTyped DEF ResultInv
<1> DEFINE Found == /\ pc \in {"loop", "unwrap", "return"} => Underway
                    /\ pc = "done" => Gathered(AllErrors, OpenErrors)
<1>2. ASSUME NEW c \in Collectors, NEW r \in Roots, Call(c, r) PROVE Found'
  <2>1. r \in Node \cup {0} /\ pc' \in {"loop", "done"}
    BY <1>2, WalkAssumption DEF Call
  <2> QED
    BY <1>1, <1>2, <2>1, CallResult
<1>3. ASSUME Visit PROVE Found'
  <2>1. Underway /\ pc' \in {"done", "unwrap"}
    BY <1>3 DEF ResultInv, Visit
  <2> QED
    BY <1>1, <1>3, <2>1, StopResult, VisitResult
<1>4. ASSUME PassOver \/ Unwrap \/ EnterJoin \/ EndOfChain \/ NextBranch PROVE Found'
  <2>1. Underway
    BY <1>4 DEF ResultInv, PassOver, Unwrap, EnterJoin, EndOfChain, NextBranch
  <2> QED
    BY <1>1, <1>4, <2>1, WayResult
<1>5. ASSUME Leave PROVE Found'
  <2>1. Underway
    BY <1>5 DEF ResultInv, Leave
  <2> QED
    BY <1>1, <1>5, <2>1, LeaveResult
<1>6. ASSUME Return PROVE Found'
  BY <1>6 DEF Return
<1>7. ASSUME UNCHANGED vars PROVE Found'
  <2>1. Underway' <=> Underway
    BY <1>7 DEF vars, Underway, Progress, Chain, nextOf, Remains, InChain, Now, Gathered, Unstopped,
                Has, codeSaid, publicSaid, delaySaid, violationsSaid, fieldsSaid, fieldSaid
  <2>2. pc = "done" => Gathered(AllErrors, OpenErrors)'
    <3>1. heap' = heap /\ root' = root /\ collector' = collector /\ acc' = acc
      BY <1>7 DEF vars
    <3>2. AllErrors' = AllErrors /\ OpenErrors' = OpenErrors
      BY <3>1 DEF AllErrors, OpenErrors, Open
    <3>3. pc = "done" => Gathered(AllErrors, OpenErrors)
      BY DEF ResultInv
    <3>4. ASSUME NEW s, NEW t, Gathered(s, t) PROVE Gathered(s, t)'
      BY <3>1, <3>4, GatheredStays
    <3> QED
      BY <3>2, <3>3, <3>4 DEF Gathered
  <2> QED
    BY <1>7, <2>1, <2>2 DEF vars, ResultInv
<1>8. Found'
  BY <1>2, <1>3, <1>4, <1>5, <1>6, <1>7 DEF Next, Step
<1> QED
  BY <1>1, <1>8 DEF ResultInv

\* The invariant says what the collector returns.
LEMMA ResultIs ==
    ASSUME Acyclic, ResultInv, pc = "done"
    PROVE  ResultIsReference
<1>1. Gathered(AllErrors, OpenErrors) /\ Typed
  BY DEF ResultInv
<1>2. root = 0 => FirstSet(AllErrors, codeSaid) = Unset
  <2>1. PICK p : Chain(p, FALSE)
    BY DEF Chain
  <2>2. p[0] = <<>> /\ p[root] = AllErrors
    BY <1>1, <2>1, ChainIs
  <2> QED
    BY <2>2, FirstSetEmpty
<1>3. \A k : [n \in Node |-> LastField([m \in Node |-> heap[m].fields][n], k)] = fieldSaid(k)
  BY DEF fieldSaid
<1>4. Has({"CodeOf", "collect", "collectInternal"}) =>
        Code = IF FirstSet(AllErrors, codeSaid) = Unset /\ (root # 0 \/ collector # "CodeOf")
               THEN UnknownCode ELSE FirstSet(AllErrors, codeSaid)
  BY <1>1, <1>2 DEF Gathered, Code
<1> QED
  BY <1>1, <1>3, <1>4
  DEF ResultIsReference, Gathered, Has, codeSaid, publicSaid, delaySaid, violationsSaid, fieldsSaid

\* For chains that end, every collector returns what the structure of the
\* chain says.
THEOREM ResultCorrect == Acyclic => (Spec => []ResultIsReference)
<1> SUFFICES ASSUME Acyclic PROVE Spec => []ResultIsReference
  OBVIOUS
<1>1. Init => ResultInv
  <2> SUFFICES ASSUME Init PROVE ResultInv
    OBVIOUS
  <2>1. pc = "idle"
    BY DEF Init
  <2> QED
    BY <2>1, InitTyped DEF ResultInv
<1>2. ResultInv /\ [Next]_vars => ResultInv'
  BY StepResult
<1>3. ResultInv => ResultIsReference
  <2>1. pc # "done" => ResultIsReference
    BY DEF ResultIsReference
  <2> QED
    BY <2>1, ResultIs
<1> QED
  BY <1>1, <1>2, <1>3, PTL DEF Spec

==============================================================================
