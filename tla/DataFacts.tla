------------------------------ MODULE DataFacts ------------------------------
(* Facts about natural numbers, finite sets and sequences that the proofs of *)
(* several modules need.                                                     *)
EXTENDS Naturals, SequencesExt, FiniteSetsExt, FiniteSetTheorems, SequenceTheorems,
        WellFoundedInduction, TLAPS

\* Division with remainder, as the provers need it.
LEMMA DivMod ==
    ASSUME NEW a \in Nat, NEW b \in Nat \ {0}
    PROVE  /\ a % b \in Nat /\ a % b < b
           /\ a \div b \in Nat
           /\ a = b * (a \div b) + (a % b)
           /\ (a + (b - (a % b))) % b = 0
           /\ \A s \in Nat : s < b - (a % b) =>
                 (a + s) % b = (a % b) + s /\ (a + s) \div b = a \div b
  <1>1. a % b \in Nat /\ a % b < b /\ a \div b \in Nat /\ a = b * (a \div b) + (a % b)
    OBVIOUS
  <1>2. (a + (b - (a % b))) % b = 0
    OBVIOUS
  <1>3. ASSUME NEW s \in Nat, s < b - (a % b)
        PROVE  (a + s) % b = (a % b) + s /\ (a + s) \div b = a \div b
    BY <1>3
  <1> QED BY <1>1, <1>2, <1>3

\* A product of positive factors grows with each.
LEMMA TimesLess ==
    ASSUME NEW b \in Nat \ {0}, NEW q \in Nat, NEW n \in Nat, b * q < b * n
    PROVE  b * (q + 1) <= b * n
  <1>1. q < n
    <2> SUFFICES ASSUME n <= q PROVE FALSE
      OBVIOUS
    <2>1. b * n <= b * q
      OBVIOUS
    <2> QED BY <2>1
  <1>2. PICK d \in Nat : n = q + 1 + d
    <2> n - q - 1 \in Nat /\ n = q + 1 + (n - q - 1)
      BY <1>1
    <2> QED OBVIOUS
  <1>3. b * n = b * (q + 1) + b * d
    BY <1>2
  <1> QED BY <1>3

\* A set of natural numbers has a least element.
LEMMA LeastNat ==
    ASSUME NEW T, T \subseteq Nat, T # {}
    PROVE  \E x \in T : \A y \in T : x <= y
  <1> DEFINE R == OpToRel(<, Nat)
  <1>1. \A x, y \in Nat : <<y, x>> \in R <=> y < x
    BY DEF OpToRel
  <1>2. IsWellFoundedOn(R, Nat)
    BY NatLessThanWellFounded, Zenon
  <1> HIDE DEF R
  <1>3. \E x \in T : \A y \in T : ~ (<<y, x>> \in R)
    BY <1>2, WFMin
  <1>4. PICK x \in T : \A y \in T : ~ (<<y, x>> \in R)
    BY <1>3
  <1>5. \A y \in T : ~(y < x)
    BY <1>1, <1>4
  <1>6. \A y \in T : x <= y
    BY <1>5
  <1> QED BY <1>6

\* A bounded one has a greatest element, and Max is it.
LEMMA MaxFacts ==
    ASSUME NEW n \in Nat, NEW S, S \subseteq 0 .. n, S # {}
    PROVE  Max(S) \in S /\ \A y \in S : Max(S) >= y
  <1> DEFINE T == {n - x : x \in S}
  <1>1. T \subseteq Nat /\ T # {}
    <2>1. \A x \in S : n - x \in Nat
      OBVIOUS
    <2>2. PICK x : x \in S
      OBVIOUS
    <2>3. n - x \in T
      BY <2>2
    <2> QED BY <2>1, <2>3
  <1>2. PICK m \in T : \A y \in T : m <= y
    BY <1>1, LeastNat
  <1>3. PICK x \in S : m = n - x
    OBVIOUS
  <1>4. \A y \in S : x >= y
    BY <1>2, <1>3
  <1> QED BY <1>4 DEF Max

\* So has a finite one.
LEMMA FiniteHasGreatest ==
    ASSUME NEW S, IsFiniteSet(S), S \subseteq Nat, S # {}
    PROVE  \E x \in S : \A y \in S : y <= x
  <1> DEFINE Above(x) == {y \in S : y > x}
             T == {Cardinality(Above(x)) : x \in S}
  <1>1. ASSUME NEW x \in S
        PROVE  IsFiniteSet(Above(x)) /\ Cardinality(Above(x)) \in Nat
    <2>1. Above(x) \in SUBSET S
      OBVIOUS
    <2> HIDE DEF Above
    <2> QED BY <2>1, FS_Subset, FS_CardinalityType
  <1>2. PICK x \in S : \A y \in S : Cardinality(Above(x)) <= Cardinality(Above(y))
    <2> HIDE DEF Above
    <2>1. T \subseteq Nat
      BY <1>1
    <2>2. T # {}
      OBVIOUS
    <2>3. PICK c \in T : \A d \in T : c <= d
      BY <2>1, <2>2, LeastNat
    <2> QED BY <2>3
  <1>3. ASSUME NEW y \in S, ~(y <= x)
        PROVE  FALSE
    <2>0. x \in Nat /\ y \in Nat /\ y > x /\ \A z \in S : z \in Nat
      BY <1>3
    <2>1. Above(y) \in SUBSET Above(x) /\ y \in Above(x) /\ y \notin Above(y)
      <3>1. ASSUME NEW z \in Above(y) PROVE z \in Above(x)
        <4>1. z \in S /\ z \in Nat /\ z > y
          BY <2>0
        <4>2. z > x
          BY <4>1, <2>0
        <4> QED BY <4>1, <4>2
      <3>2. y \in Above(x) /\ y \notin Above(y)
        BY <2>0
      <3> QED BY <3>1, <3>2
    <2> HIDE DEF Above
    <2>2. /\ Cardinality(Above(y)) <= Cardinality(Above(x))
          /\ Cardinality(Above(x)) # Cardinality(Above(y))
      BY <2>1, <1>1, FS_Subset
    <2>3. Cardinality(Above(x)) <= Cardinality(Above(y))
      BY <1>2
    <2> QED BY <2>2, <2>3, <1>1
  <1> QED BY <1>3

\* Min of a set of natural numbers is its least element.
LEMMA MinFacts ==
    ASSUME NEW S, S \subseteq Nat, S # {}
    PROVE  Min(S) \in S /\ \A y \in S : Min(S) <= y
  <1>1. \E x \in S : \A y \in S : x <= y
    BY LeastNat
  <1> QED BY <1>1 DEF Min

\* RemoveFirst takes element x, at position k, out of a sequence without
\* repetitions, and moves those behind it up.
LEMMA RemoveFirstFacts ==
    ASSUME NEW S, NEW s \in Seq(S), NEW k \in 1 .. Len(s),
           \A i, j \in 1 .. Len(s) : s[i] = s[j] => i = j
    PROVE  LET d == RemoveFirst(s, s[k])
           IN  /\ d \in Seq(S)
               /\ Len(d) = Len(s) - 1
               /\ \A i \in 1 .. k - 1 : d[i] = s[i]
               /\ \A i \in k .. Len(s) - 1 : d[i] = s[i + 1]
  <1>1. SelectInSeq(s, LAMBDA v : v = s[k]) = k
    <2>1. {i \in 1 .. Len(s) : s[i] = s[k]} = {k}
      OBVIOUS
    <2>2. Min({k}) = k
      BY DEF Min
    <2> QED BY <2>1, <2>2 DEF SelectInSeq
  <1> DEFINE f == SubSeq(s, 1, k - 1)
             b == SubSeq(s, k + 1, Len(s))
             d == f \o b
  <1>2. RemoveFirst(s, s[k]) = d
    BY <1>1 DEF RemoveFirst, RemoveAt
  <1>a. Len(s) \in Nat /\ DOMAIN s = 1 .. Len(s)
    OBVIOUS
  <1>b. f \in Seq(S) /\ Len(f) = k - 1 /\ \A i \in 1 .. k - 1 : f[i] = s[i]
    OBVIOUS
  <1>c. b \in Seq(S) /\ Len(b) = Len(s) - k /\ \A i \in 1 .. Len(s) - k : b[i] = s[k + i]
    OBVIOUS
  <1> HIDE DEF f, b
  <1>3. d \in Seq(S) /\ Len(d) = Len(s) - 1
    <2>1. d \in Seq(S)
      BY <1>b, <1>c
    <2>2. Len(d) = Len(f) + Len(b)
      BY <1>b, <1>c, ConcatProperties
    <2>3. Len(f) + Len(b) = Len(s) - 1
      BY <1>a, <1>b, <1>c
    <2> QED BY <2>1, <2>2, <2>3
  <1>4. ASSUME NEW i \in 1 .. k - 1 PROVE d[i] = s[i]
    BY <1>a, <1>b, <1>c
  <1>5. ASSUME NEW i \in k .. Len(s) - 1 PROVE d[i] = s[i + 1]
    <2>1. d[i] = b[i - (k - 1)]
      BY <1>a, <1>b, <1>c
    <2>2. i - (k - 1) \in 1 .. Len(s) - k /\ k + (i - (k - 1)) = i + 1
      BY <1>a
    <2>3. b[i - (k - 1)] = s[k + (i - (k - 1))]
      BY <1>c, <2>2
    <2> QED BY <2>1, <2>2, <2>3
  <1> HIDE DEF d
  <1> QED BY <1>2, <1>3, <1>4, <1>5
==============================================================================
