----------------------------- MODULE DataLemmas -----------------------------
(***************************************************************************)
(* Facts about natural numbers and sequences that the proofs of several    *)
(* modules use.                                                            *)
(***************************************************************************)
EXTENDS Integers, Sequences, NaturalsInduction, WellFoundedInduction, TLAPS

-----------------------------------------------------------------------------
(* Natural numbers *)

\* The remainder of a number below the modulus.
LEMMA ModSmall ==
  ASSUME NEW c \in Nat \ {0}, NEW x \in Nat, x < c
  PROVE  x % c = x
BY Z3

\* The remainder of a number below twice the modulus.
LEMMA ModOnce ==
  ASSUME NEW c \in Nat \ {0}, NEW x \in Nat, c <= x, x < 2 * c
  PROVE  x % c = x - c
BY Z3

\* Twice a number is more.
LEMMA DoubleGrows ==
  ASSUME NEW c \in Nat, c # 0
  PROVE  c * 2 \in Nat /\ c < c * 2
OBVIOUS

\* The quotient and the remainder of a number with its divisor.
LEMMA DivMod ==
  ASSUME NEW c \in Nat \ {0}, NEW x \in Nat
  PROVE  \E q \in Nat, r \in 0 .. c - 1 :
           q = x \div c /\ r = x % c /\ x = c * q + r
<1>1. x \div c \in Nat
  BY Z3
<1>2. x % c \in 0 .. c - 1
  BY Z3
<1>3. PICK q \in Nat, r \in 0 .. c - 1 : q = x \div c /\ r = x % c
  BY <1>1, <1>2
<1>4. PICK p \in Int : p = c * q
  OBVIOUS
<1>5. p + r = x
  BY <1>3, <1>4, Z3
<1>6. x = c * q + r
  BY <1>4, <1>5
<1> QED BY <1>3, <1>6

\* Multiplication keeps the order of the factors.
LEMMA ProductGrows ==
  ASSUME NEW c \in Nat \ {0}, NEW x \in Nat, NEW y \in Nat, x < y
  PROVE  c * x \in Nat /\ c * y \in Nat /\ c * x + c <= c * y
BY Z3

\* A product of naturals.
LEMMA ProductType ==
  ASSUME NEW c \in Nat, NEW x \in Nat
  PROVE  c * x \in Nat
BY Z3

\* They are found again when the number is put together from them.
LEMMA DivModUnique ==
  ASSUME NEW c \in Nat \ {0}, NEW w \in Nat, NEW b \in 0 .. c - 1
  PROVE  (c * w + b) \div c = w /\ (c * w + b) % c = b
<1>0. c * w \in Nat
  BY ProductType
<1>1. PICK x \in Nat : x = c * w + b
  BY <1>0
<1>2. PICK q \in Nat, r \in 0 .. c - 1 :
        q = x \div c /\ r = x % c /\ x = c * q + r
  BY DivMod
<1>3. c * w + b = c * q + r
  BY <1>1, <1>2
<1>4. ~(q < w) /\ ~(w < q)
  <2>1. CASE q < w
    <3>1. c * q \in Nat /\ c * w \in Nat /\ c * q + c <= c * w
      BY <2>1, ProductGrows
    <3> QED BY <1>2, <1>3, <3>1
  <2>2. CASE w < q
    <3>1. c * q \in Nat /\ c * w \in Nat /\ c * w + c <= c * q
      BY <2>2, ProductGrows
    <3> QED BY <1>2, <1>3, <3>1
  <2> QED BY <2>1, <2>2
<1>5. q = w
  BY <1>4
<1>6. r = b
  BY <1>0, <1>3, <1>5
<1> QED BY <1>1, <1>2, <1>5, <1>6

\* The library's order on Nat is <.
LEMMA LessThanRelation ==
  OpToRel(<, Nat) = {ss \in Nat \X Nat : ss[1] < ss[2]}
BY Zenon DEF OpToRel

\* Every non-empty set of naturals has a least element.
LEMMA LeastElement ==
  ASSUME NEW S \in SUBSET Nat, S # {}
  PROVE  \E x \in S : \A y \in S : x <= y
<1> DEFINE R == {ss \in Nat \X Nat : ss[1] < ss[2]}
<1>1. IsWellFoundedOn(R, Nat)
  BY NatLessThanWellFounded, LessThanRelation, Zenon
<1>2. \A x, y \in Nat : y < x => <<y, x>> \in R
  OBVIOUS
<1> HIDE DEF R
<1>3. PICK x \in S : \A y \in S : ~(<<y, x>> \in R)
  BY <1>1, WFMin
<1>4. \A y \in S : ~(y < x)
  BY <1>2, <1>3
<1> QED BY <1>4

\* Every non-empty set of naturals with a bound has a greatest element.
LEMMA GreatestElement ==
  ASSUME NEW n \in Nat, NEW S \in SUBSET (0 .. n), S # {}
  PROVE  \E x \in S : \A y \in S : y <= x
<1> DEFINE T == {k \in Nat : \E y \in S : k = n - y}
<1>1. T \in SUBSET Nat /\ T # {}
  <2>1. PICK y : y \in S
    OBVIOUS
  <2>2. n - y \in Nat
    BY <2>1
  <2>3. n - y \in T
    BY <2>1, <2>2
  <2> QED BY <2>3
<1>2. PICK k \in T : \A j \in T : k <= j
  <2> HIDE DEF T
  <2> QED BY <1>1, LeastElement
<1>3. PICK x \in S : k = n - x
  BY <1>2
<1>4. ASSUME NEW y \in S PROVE y <= x
  <2>1. n - y \in T
    OBVIOUS
  <2> HIDE DEF T
  <2> QED BY <1>2, <1>3, <2>1
<1> QED BY <1>4

\* Every non-empty set of pairs of naturals has a first one, in the order of
\* the dictionary.
LEMMA FirstPair ==
  ASSUME NEW F \in SUBSET (Nat \X Nat), F # {}
  PROVE  \E s \in F :
           \A t \in F : s[1] < t[1] \/ (s[1] = t[1] /\ s[2] <= t[2])
<1> DEFINE W == {w \in Nat : \E b \in Nat : <<w, b>> \in F}
<1>1. PICK w \in W : \A x \in W : w <= x
  <2>1. PICK s : s \in F
    OBVIOUS
  <2>2. s = <<s[1], s[2]>> /\ s[1] \in Nat /\ s[2] \in Nat
    BY <2>1
  <2>3. s[1] \in W
    BY <2>1, <2>2
  <2>4. W \in SUBSET Nat /\ W # {}
    BY <2>3
  <2> HIDE DEF W
  <2> QED BY <2>4, LeastElement
<1> DEFINE B == {b \in Nat : <<w, b>> \in F}
<1>2. PICK b \in B : \A x \in B : b <= x
  <2>1. B \in SUBSET Nat /\ B # {}
    BY <1>1
  <2> HIDE DEF B
  <2> QED BY <2>1, LeastElement
<1>3. \A t \in F : w < t[1] \/ (w = t[1] /\ b <= t[2])
  <2> SUFFICES ASSUME NEW t \in F PROVE w < t[1] \/ (w = t[1] /\ b <= t[2])
    OBVIOUS
  <2>1. t = <<t[1], t[2]>> /\ t[1] \in Nat /\ t[2] \in Nat
    OBVIOUS
  <2>2. t[1] \in W
    BY <2>1
  <2>3. w <= t[1]
    BY <1>1, <2>2
  <2>4. t[1] = w => b <= t[2]
    BY <1>2, <2>1
  <2> QED BY <1>1, <2>1, <2>3, <2>4
<1>4. <<w, b>> \in F
  BY <1>2
<1> WITNESS <<w, b>> \in F
<1> QED BY <1>3

-----------------------------------------------------------------------------
(* Sequences *)

\* A sequence is a function on the numbers up to its length.
LEMMA SeqIsFunctions ==
  ASSUME NEW S
  PROVE  Seq(S) = UNION {[1 .. n -> S] : n \in Nat}
OBVIOUS

\* The length of a sequence and its domain.
LEMMA LenFacts ==
  ASSUME NEW S, NEW q \in Seq(S)
  PROVE  Len(q) \in Nat /\ DOMAIN q = 1 .. Len(q) /\ q \in [1 .. Len(q) -> S]
OBVIOUS

\* The elements of a sequence.
LEMMA SeqElement ==
  ASSUME NEW S, NEW q \in Seq(S), NEW i \in 1 .. Len(q)
  PROVE  q[i] \in S
OBVIOUS

\* A sequence over a set is one over every larger set.
LEMMA SeqWidens ==
  ASSUME NEW S, NEW T, S \subseteq T, NEW q \in Seq(S)
  PROVE  q \in Seq(T)
OBVIOUS

\* The empty sequence is the one of length 0.
LEMMA EmptyFacts ==
  ASSUME NEW S
  PROVE  /\ << >> \in Seq(S) /\ Len(<< >>) = 0
         /\ \A q \in Seq(S) : q # << >> => Len(q) \in Nat \ {0}
OBVIOUS

\* Two sequences with the same length and the same elements are one.
LEMMA SameSeq ==
  ASSUME NEW S, NEW q \in Seq(S), NEW r \in Seq(S), Len(q) = Len(r),
         \A i \in 1 .. Len(q) : q[i] = r[i]
  PROVE  q = r
OBVIOUS

\* What a sequence with one more element holds.
LEMMA AppendFacts ==
  ASSUME NEW S, NEW q \in Seq(S), NEW e \in S
  PROVE  /\ Append(q, e) \in Seq(S) /\ Len(Append(q, e)) = Len(q) + 1
         /\ \A i \in 1 .. Len(q) : Append(q, e)[i] = q[i]
         /\ Append(q, e)[Len(q) + 1] = e
OBVIOUS

\* What two sequences hold together.
LEMMA ConcatFacts ==
  ASSUME NEW S, NEW q \in Seq(S), NEW r \in Seq(S)
  PROVE  /\ q \o r \in Seq(S) /\ Len(q \o r) = Len(q) + Len(r)
         /\ \A i \in 1 .. Len(q) + Len(r) :
              (q \o r)[i] = IF i <= Len(q) THEN q[i] ELSE r[i - Len(q)]
OBVIOUS

\* What a part of a sequence holds.
LEMMA SubSeqFacts ==
  ASSUME NEW S, NEW q, NEW a \in Int, NEW b \in Int,
         \A i \in a .. b : q[i] \in S
  PROVE  /\ SubSeq(q, a, b) \in Seq(S)
         /\ Len(SubSeq(q, a, b)) = IF a <= b THEN b - a + 1 ELSE 0
         /\ \A i \in 1 .. b - a + 1 : SubSeq(q, a, b)[i] = q[a + i - 1]
OBVIOUS

\* The part with all elements.
LEMMA WholeSubSeq ==
  ASSUME NEW S, NEW q \in Seq(S)
  PROVE  SubSeq(q, 1, Len(q)) = q
OBVIOUS

\* Two parts that meet make one.
LEMMA AdjacentSubSeqs ==
  ASSUME NEW S, NEW q \in Seq(S), NEW a \in 1 .. Len(q) + 1,
         NEW c \in a - 1 .. Len(q), NEW b \in c .. Len(q)
  PROVE  SubSeq(q, a, c) \o SubSeq(q, c + 1, b) = SubSeq(q, a, b)
OBVIOUS

\* A sequence given by its elements.
LEMMA SequenceOf ==
  ASSUME NEW T, NEW n \in Nat, NEW s \in [1 .. n -> T]
  PROVE  s \in Seq(T) /\ Len(s) = n
<1>1. s \in Seq(T)
  BY SeqIsFunctions, Zenon
<1>2. 1 .. Len(s) = 1 .. n /\ Len(s) \in Nat
  BY <1>1, LenFacts, Zenon
<1> QED BY <1>1, <1>2

\* Concatenation is associative; as a predicate, so that an instance of it is
\* found by name.
Associates(a, b, c) == (a \o b) \o c = a \o (b \o c)

\* It is, for sequences over one set.
LEMMA Associative ==
  ASSUME NEW S, NEW a \in Seq(S), NEW b \in Seq(S), NEW c \in Seq(S)
  PROVE  Associates(a, b, c)
BY DEF Associates

\* Sequences that begin with the same part and are the same.
LEMMA CancelFront ==
  ASSUME NEW S, NEW a \in Seq(S), NEW b \in Seq(S), NEW c \in Seq(S),
         a \o b = a \o c
  PROVE  b = c
<1>1. PICK l \in Nat, m \in Nat, n \in Nat :
        l = Len(a) /\ m = Len(b) /\ n = Len(c)
  OBVIOUS
<1>2. /\ Len(a \o b) = l + m
      /\ \A i \in 1 .. m : (a \o b)[l + i] = b[i]
  BY <1>1, ConcatFacts
<1>3. /\ Len(a \o c) = l + n
      /\ \A i \in 1 .. n : (a \o c)[l + i] = c[i]
  BY <1>1, ConcatFacts
<1>4. m = n
  BY <1>2, <1>3
<1>5. \A i \in 1 .. m : b[i] = c[i]
  BY <1>2, <1>3, <1>4, Zenon
<1> QED BY <1>1, <1>4, <1>5, SameSeq, Zenon

\* Two beginnings of a sequence agree.
LEMMA SameFront ==
  ASSUME NEW S, NEW a \in Seq(S), NEW b \in Seq(S), NEW c \in Seq(S),
         NEW d \in Seq(S), a \o b = c \o d,
         NEW k \in Nat, k <= Len(a), k <= Len(c)
  PROVE  /\ SubSeq(a, 1, k) = SubSeq(c, 1, k)
         /\ \A i \in 1 .. k : a[i] = c[i]
<1>1. PICK l \in Nat, m \in Nat : l = Len(a) /\ m = Len(c)
  OBVIOUS
<1>2. \A i \in 1 .. l : (a \o b)[i] = a[i]
  BY <1>1, ConcatFacts
<1>3. \A i \in 1 .. m : (c \o d)[i] = c[i]
  BY <1>1, ConcatFacts
<1>4. \A i \in 1 .. k : a[i] = c[i]
  BY <1>1, <1>2, <1>3
<1>5. /\ SubSeq(a, 1, k) \in Seq(S) /\ Len(SubSeq(a, 1, k)) = k
      /\ \A i \in 1 .. k : SubSeq(a, 1, k)[i] = a[i]
  BY SubSeqFacts
<1>6. /\ SubSeq(c, 1, k) \in Seq(S) /\ Len(SubSeq(c, 1, k)) = k
      /\ \A i \in 1 .. k : SubSeq(c, 1, k)[i] = c[i]
  BY SubSeqFacts
<1>7. SubSeq(a, 1, k) = SubSeq(c, 1, k)
  BY <1>4, <1>5, <1>6, SameSeq, Zenon
<1> QED BY <1>4, <1>7, Zenon

-----------------------------------------------------------------------------
(* Concatenation of many sequences *)

\* g holds what the first 0 .. n of some sequences make together.
Unrolled(seqs, n, g) ==
  g = [i \in 0 .. n |-> IF i = 0 THEN << >> ELSE g[i - 1] \o seqs[i]]

\* There is such a g: the recursive function exists.
LEMMA UnrolledExists ==
  ASSUME NEW seqs, NEW n \in Nat
  PROVE  \E g : Unrolled(seqs, n, g)
<1> DEFINE bad == {k \in Nat : ~\E g : Unrolled(seqs, k, g)}
<1>1. ASSUME bad # {} PROVE FALSE
  <2>1. PICK k \in bad : \A j \in bad : k <= j
    BY <1>1, LeastElement, Zenon
  <2>2. CASE k = 0
    <3> DEFINE g == [i \in 0 .. 0 |-> << >>]
    <3>1. Unrolled(seqs, 0, g)
      BY DEF Unrolled
    <3> QED BY <2>1, <2>2, <3>1, Zenon
  <2>3. CASE k # 0
    <3>1. k - 1 \in Nat /\ k - 1 \notin bad
      BY <2>1, <2>3
    <3>2. PICK g : Unrolled(seqs, k - 1, g)
      BY <3>1, Zenon
    <3> DEFINE h == [i \in 0 .. k |->
                       IF i = k THEN g[k - 1] \o seqs[k] ELSE g[i]]
    <3>3. ASSUME NEW i \in 0 .. k
          PROVE  h[i] = IF i = 0 THEN << >> ELSE h[i - 1] \o seqs[i]
      <4>1. CASE i = k
        <5>1. h[i] = g[k - 1] \o seqs[k]
          BY <4>1, Zenon
        <5>2. h[i - 1] = g[k - 1]
          BY <2>3, <3>1, <4>1
        <5> HIDE DEF h
        <5> QED BY <2>3, <4>1, <5>1, <5>2, Zenon
      <4>2. CASE i # k
        <5>1. i \in 0 .. k - 1 /\ (i # 0 => i - 1 \in 0 .. k - 1)
          BY <4>2
        <5>2. h[i] = g[i] /\ (i # 0 => h[i - 1] = g[i - 1])
          BY <4>2, <5>1
        <5>3. g[i] = IF i = 0 THEN << >> ELSE g[i - 1] \o seqs[i]
          BY <3>2, <5>1, Zenon DEF Unrolled
        <5> HIDE DEF h
        <5> QED BY <5>2, <5>3, Zenon
      <4> QED BY <4>1, <4>2, Zenon
    <3>4. Unrolled(seqs, k, h)
      BY <3>3, Zenon DEF Unrolled
    <3> QED BY <2>1, <3>4, Zenon
  <2> QED BY <2>2, <2>3, Zenon
<1> QED BY <1>1, Zenon

\* One of its values.
LEMMA UnrolledAt ==
  ASSUME NEW seqs, NEW n, NEW g, Unrolled(seqs, n, g), NEW k \in 0 .. n
  PROVE  g[k] = IF k = 0 THEN << >> ELSE g[k - 1] \o seqs[k]
BY Zenon DEF Unrolled

\* The same first elements.
SameUpTo(s, t, m) == \A i \in 1 .. m : s[i] = t[i]

\* Of sequences with the same first n elements, the first n make the same.
LEMMA UnrolledAgree ==
  ASSUME NEW s, NEW t, NEW n \in Nat, NEW m \in 0 .. n,
         SameUpTo(s, t, m),
         NEW g, Unrolled(s, n, g), NEW h, Unrolled(t, m, h)
  PROVE  g[m] = h[m]
<1> DEFINE bad == {k \in Nat : k <= m /\ g[k] # h[k]}
<1>1. ASSUME bad # {} PROVE FALSE
  <2>1. PICK k \in bad : \A j \in bad : k <= j
    BY <1>1, LeastElement, Zenon
  <2>2. /\ g[k] = IF k = 0 THEN << >> ELSE g[k - 1] \o s[k]
        /\ h[k] = IF k = 0 THEN << >> ELSE h[k - 1] \o t[k]
    <3>1. k \in 0 .. n /\ k \in 0 .. m
      BY <2>1
    <3> QED BY <3>1, UnrolledAt
  <2>3. k # 0
    BY <2>1, <2>2, Zenon
  <2>4. k - 1 \in Nat /\ k - 1 <= m /\ k - 1 \notin bad /\ k \in 1 .. m
    BY <2>1, <2>3
  <2>5. g[k - 1] = h[k - 1] /\ s[k] = t[k]
    BY <2>4, Zenon DEF SameUpTo
  <2> QED BY <2>1, <2>2, <2>3, <2>5, Zenon
<1> QED BY <1>1

\* The values are sequences over the set of their elements.
LEMMA UnrolledType ==
  ASSUME NEW S, NEW seqs, NEW n \in Nat,
         \A i \in 1 .. n : seqs[i] \in Seq(S), NEW g, Unrolled(seqs, n, g)
  PROVE  g[n] \in Seq(S)
<1> DEFINE bad == {k \in Nat : k <= n /\ g[k] \notin Seq(S)}
<1>1. ASSUME bad # {} PROVE FALSE
  <2>1. PICK k \in bad : \A j \in bad : k <= j
    BY <1>1, LeastElement, Zenon
  <2>2. g[k] = IF k = 0 THEN << >> ELSE g[k - 1] \o seqs[k]
    <3>1. k \in 0 .. n
      BY <2>1
    <3> QED BY <3>1, UnrolledAt
  <2>3. k # 0
    <3>1. << >> \in Seq(S)
      OBVIOUS
    <3> QED BY <2>1, <2>2, <3>1, Zenon
  <2>4. k - 1 \in Nat /\ k - 1 <= n /\ k - 1 \notin bad /\ k \in 1 .. n
    BY <2>1, <2>3
  <2>5. g[k - 1] \in Seq(S) /\ seqs[k] \in Seq(S)
    BY <2>4, Zenon
  <2>6. g[k - 1] \o seqs[k] \in Seq(S)
    BY <2>5, ConcatFacts, Zenon
  <2> QED BY <2>1, <2>2, <2>3, <2>6, Zenon
<1> QED BY <1>1
=============================================================================
