--------------------------- MODULE SequenceLemmas ---------------------------
(***************************************************************************)
(* Lemmas the proofs of several components rest on: least elements and     *)
(* induction over natural numbers, in a form that needs no operator        *)
(* parameter, division, what the recursive operators of the community      *)
(* modules compute for sequences of every length, and sequences that have  *)
(* the elements of a set in an order.                                      *)
(***************************************************************************)
EXTENDS Integers, Sequences, FiniteSets, SequencesExt, SequenceTheorems,
        FiniteSetTheorems, WellFoundedInduction, TLAPS

-----------------------------------------------------------------------------
(* Natural numbers. *)

\* A set of natural numbers has a least element.
LEMMA LeastNat ==
    ASSUME NEW S \in SUBSET Nat, S # {}
    PROVE \E n \in S : \A k \in S : n <= k
<1> DEFINE R == {ss \in Nat \X Nat : ss[1] < ss[2]}
<1>1. IsWellFoundedOn(OpToRel(<, Nat), Nat) BY NatLessThanWellFounded
<1>2. OpToRel(<, Nat) = R BY DEF OpToRel
<1>3. IsWellFoundedOn(R, Nat) BY <1>1, <1>2, Zenon
<1>4. \A k, n \in Nat : k < n => <<k, n>> \in R OBVIOUS
<1> HIDE DEF R
<1>5. \E n \in S : \A k \in S : <<k, n>> \notin R BY <1>3, WFMin, Zenon
<1>6. \A k, n \in Nat : ~(k < n) => n <= k OBVIOUS
<1> QED BY <1>4, <1>5, <1>6, Zenon

\* Induction up to a bound, for a property given as the set of the numbers that have it.
LEMMA InductionUpTo ==
    ASSUME NEW m \in Int, NEW n \in Int, m \in Nat, NEW S,
           m \in S, \A i \in m .. n - 1 : i \in S => i + 1 \in S
    PROVE m .. n \subseteq S
<1> DEFINE Missing == {i \in m .. n : i \notin S}
<1> SUFFICES ASSUME Missing # {} PROVE FALSE
  OBVIOUS
<1>1. Missing \in SUBSET Nat OBVIOUS
<1>2. PICK i \in Missing : \A k \in Missing : i <= k
  <2> HIDE DEF Missing
  <2> QED BY <1>1, LeastNat
<1>3. i - 1 \in m .. n - 1 /\ i - 1 \in S BY <1>2
<1> QED BY <1>2, <1>3

\* A set of the first numbers, given by a condition that holds for all numbers below
\* one it holds for, is known by its size.
LEMMA FirstNumbers ==
    ASSUME NEW m \in Nat, NEW S \in SUBSET (1 .. m),
           \A i, j \in 1 .. m : i <= j /\ j \in S => i \in S
    PROVE Cardinality(S) \in 0 .. m /\ S = 1 .. Cardinality(S)
<1>1. PICK c \in 0 .. m : S = 1 .. c
  <2>1. CASE S = 1 .. m BY <2>1
  <2>2. CASE S # 1 .. m
    <3> DEFINE Out == (1 .. m) \ S
    <3>1. Out \in SUBSET Nat /\ Out # {}
      <4>1. \E i \in 1 .. m : i \notin S BY <2>2
      <4> QED BY <4>1
    <3>2. PICK n \in Out : \A k \in Out : n <= k
      <4> HIDE DEF Out
      <4> QED BY <3>1, LeastNat
    <3>3. ASSUME NEW i \in 1 .. m PROVE i \in S <=> i \in 1 .. n - 1
      <4>1. n \in 1 .. m /\ n \notin S BY <3>2
      <4>2. i \in 1 .. n - 1 => i \in S BY <3>2, <4>1
      <4>3. n <= i => i \notin S BY <4>1
      <4> QED BY <4>1, <4>2, <4>3
    <3>4. 1 .. n - 1 \subseteq 1 .. m BY <3>2
    <3>5. S = 1 .. n - 1 BY <3>3, <3>4
    <3> QED BY <3>2, <3>5
  <2> QED BY <2>1, <2>2
<1>2. Cardinality(S) = c BY <1>1, FS_Interval
<1> QED BY <1>1, <1>2

\* Min and Max of the community modules.
LEMMA MinIs ==
    ASSUME NEW S \in SUBSET Int, NEW low \in Nat, S # {}, \A k \in S : low <= k
    PROVE Min(S) \in S /\ \A k \in S : Min(S) <= k
<1>1. S \in SUBSET Nat OBVIOUS
<1>2. PICK n \in S : \A k \in S : n <= k BY <1>1, LeastNat
<1> QED BY <1>2 DEF Min

LEMMA MinEquals ==
    ASSUME NEW S \in SUBSET Int, NEW n \in Int, n \in S, \A k \in S : n <= k
    PROVE Min(S) = n
<1>1. Min(S) \in S /\ \A k \in S : Min(S) <= k BY DEF Min
<1>2. Min(S) \in Int /\ Min(S) <= n /\ n <= Min(S) BY <1>1
<1> QED BY <1>2

LEMMA MaxIs ==
    ASSUME NEW S \in SUBSET Int, NEW high \in Int, S # {}, \A k \in S : k <= high
    PROVE Max(S) \in S /\ \A k \in S : k <= Max(S)
<1> DEFINE D == {n \in Nat : high - n \in S}
<1>1. D \in SUBSET Nat /\ D # {}
  <2>1. PICK k \in S : TRUE OBVIOUS
  <2>2. high - k \in Nat /\ high - (high - k) = k BY <2>1
  <2> QED BY <2>2
<1>2. PICK n \in D : \A k \in D : n <= k
  <2> HIDE DEF D
  <2> QED BY <1>1, LeastNat
<1>3. ASSUME NEW k \in S PROVE high - n >= k
  <2>1. high - k \in Nat /\ high - (high - k) = k OBVIOUS
  <2>2. n <= high - k BY <1>2, <2>1
  <2> QED BY <1>2, <2>1, <2>2
<1>4. high - n \in S BY <1>2
<1>5. Max(S) \in S /\ \A k \in S : Max(S) >= k BY <1>3, <1>4 DEF Max
<1> QED BY <1>5

LEMMA IntervalSize ==
    ASSUME NEW a \in Nat, NEW b \in Nat, a <= b
    PROVE Cardinality(a + 1 .. b) = b - a
<1>1. a + 1 \in Int /\ b \in Int OBVIOUS
<1>2. Cardinality(a + 1 .. b) = IF a + 1 > b THEN 0 ELSE b - (a + 1) + 1
  BY <1>1, FS_Interval
<1> QED BY <1>2

\* Different numbers up to n for the first m numbers: no more of these than of those.
LEMMA Pigeonhole ==
    ASSUME NEW m \in Nat, NEW n \in Nat, NEW f, \A i \in 1 .. m : f[i] \in 1 .. n,
           \A i, j \in 1 .. m : f[i] = f[j] => i = j
    PROVE m <= n
<1> DEFINE g == [i \in 1 .. m |-> f[i]]
           S == {g[i] : i \in 1 .. m}
<1>1. g \in [1 .. m -> S] OBVIOUS
<1>2. g \in Bijection(1 .. m, S)
  <2>1. \A i, j \in 1 .. m : g[i] = g[j] => i = j OBVIOUS
  <2>2. \A s \in S : \E i \in 1 .. m : g[i] = s OBVIOUS
  <2>3. DOMAIN g = 1 .. m OBVIOUS
  <2> HIDE DEF g, S
  <2> QED BY <1>1, <2>1, <2>2, <2>3 DEF Bijection, Injection, Surjection, IsInjective
<1>3. Cardinality(S) = m
  <2>1. ExistsBijection(1 .. m, S) BY <1>2 DEF ExistsBijection
  <2> HIDE DEF S
  <2> QED BY <2>1, FS_CountingElements
<1>4. S \subseteq 1 .. n OBVIOUS
<1>5. IsFiniteSet(1 .. n) /\ Cardinality(1 .. n) = n
  <2>1. 1 \in Int /\ n \in Int OBVIOUS
  <2>2. IsFiniteSet(1 .. n) /\ Cardinality(1 .. n) = IF 1 > n THEN 0 ELSE n - 1 + 1
    BY <2>1, FS_Interval
  <2> QED BY <2>2
<1>6. Cardinality(S) <= Cardinality(1 .. n)
  <2> HIDE DEF S
  <2> QED BY <1>4, <1>5, FS_Subset
<1> QED BY <1>3, <1>5, <1>6

-----------------------------------------------------------------------------
(* Division by a positive number. *)

\* What division by a positive number gives.
LEMMA DivMod == ASSUME NEW a \in Nat, NEW n \in Nat \ {0}
  PROVE /\ a \div n \in Nat /\ a % n \in 0 .. n-1 /\ a = n * (a \div n) + (a % n)
  OBVIOUS

\* Multiplying by a positive number spreads distinct integers by at least that number.
LEMMA MulMono == ASSUME NEW k \in Int, NEW l \in Int, NEW n \in Nat \ {0}, k < l
  PROVE n * k + n <= n * l
  OBVIOUS

\* The multiple of n next below a determines the quotient ...
LEMMA DivUnique == ASSUME NEW a \in Nat, NEW n \in Nat \ {0}, NEW q \in Int,
                          n * q <= a, a < n * q + n
   PROVE a \div n = q
<1> DEFINE p == a \div n
<1>1. p \in Nat /\ n * p <= a /\ a < n * p + n BY DivMod
<1>2. ~(p < q) BY <1>1, MulMono
<1>3. ~(q < p) BY <1>1, MulMono
<1> QED BY <1>1, <1>2, <1>3

\* ... and the remainder.
LEMMA ModUnique == ASSUME NEW a \in Nat, NEW n \in Nat \ {0}, NEW q \in Int,
                          n * q <= a, a < n * q + n
   PROVE a % n = a - n * q
<1> DEFINE r == a % n
<1> DEFINE p == a \div n
<1>1. p = q BY DivUnique
<1>2. r \in 0 .. n-1 /\ a = n * p + r BY DivMod
<1>3. n * q \in Int OBVIOUS
<1> HIDE DEF r, p
<1>4. r = a - n * q BY <1>1, <1>2, <1>3
<1> QED BY <1>4 DEF r

\* One n more is one more in the quotient.
LEMMA DivStep == ASSUME NEW a \in Nat, NEW n \in Nat \ {0}
   PROVE (a + n) \div n = (a \div n) + 1
<1> DEFINE p == a \div n
<1>1. p \in Nat /\ n * p <= a /\ a < n * p + n BY DivMod
<1> HIDE DEF p
<1>2. n * (p + 1) = n * p + n /\ n * p \in Nat BY <1>1
<1>3. a + n \in Nat /\ n * (p + 1) <= a + n /\ a + n < n * (p + 1) + n  BY <1>1, <1>2
<1>4. p + 1 \in Int BY <1>1
<1>5. (a + n) \div n = p + 1 BY <1>3, <1>4, DivUnique
<1> QED BY <1>5 DEF p

\* Less than n more: the remainder wraps at most once.
LEMMA ModAdd == ASSUME NEW a \in Nat, NEW n \in Nat \ {0}, NEW k \in 0 .. n-1
   PROVE (a + k) % n = IF (a % n) + k < n THEN (a % n) + k ELSE (a % n) + k - n
<1> DEFINE p == a \div n
<1> DEFINE r == a % n
<1>1. p \in Nat /\ a = n * p + r /\ r \in 0 .. n-1 BY DivMod
<1> HIDE DEF p, r
<1>2. n * (p + 1) = n * p + n /\ n * p \in Nat BY <1>1
<1>3. a + k \in Nat /\ p + 1 \in Int BY <1>1
<1>4. CASE r + k < n
   <2>1. n * p <= a + k /\ a + k < n * p + n BY <1>1, <1>2, <1>4
   <2>2. (a + k) % n = (a + k) - n * p BY <1>1, <1>3, <2>1, ModUnique
   <2>3. (a + k) % n = r + k BY <2>2, <1>1, <1>2
   <2> QED BY <2>3, <1>4 DEF r
<1>5. CASE ~(r + k < n)
   <2>1. n * (p + 1) <= a + k /\ a + k < n * (p + 1) + n BY <1>1, <1>2, <1>5
   <2>2. (a + k) % n = (a + k) - n * (p + 1) BY <1>1, <1>3, <2>1, ModUnique
   <2>3. (a + k) % n = r + k - n BY <2>2, <1>1, <1>2
   <2> QED BY <2>3, <1>5 DEF r
<1> QED BY <1>4, <1>5

\* One n more does not change the remainder.
LEMMA ModStep == ASSUME NEW a \in Nat, NEW n \in Nat \ {0}
   PROVE (a + n) % n = a % n
<1> DEFINE p == a \div n
<1> DEFINE r == a % n
<1>1. p \in Nat /\ a = n * p + r /\ r \in 0 .. n-1 BY DivMod
<1> HIDE DEF p, r
<1>2. n * (p + 1) = n * p + n /\ n * p \in Nat BY <1>1
<1>3. a + n \in Nat /\ p + 1 \in Int BY <1>1
<1>4. n * (p + 1) <= a + n /\ a + n < n * (p + 1) + n BY <1>1, <1>2
<1>5. (a + n) % n = (a + n) - n * (p+1) BY <1>3, <1>4, ModUnique
<1>6. (a + n) % n = r BY <1>5, <1>1, <1>2
<1> QED BY <1>6 DEF r

\* Comparing with a multiple of n is comparing the quotient.
LEMMA DivGe == ASSUME NEW a \in Nat, NEW n \in Nat \ {0}, NEW q \in Int
   PROVE (a >= n * q) <=> (a \div n >= q)
<1> DEFINE p == a \div n
<1>1. p \in Nat /\ n * p <= a /\ a < n * p + n BY DivMod
<1> HIDE DEF p
<1>2. p < q => n * p + n <= n * q BY <1>1, MulMono
<1>3. q < p => n * q + n <= n * p BY <1>1, MulMono
<1>4. n * p \in Int /\ n * q \in Int BY <1>1
<1>5. (a >= n * q) <=> (p >= q) BY <1>1, <1>2, <1>3, <1>4
<1> QED BY <1>5 DEF p

-----------------------------------------------------------------------------
(* FlattenSeq. *)

\* f[i] is what the first i sequences of s give together.
Joins(f, s, n) ==
    /\ f \in [1 .. n -> {f[i] : i \in 1 .. n}]
    /\ f[1] = s[1]
    /\ \A i \in 2 .. n : f[i] = f[i - 1] \o s[i]

LEMMA FlattenSeqIs ==
    ASSUME NEW s, NEW n \in Nat \ {0}, Len(s) = n, NEW f, Joins(f, s, n)
    PROVE FlattenSeq(s) = f[n]
<1>0. /\ f \in [1 .. n -> {f[i] : i \in 1 .. n}]
      /\ f[1] = s[1]
      /\ \A i \in 2 .. n : f[i] = f[i - 1] \o s[i]
  BY DEF Joins
<1> DEFINE Step(g, i) == IF i = 1 THEN s[i] ELSE g[i - 1] \o s[i]
           Unfolds(g) == g = [i \in 1 .. n |-> Step(g, i)]
           Same(g) == {i \in 1 .. n : g[i] = f[i]}
<1>1. Unfolds(f)
  <2>1. \A i \in 1 .. n : f[i] = Step(f, i)
    <3> TAKE i \in 1 .. n
    <3>1. CASE i = 1 BY <1>0, <3>1
    <3>2. CASE i # 1
      <4>1. i \in 2 .. n BY <3>2
      <4>2. f[i] = f[i - 1] \o s[i] BY <1>0, <4>1
      <4> QED BY <3>2, <4>2
    <3> QED BY <3>1, <3>2
  <2> HIDE DEF Step
  <2> QED BY <1>0, <2>1
<1>2. FlattenSeq(s) = (CHOOSE g : Unfolds(g))[n] BY DEF FlattenSeq
<1>3. PICK g : Unfolds(g) /\ FlattenSeq(s) = g[n]
  <2> HIDE DEF Unfolds
  <2> QED BY <1>1, <1>2
<1>4. \A i \in 1 .. n : g[i] = Step(g, i)
  <2> HIDE DEF Step
  <2> QED BY <1>3
<1>5. g[1] = f[1] BY <1>0, <1>4
<1>6. \A i \in 1 .. n - 1 : g[i] = f[i] => g[i + 1] = f[i + 1]
  <2> TAKE i \in 1 .. n - 1
  <2>1. i + 1 \in 2 .. n /\ i + 1 \in 1 .. n /\ (i + 1) - 1 = i OBVIOUS
  <2>2. g[i + 1] = g[i] \o s[i + 1]
    <3>1. g[i + 1] = Step(g, i + 1)
      <4> HIDE DEF Step
      <4> QED BY <1>4, <2>1
    <3>2. i + 1 # 1 OBVIOUS
    <3> QED BY <2>1, <3>1, <3>2
  <2>3. f[i + 1] = f[i] \o s[i + 1] BY <1>0, <2>1
  <2> QED BY <2>2, <2>3
<1>7. 1 \in Same(g) /\ \A i \in 1 .. n - 1 : i \in Same(g) => i + 1 \in Same(g)
  BY <1>5, <1>6
<1>8. 1 .. n \subseteq Same(g)
  <2> HIDE DEF Same
  <2> QED BY <1>7, InductionUpTo
<1>9. g[n] = f[n] BY <1>8
<1> HIDE DEF Unfolds
<1> QED BY <1>3, <1>9

LEMMA FlattenSeqEmpty == ASSUME NEW s, Len(s) = 0 PROVE FlattenSeq(s) = s
  BY DEF FlattenSeq

-----------------------------------------------------------------------------
(* Channels: sequences of whatever is sent, taken from the front. *)

IsSeq(s) == \E S : s \in Seq(S)

LEMMA IsSeqIs ==
    ASSUME NEW s, IsSeq(s)
    PROVE Len(s) \in Nat /\ DOMAIN s = 1 .. Len(s) /\ (s = << >> <=> Len(s) = 0)
<1>1. PICK S : s \in Seq(S) BY DEF IsSeq
<1> QED BY <1>1, EmptySeq

LEMMA IsSeqOf ==
    ASSUME NEW s, IsSeq(s)
    PROVE s \in Seq({s[i] : i \in DOMAIN s})
<1>1. PICK S : s \in Seq(S) BY DEF IsSeq
<1>2. Len(s) \in Nat /\ s \in [1 .. Len(s) -> S] BY <1>1
<1>3. s \in [1 .. Len(s) -> {s[i] : i \in DOMAIN s}] BY <1>2
<1> QED BY <1>2, <1>3

LEMMA EmptyIsSeq == IsSeq(<< >>) /\ Len(<< >>) = 0
<1>1. << >> \in Seq({}) BY EmptySeq
<1> QED BY <1>1, EmptySeq DEF IsSeq

LEMMA SingleIs == \A x : IsSeq(<<x>>) /\ Len(<<x>>) = 1 /\ DOMAIN <<x>> = 1 .. 1 /\ <<x>>[1] = x
<1> TAKE x
<1>1. <<x>> \in Seq({x}) OBVIOUS
<1>2. IsSeq(<<x>>) BY <1>1, Zenon DEF IsSeq
<1> QED BY <1>2

LEMMA AppendIs ==
    ASSUME NEW s, IsSeq(s), NEW e
    PROVE /\ IsSeq(Append(s, e))
          /\ Len(Append(s, e)) = Len(s) + 1
          /\ DOMAIN Append(s, e) = 1 .. Len(s) + 1
          /\ \A i \in DOMAIN s : Append(s, e)[i] = s[i]
          /\ Append(s, e)[Len(s) + 1] = e
<1> DEFINE T == {s[i] : i \in DOMAIN s} \cup {e}
<1>1. Len(s) \in Nat /\ DOMAIN s = 1 .. Len(s) BY IsSeqIs
<1>2. s \in [1 .. Len(s) -> T]
  <2>1. s \in Seq({s[i] : i \in DOMAIN s}) BY IsSeqOf
  <2>2. s \in [1 .. Len(s) -> {s[i] : i \in DOMAIN s}] BY <2>1
  <2> QED BY <2>2
<1>3. s \in Seq(T) /\ e \in T BY <1>1, <1>2
<1> HIDE DEF T
<1>4. Append(s, e) \in Seq(T) /\ Len(Append(s, e)) = Len(s) + 1
      /\ (\A i \in 1 .. Len(s) : Append(s, e)[i] = s[i]) /\ Append(s, e)[Len(s) + 1] = e
  BY <1>3, AppendProperties
<1>5. IsSeq(Append(s, e)) BY <1>4 DEF IsSeq
<1>6. DOMAIN Append(s, e) = 1 .. Len(s) + 1 BY <1>4, <1>5, IsSeqIs
<1> QED BY <1>1, <1>4, <1>5, <1>6

LEMMA TailIs ==
    ASSUME NEW s, IsSeq(s), s # << >>
    PROVE /\ Head(s) = s[1] /\ 1 \in DOMAIN s
          /\ IsSeq(Tail(s))
          /\ Len(Tail(s)) = Len(s) - 1
          /\ DOMAIN Tail(s) = 1 .. Len(s) - 1
          /\ \A i \in DOMAIN Tail(s) : i + 1 \in DOMAIN s /\ i + 1 # 1 /\ Tail(s)[i] = s[i + 1]
<1>1. Len(s) \in Nat /\ DOMAIN s = 1 .. Len(s) /\ Len(s) # 0 BY IsSeqIs
<1>2. PICK S : s \in Seq(S) BY DEF IsSeq
<1>3. Head(s) = s[1] /\ Tail(s) \in Seq(S) /\ Len(Tail(s)) = Len(s) - 1
      /\ \A i \in 1 .. Len(Tail(s)) : Tail(s)[i] = s[i + 1]
  BY <1>2, HeadTailProperties
<1>4. IsSeq(Tail(s)) BY <1>3 DEF IsSeq
<1>5. DOMAIN Tail(s) = 1 .. Len(s) - 1 BY <1>3, <1>4, IsSeqIs
<1> QED BY <1>1, <1>3, <1>4, <1>5

LEMMA ConcatIs ==
    ASSUME NEW s, IsSeq(s), NEW t, IsSeq(t), NEW c, c = s \o t
    PROVE /\ IsSeq(c)
          /\ Len(c) = Len(s) + Len(t)
          /\ DOMAIN c = 1 .. Len(s) + Len(t)
          /\ \A i \in DOMAIN s : c[i] = s[i]
          /\ \A i \in DOMAIN t : c[Len(s) + i] = t[i]
<1> DEFINE T == {s[i] : i \in DOMAIN s} \cup {t[i] : i \in DOMAIN t}
<1>1. Len(s) \in Nat /\ DOMAIN s = 1 .. Len(s) /\ Len(t) \in Nat /\ DOMAIN t = 1 .. Len(t)
  BY IsSeqIs
<1>2. s \in [1 .. Len(s) -> T] /\ t \in [1 .. Len(t) -> T]
  <2>1. s \in [1 .. Len(s) -> {s[i] : i \in DOMAIN s}]
    <3>1. s \in Seq({s[i] : i \in DOMAIN s}) BY IsSeqOf
    <3> QED BY <3>1
  <2>2. t \in [1 .. Len(t) -> {t[i] : i \in DOMAIN t}]
    <3>1. t \in Seq({t[i] : i \in DOMAIN t}) BY IsSeqOf
    <3> QED BY <3>1
  <2> QED BY <2>1, <2>2
<1> HIDE DEF T
<1>3. s \in Seq(T) /\ t \in Seq(T)
  <2>1. \A n \in Nat : \A f : f \in [1 .. n -> T] => f \in Seq(T) OBVIOUS
  <2> QED BY <1>1, <1>2, <2>1, Zenon
<1>4. c \in Seq(T) /\ Len(c) = Len(s) + Len(t)
      /\ \A i \in 1 .. Len(s) + Len(t) :
            c[i] = IF i <= Len(s) THEN s[i] ELSE t[i - Len(s)]
  BY <1>3, ConcatProperties
<1>5. IsSeq(c) BY <1>4 DEF IsSeq
<1>6. DOMAIN c = 1 .. Len(s) + Len(t) BY <1>4, <1>5, IsSeqIs
<1>7. \A i \in 1 .. Len(s) + Len(t) : c[i] = IF i <= Len(s) THEN s[i] ELSE t[i - Len(s)]
  BY <1>4
<1>8. \A i \in DOMAIN s : c[i] = s[i] BY <1>1, <1>7
<1>9. \A i \in DOMAIN t : c[Len(s) + i] = t[i]
  <2> SUFFICES ASSUME NEW i \in DOMAIN t PROVE c[Len(s) + i] = t[i] OBVIOUS
  <2>1. Len(s) + i \in 1 .. Len(s) + Len(t) /\ ~(Len(s) + i <= Len(s)) /\ Len(s) + i - Len(s) = i
    BY <1>1
  <2> QED BY <1>7, <2>1
<1> QED BY <1>4, <1>5, <1>6, <1>8, <1>9
\* A family of channels of at most N messages each, one for each element of D.
AreChannels(D, N, c) ==
    /\ c \in [D -> {c[t] : t \in D}]
    /\ \A t \in D : IsSeq(c[t]) /\ Len(c[t]) <= N

\* One of the channels has become s.
Changed(D, after, c, t, s) ==
    /\ after \in [D -> {after[u] : u \in D}]
    /\ after[t] = s /\ \A u \in D : u # t => after[u] = c[u]

\* What is in the channels after message e was put into that of t.
WithMessage(D, after, c, t, e) ==
    \A u \in D : \A i \in DOMAIN after[u] :
        \/ i \in DOMAIN c[u] /\ after[u][i] = c[u][i]
        \/ u = t /\ i = Len(c[t]) + 1 /\ after[u][i] = e

\* A message is put into one of the channels.
LEMMA ChannelPut ==
    ASSUME NEW D, NEW N \in Nat, NEW c, AreChannels(D, N, c), NEW t \in D, Len(c[t]) < N, NEW e,
           NEW after, Changed(D, after, c, t, Append(c[t], e))
    PROVE /\ AreChannels(D, N, after)
          /\ Len(c[t]) + 1 \in DOMAIN after[t] /\ after[t][Len(c[t]) + 1] = e
          /\ Len(c[t]) \in Nat /\ Len(c[t]) + 1 \notin DOMAIN c[t]
          /\ WithMessage(D, after, c, t, e)
<1>1. /\ IsSeq(Append(c[t], e)) /\ Len(Append(c[t], e)) = Len(c[t]) + 1
      /\ DOMAIN Append(c[t], e) = 1 .. Len(c[t]) + 1
      /\ \A i \in DOMAIN c[t] : Append(c[t], e)[i] = c[t][i]
      /\ Append(c[t], e)[Len(c[t]) + 1] = e
  BY AppendIs DEF AreChannels
<1>2. Len(c[t]) \in Nat /\ DOMAIN c[t] = 1 .. Len(c[t]) BY IsSeqIs DEF AreChannels
<1>3. /\ after[t] = Append(c[t], e) /\ \A u \in D : u # t => after[u] = c[u]
      /\ after \in [D -> {after[u] : u \in D}]
  BY DEF Changed
<1> DEFINE s == Append(c[t], e)
<1> HIDE DEF s
<1>4. Len(after[t]) <= N BY <1>1, <1>2, <1>3 DEF s
<1>5. AreChannels(D, N, after) BY <1>1, <1>3, <1>4 DEF AreChannels
<1>6. ASSUME NEW u \in D, NEW i \in DOMAIN after[u]
      PROVE \/ i \in DOMAIN c[u] /\ after[u][i] = c[u][i]
            \/ u = t /\ i = Len(c[t]) + 1 /\ after[u][i] = e
  <2>1. CASE u = t
    <3>1. i \in 1 .. Len(c[t]) + 1 BY <1>1, <1>3, <2>1
    <3>2. CASE i = Len(c[t]) + 1 BY <1>1, <1>3, <2>1, <3>2
    <3>3. CASE i # Len(c[t]) + 1
      <4>1. i \in DOMAIN c[t] BY <1>2, <3>1, <3>3
      <4> QED BY <1>1, <1>3, <2>1, <4>1
    <3> QED BY <3>2, <3>3
  <2>2. CASE u # t BY <1>3, <2>2
  <2> QED BY <2>1, <2>2
<1>7. Len(c[t]) + 1 \in DOMAIN after[t] /\ after[t][Len(c[t]) + 1] = e
  BY <1>1, <1>2, <1>3
<1>8. WithMessage(D, after, c, t, e) BY <1>6 DEF WithMessage
<1> QED BY <1>2, <1>5, <1>7, <1>8

\* What is left in the channels after the first message was taken from that of t.
WithoutFirst(D, after, c, t) ==
    \A u \in D : \A i \in DOMAIN after[u] :
        LET k == IF u = t THEN i + 1 ELSE i
        IN  k \in DOMAIN c[u] /\ after[u][i] = c[u][k] /\ ~(u = t /\ k = 1) /\ i \in Int

\* The first message of one of the channels is taken.
LEMMA ChannelTake ==
    ASSUME NEW D, NEW N \in Nat, NEW c, AreChannels(D, N, c), NEW t \in D, c[t] # << >>,
           NEW after, Changed(D, after, c, t, Tail(c[t]))
    PROVE /\ AreChannels(D, N, after)
          /\ 1 \in DOMAIN c[t] /\ Head(c[t]) = c[t][1]
          /\ WithoutFirst(D, after, c, t)
<1>1. /\ Head(c[t]) = c[t][1] /\ 1 \in DOMAIN c[t] /\ IsSeq(Tail(c[t]))
      /\ Len(Tail(c[t])) = Len(c[t]) - 1
      /\ DOMAIN Tail(c[t]) = 1 .. Len(c[t]) - 1
      /\ \A i \in DOMAIN Tail(c[t]) : i + 1 \in DOMAIN c[t] /\ i + 1 # 1 /\ Tail(c[t])[i] = c[t][i + 1]
  BY TailIs DEF AreChannels
<1>2. \A u \in D : Len(c[u]) \in Nat /\ DOMAIN c[u] = 1 .. Len(c[u]) /\ Len(c[u]) <= N
  BY IsSeqIs DEF AreChannels
<1>3. /\ after[t] = Tail(c[t]) /\ \A u \in D : u # t => after[u] = c[u]
      /\ after \in [D -> {after[u] : u \in D}]
  BY DEF Changed
<1>4. Len(after[t]) <= N
  <2>1. Len(c[t]) \in Nat /\ Len(c[t]) <= N /\ N \in Nat BY <1>2
  <2> QED BY <1>1, <1>3, <2>1
<1>5. AreChannels(D, N, after) BY <1>1, <1>3, <1>4 DEF AreChannels
<1>6. ASSUME NEW u \in D, NEW i \in DOMAIN after[u]
      PROVE LET k == IF u = t THEN i + 1 ELSE i
            IN  /\ k \in DOMAIN c[u] /\ after[u][i] = c[u][k] /\ ~(u = t /\ k = 1)
                /\ i \in Int
  <2>1. CASE u = t
    <3>1. i \in DOMAIN Tail(c[t]) BY <1>3, <2>1
    <3>2. i + 1 \in DOMAIN c[t] /\ i + 1 # 1 /\ Tail(c[t])[i] = c[t][i + 1] BY <1>1, <3>1
    <3>3. i \in Int BY <1>1, <3>1
    <3> QED BY <1>3, <2>1, <3>2, <3>3
  <2>2. CASE u # t
    <3>1. i \in DOMAIN c[u] /\ after[u][i] = c[u][i] BY <1>3, <2>2
    <3> QED BY <1>2, <2>2, <3>1
  <2> QED BY <2>1, <2>2
<1>7. WithoutFirst(D, after, c, t) BY <1>6 DEF WithoutFirst
<1> QED BY <1>1, <1>5, <1>7

-----------------------------------------------------------------------------
(* Where the sequences lie that FlattenSeq joins. *)

\* The i-th of the first n sequences of s follows after the first off[i - 1] elements of q.
LiesAt(q, s, off, n) ==
    /\ off \in [0 .. n -> Nat] /\ off[0] = 0
    /\ IsSeq(q) /\ Len(q) = off[n]
    /\ \A i \in 0 .. n : off[i] <= off[n]
    /\ \A i \in 1 .. n : /\ off[i] = off[i - 1] + Len(s[i])
                         /\ \A k \in 1 .. Len(s[i]) : q[off[i - 1] + k] = s[i][k]

LEMMA LiesAtFirst ==
    ASSUME NEW s, IsSeq(s[1])
    PROVE \E f, off : Joins(f, s, 1) /\ LiesAt(f[1], s, off, 1)
<1> DEFINE f == [i \in 1 .. 1 |-> s[1]]
           off == [i \in 0 .. 1 |-> IF i = 0 THEN 0 ELSE Len(s[1])]
<1>1. Joins(f, s, 1)
  <2>1. f[1] = s[1] /\ f \in [1 .. 1 -> {f[i] : i \in 1 .. 1}] OBVIOUS
  <2> HIDE DEF f
  <2> QED BY <2>1 DEF Joins
<1>2. Len(s[1]) \in Nat BY IsSeqIs
<1>3. off \in [0 .. 1 -> Nat] /\ off[0] = 0 /\ off[1] = Len(s[1]) BY <1>2
<1>4. LiesAt(s[1], s, off, 1)
  <2> HIDE DEF off
  <2> QED BY <1>2, <1>3 DEF LiesAt
<1>5. f[1] = s[1] OBVIOUS
<1> HIDE DEF f, off
<1> QED BY <1>1, <1>4, <1>5

LEMMA LiesAtNext ==
    ASSUME NEW s, NEW k \in Nat \ {0}, IsSeq(s[k + 1]),
           NEW f, Joins(f, s, k), NEW off, LiesAt(f[k], s, off, k)
    PROVE \E g, to : Joins(g, s, k + 1) /\ LiesAt(g[k + 1], s, to, k + 1)
<1> DEFINE g == [i \in 1 .. k + 1 |-> IF i = k + 1 THEN f[k] \o s[k + 1] ELSE f[i]]
           to == [i \in 0 .. k + 1 |-> IF i = k + 1 THEN off[k] + Len(s[k + 1]) ELSE off[i]]
           n == Len(s[k + 1])
<1>0. PICK a, b : a = f[k] /\ b = s[k + 1] OBVIOUS
<1>1. PICK q : q = a \o b OBVIOUS
<1>2. /\ f \in [1 .. k -> {f[i] : i \in 1 .. k}] /\ f[1] = s[1]
      /\ \A i \in 2 .. k : f[i] = f[i - 1] \o s[i]
  BY DEF Joins
<1>3. /\ off \in [0 .. k -> Nat] /\ off[0] = 0 /\ IsSeq(f[k]) /\ Len(f[k]) = off[k]
      /\ \A i \in 0 .. k : off[i] <= off[k]
      /\ \A i \in 1 .. k : /\ off[i] = off[i - 1] + Len(s[i])
                           /\ \A j \in 1 .. Len(s[i]) : f[k][off[i - 1] + j] = s[i][j]
  BY DEF LiesAt
<1>4. n \in Nat /\ DOMAIN s[k + 1] = 1 .. n BY IsSeqIs
<1>5. Len(f[k]) \in Nat /\ DOMAIN f[k] = 1 .. Len(f[k]) BY <1>3, IsSeqIs
<1>6. IsSeq(q) /\ Len(q) = off[k] + n
  <2>1. IsSeq(a) /\ IsSeq(b) BY <1>0, <1>3
  <2>2. IsSeq(q) BY <1>1, <2>1, ConcatIs
  <2>3. Len(q) = Len(a) + Len(b) BY <1>1, <2>1, ConcatIs
  <2> QED BY <1>0, <1>3, <2>2, <2>3
<1>7. \A i \in DOMAIN f[k] : q[i] = f[k][i]
  <2>1. IsSeq(a) /\ IsSeq(b) BY <1>0, <1>3
  <2>2. \A i \in DOMAIN a : q[i] = a[i] BY <1>1, <2>1, ConcatIs
  <2> QED BY <1>0, <2>2
<1>8. \A i \in DOMAIN s[k + 1] : q[Len(f[k]) + i] = s[k + 1][i]
  <2>1. IsSeq(a) /\ IsSeq(b) BY <1>0, <1>3
  <2>2. \A i \in DOMAIN b : q[Len(a) + i] = b[i] BY <1>1, <2>1, ConcatIs
  <2> QED BY <1>0, <2>2
<1>9. Joins(g, s, k + 1)
  <2>1. /\ g \in [1 .. k + 1 -> {g[i] : i \in 1 .. k + 1}] /\ g[k + 1] = a \o b
        /\ \A i \in 1 .. k : g[i] = f[i]
    <3>1. k + 1 \in 1 .. k + 1 /\ \A i \in 1 .. k : i \in 1 .. k + 1 /\ i # k + 1 OBVIOUS
    <3>2. g[k + 1] = a \o b BY <1>0, <3>1
    <3>3. \A i \in 1 .. k : g[i] = f[i] BY <3>1
    <3>4. g \in [1 .. k + 1 -> {g[i] : i \in 1 .. k + 1}] OBVIOUS
    <3> QED BY <3>2, <3>3, <3>4
  <2> HIDE DEF g
  <2>2. ASSUME NEW i \in 2 .. k + 1 PROVE g[i] = g[i - 1] \o s[i]
    <3>1. i - 1 \in 1 .. k /\ g[i - 1] = f[i - 1] BY <2>1
    <3>2. CASE i = k + 1
      <4>1. i - 1 = k BY <3>2
      <4>2. g[i - 1] = a BY <1>0, <3>1, <4>1
      <4>3. g[i] = a \o b /\ s[i] = b BY <1>0, <2>1, <3>2
      <4> QED BY <4>2, <4>3
    <3>3. CASE i # k + 1
      <4>1. i \in 2 .. k /\ i \in 1 .. k BY <3>3
      <4> QED BY <1>2, <2>1, <3>1, <4>1
    <3> QED BY <3>2, <3>3
  <2>3. g[1] = s[1]
    <3>1. 1 \in 1 .. k OBVIOUS
    <3> QED BY <1>2, <2>1, <3>1
  <2> QED BY <2>1, <2>2, <2>3 DEF Joins
<1>10. g[k + 1] = q
  <2>1. k + 1 \in 1 .. k + 1 OBVIOUS
  <2> QED BY <1>0, <1>1, <2>1
<1>11. /\ to \in [0 .. k + 1 -> Nat] /\ to[k + 1] = off[k] + n /\ off[k] \in Nat
       /\ \A i \in 0 .. k : to[i] = off[i] /\ off[i] \in Nat
  BY <1>3, <1>4
<1> HIDE DEF g, to, n
<1>12. \A i \in 0 .. k + 1 : to[i] <= to[k + 1]
  <2> TAKE i \in 0 .. k + 1
  <2>1. CASE i = k + 1 BY <1>4, <1>11, <2>1
  <2>2. CASE i # k + 1
    <3>1. i \in 0 .. k BY <2>2
    <3>2. to[i] = off[i] /\ off[i] <= off[k] /\ off[i] \in Nat BY <1>3, <1>11, <3>1
    <3> QED BY <1>4, <1>11, <3>2
  <2> QED BY <2>1, <2>2
<1>13. ASSUME NEW i \in 1 .. k + 1
       PROVE /\ to[i] = to[i - 1] + Len(s[i])
             /\ \A j \in 1 .. Len(s[i]) : q[to[i - 1] + j] = s[i][j]
  <2>1. i - 1 \in 0 .. k /\ to[i - 1] = off[i - 1] BY <1>11
  <2>2. CASE i = k + 1
    <3>1. to[i] = to[i - 1] + Len(s[i]) BY <1>11, <2>1, <2>2 DEF n
    <3>2. \A j \in 1 .. n : q[off[k] + j] = s[k + 1][j] BY <1>3, <1>4, <1>8
    <3> QED BY <2>1, <2>2, <3>1, <3>2 DEF n
  <2>3. CASE i # k + 1
    <3>1. i \in 1 .. k /\ i \in 0 .. k BY <2>3
    <3>2. /\ off[i] = off[i - 1] + Len(s[i]) /\ off[i] <= off[k]
          /\ \A j \in 1 .. Len(s[i]) : f[k][off[i - 1] + j] = s[i][j]
      BY <1>3, <3>1
    <3>3. off[i] \in Nat /\ off[i - 1] \in Nat /\ off[k] \in Nat BY <1>11, <2>1, <3>1
    <3>4. ASSUME NEW j \in 1 .. Len(s[i]) PROVE q[off[i - 1] + j] = s[i][j]
      <4>1. CASE Len(s[i]) \in Int
        <5>1. off[i - 1] + j \in 1 .. Len(f[k]) BY <1>3, <3>2, <3>3, <4>1
        <5> QED BY <1>5, <1>7, <3>2, <5>1
      <4>2. CASE Len(s[i]) \notin Int
        <5>1. Len(f[k]) = Len(f[k]) OBVIOUS
        <5> QED BY <3>2, <3>3, <4>2
      <4> QED BY <4>1, <4>2
    <3> QED BY <1>11, <2>1, <3>1, <3>2, <3>4
  <2> QED BY <2>2, <2>3
<1>14. to[0] = 0 BY <1>3, <1>11
<1>15. LiesAt(q, s, to, k + 1) BY <1>6, <1>11, <1>12, <1>13, <1>14 DEF LiesAt, n
<1> QED BY <1>9, <1>10, <1>15

LEMMA FlattenSeqParts ==
    ASSUME NEW s, NEW n \in Nat, Len(s) = n, n = 0 => s = << >>,
           \A i \in 1 .. n : IsSeq(s[i])
    PROVE \E off : LiesAt(FlattenSeq(s), s, off, n)
<1>1. CASE n = 0
  <2>1. FlattenSeq(s) = << >> BY <1>1, FlattenSeqEmpty
  <2> DEFINE off == [i \in 0 .. 0 |-> 0]
  <2>2. off \in [0 .. 0 -> Nat] /\ off[0] = 0 OBVIOUS
  <2> HIDE DEF off
  <2>3. LiesAt(<< >>, s, off, 0) BY <2>2, EmptyIsSeq DEF LiesAt
  <2> QED BY <1>1, <2>1, <2>3
<1>2. CASE n # 0
  <2> DEFINE S == {k \in 1 .. n : \E f, off : Joins(f, s, k) /\ LiesAt(f[k], s, off, k)}
  <2>1. 1 \in S
    <3>1. IsSeq(s[1]) BY <1>2
    <3> QED BY <1>2, <3>1, LiesAtFirst
  <2>2. ASSUME NEW k \in 1 .. n - 1, k \in S PROVE k + 1 \in S
    <3>1. PICK f, off : Joins(f, s, k) /\ LiesAt(f[k], s, off, k) BY <2>2
    <3>2. k \in Nat \ {0} /\ k + 1 \in 1 .. n BY <1>2
    <3>3. IsSeq(s[k + 1]) BY <3>2
    <3>4. \E g, to : Joins(g, s, k + 1) /\ LiesAt(g[k + 1], s, to, k + 1)
      BY <3>1, <3>2, <3>3, LiesAtNext
    <3> QED BY <3>2, <3>4
  <2>3. 1 .. n \subseteq S
    <3> HIDE DEF S
    <3> QED BY <2>1, <2>2, InductionUpTo
  <2>4. n \in S
    <3> HIDE DEF S
    <3> QED BY <1>2, <2>3
  <2>5. PICK f, off : Joins(f, s, n) /\ LiesAt(f[n], s, off, n) BY <2>4
  <2>6. FlattenSeq(s) = f[n] BY <1>2, <2>5, FlattenSeqIs
  <2> QED BY <2>5, <2>6
<1> QED BY <1>1, <1>2

LEMMA JoinsExist ==
    ASSUME NEW s, NEW n \in Nat \ {0}, \A i \in 1 .. n : IsSeq(s[i])
    PROVE \E f : Joins(f, s, n)
<1> DEFINE S == {k \in 1 .. n : \E f, off : Joins(f, s, k) /\ LiesAt(f[k], s, off, k)}
<1>1. 1 \in S
  <2>1. IsSeq(s[1]) OBVIOUS
  <2> QED BY <2>1, LiesAtFirst
<1>2. ASSUME NEW k \in 1 .. n - 1, k \in S PROVE k + 1 \in S
  <2>1. PICK f, off : Joins(f, s, k) /\ LiesAt(f[k], s, off, k) BY <1>2
  <2>2. k \in Nat \ {0} /\ k + 1 \in 1 .. n OBVIOUS
  <2>3. IsSeq(s[k + 1]) BY <2>2
  <2> QED BY <2>1, <2>2, <2>3, LiesAtNext
<1>3. 1 .. n \subseteq S
  <2> HIDE DEF S
  <2> QED BY <1>1, <1>2, InductionUpTo
<1>4. n \in 1 .. n OBVIOUS
<1> QED BY <1>3, <1>4

\* One sequence more at the end.
LEMMA FlattenSeqAppend ==
    ASSUME NEW s, IsSeq(s), \A i \in DOMAIN s : IsSeq(s[i]), NEW e, IsSeq(e)
    PROVE FlattenSeq(Append(s, e)) = FlattenSeq(s) \o e
<1>1. PICK n : n = Len(s) OBVIOUS
<1>2. PICK t : t = Append(s, e) OBVIOUS
<1>3. n \in Nat /\ DOMAIN s = 1 .. n /\ (n = 0 => s = << >>) BY <1>1, IsSeqIs
<1>4. IsSeq(t) /\ Len(t) = n + 1 /\ t[n + 1] = e /\ \A i \in 1 .. n : t[i] = s[i]
  BY <1>1, <1>2, <1>3, AppendIs
<1>5. ASSUME NEW i \in 1 .. n + 1 PROVE IsSeq(t[i])
  <2>1. i \in 1 .. n \/ i = n + 1 BY <1>3
  <2> QED BY <1>3, <1>4, <2>1
<1>6. n + 1 \in Nat \ {0} BY <1>3
<1>7. PICK f : Joins(f, t, n + 1) BY <1>5, <1>6, JoinsExist
<1>8. FlattenSeq(t) = f[n + 1] BY <1>4, <1>6, <1>7, FlattenSeqIs
<1>9. CASE n = 0
  <2>1. f[n + 1] = e BY <1>4, <1>7, <1>9 DEF Joins
  <2>2. FlattenSeq(s) = << >> BY <1>1, <1>3, <1>9, FlattenSeqEmpty
  <2>3. << >> \o e = e BY ConcatEmptySeq DEF IsSeq
  <2> QED BY <1>2, <1>8, <2>1, <2>2, <2>3
<1>10. CASE n # 0
  <2> DEFINE g == [i \in 1 .. n |-> f[i]]
  <2>1. n \in 1 .. n /\ 1 \in 1 .. n /\ n + 1 \in 2 .. n + 1 /\ (n + 1) - 1 = n BY <1>3, <1>10
  <2>2. f[n + 1] = f[n] \o t[n + 1] BY <1>7, <2>1 DEF Joins
  <2>3. Joins(g, s, n)
    <3>1. g \in [1 .. n -> {g[i] : i \in 1 .. n}] OBVIOUS
    <3>2. g[1] = s[1] BY <1>4, <1>7, <2>1 DEF Joins
    <3>3. ASSUME NEW i \in 2 .. n PROVE g[i] = g[i - 1] \o s[i]
      <4>1. i \in 2 .. n + 1 /\ i \in 1 .. n /\ i - 1 \in 1 .. n BY <1>3
      <4>2. f[i] = f[i - 1] \o t[i] BY <1>7, <4>1 DEF Joins
      <4> QED BY <1>4, <4>1, <4>2
    <3> HIDE DEF g
    <3> QED BY <3>1, <3>2, <3>3 DEF Joins
  <2>4. g[n] = f[n] BY <2>1
  <2>5. FlattenSeq(s) = g[n]
    <3>1. n \in Nat \ {0} BY <1>3, <1>10
    <3> HIDE DEF g
    <3> QED BY <1>1, <2>3, <3>1, FlattenSeqIs
  <2> QED BY <1>2, <1>4, <1>8, <2>2, <2>4, <2>5
<1> QED BY <1>9, <1>10

-----------------------------------------------------------------------------
(* Sequences that list the elements of a set, each once. *)

Lists(s, S) == IsSeq(s) /\ S = {s[i] : i \in DOMAIN s} /\ \A i, j \in DOMAIN s : s[i] = s[j] => i = j

LEMMA ListsNone == Lists(<< >>, {})
<1>1. IsSeq(<< >>) /\ DOMAIN << >> = 1 .. 0 BY EmptyIsSeq, IsSeqIs
<1>2. DOMAIN << >> = {} BY <1>1
<1> QED BY <1>1, <1>2 DEF Lists

LEMMA ListsBoth ==
    ASSUME NEW s, NEW S, Lists(s, S), NEW t, NEW T, Lists(t, T), S \cap T = {}
    PROVE Lists(s \o t, S \cup T)
<1>1. PICK c : c = s \o t OBVIOUS
<1>2. PICK m : m = Len(s) OBVIOUS
<1>3. PICK n : n = Len(t) OBVIOUS
<1>4. m \in Nat /\ n \in Nat /\ DOMAIN s = 1 .. m /\ DOMAIN t = 1 .. n
  BY <1>2, <1>3, IsSeqIs DEF Lists
<1>5. /\ IsSeq(c) /\ DOMAIN c = 1 .. m + n
      /\ (\A i \in 1 .. m : c[i] = s[i]) /\ \A i \in 1 .. n : c[m + i] = t[i]
  <2>1. IsSeq(s) /\ IsSeq(t) BY DEF Lists
  <2>2. IsSeq(c) BY <1>1, <2>1, ConcatIs
  <2>3. DOMAIN c = 1 .. Len(s) + Len(t) BY <1>1, <2>1, ConcatIs
  <2>4. \A i \in DOMAIN s : c[i] = s[i] BY <1>1, <2>1, ConcatIs
  <2>5. \A i \in DOMAIN t : c[Len(s) + i] = t[i] BY <1>1, <2>1, ConcatIs
  <2> QED BY <1>2, <1>3, <1>4, <2>2, <2>3, <2>4, <2>5
<1>6. ASSUME NEW i \in 1 .. m + n
      PROVE \/ i \in 1 .. m /\ c[i] = s[i] /\ c[i] \in S
            \/ i - m \in 1 .. n /\ c[i] = t[i - m] /\ c[i] \in T
  <2>1. CASE i <= m
    <3>1. i \in 1 .. m BY <1>4, <2>1
    <3> QED BY <1>4, <1>5, <3>1 DEF Lists
  <2>2. CASE ~(i <= m)
    <3>1. i - m \in 1 .. n /\ m + (i - m) = i BY <1>4, <2>2
    <3>2. c[i] = t[i - m] BY <1>5, <3>1
    <3> QED BY <1>4, <3>1, <3>2 DEF Lists
  <2> QED BY <2>1, <2>2
<1>7. S \cup T = {c[i] : i \in DOMAIN c}
  <2>1. ASSUME NEW x \in S PROVE \E i \in 1 .. m + n : c[i] = x
    <3>1. PICK i \in 1 .. m : s[i] = x BY <1>4 DEF Lists
    <3>2. i \in 1 .. m + n BY <1>4
    <3> QED BY <1>5, <3>1, <3>2
  <2>2. ASSUME NEW x \in T PROVE \E i \in 1 .. m + n : c[i] = x
    <3>1. PICK i \in 1 .. n : t[i] = x BY <1>4 DEF Lists
    <3>2. m + i \in 1 .. m + n BY <1>4
    <3> QED BY <1>5, <3>1, <3>2
  <2>3. \A i \in 1 .. m + n : c[i] \in S \cup T BY <1>6
  <2> QED BY <1>5, <2>1, <2>2, <2>3
<1>8. ASSUME NEW i \in 1 .. m + n, NEW j \in 1 .. m + n, c[i] = c[j] PROVE i = j
  <2>1. CASE i \in 1 .. m /\ c[i] = s[i] /\ c[i] \in S
    <3>1. j \in 1 .. m /\ c[j] = s[j] BY <1>6, <1>8, <2>1
    <3> QED BY <1>4, <1>8, <2>1, <3>1 DEF Lists
  <2>2. CASE i - m \in 1 .. n /\ c[i] = t[i - m] /\ c[i] \in T
    <3>1. j - m \in 1 .. n /\ c[j] = t[j - m] BY <1>6, <1>8, <2>2
    <3>2. i - m = j - m BY <1>4, <1>8, <2>2, <3>1 DEF Lists
    <3> QED BY <1>4, <3>2
  <2> QED BY <1>6, <2>1, <2>2
<1>9. Lists(c, S \cup T)
  <2>1. \A i, j \in DOMAIN c : c[i] = c[j] => i = j BY <1>5, <1>8
  <2> QED BY <1>5, <1>7, <2>1 DEF Lists
<1> QED BY <1>1, <1>9

LEMMA ListsOneMore ==
    ASSUME NEW s, NEW S, Lists(s, S), NEW x, x \notin S
    PROVE Lists(Append(s, x), S \cup {x})
<1>1. PICK n : n = Len(s) OBVIOUS
<1>2. n \in Nat /\ DOMAIN s = 1 .. n BY <1>1, IsSeqIs DEF Lists
<1>3. PICK c : c = Append(s, x) OBVIOUS
<1>4. /\ IsSeq(c) /\ DOMAIN c = 1 .. n + 1 /\ c[n + 1] = x
      /\ \A i \in 1 .. n : c[i] = s[i]
  BY <1>1, <1>2, <1>3, AppendIs DEF Lists
<1>5. \A i \in 1 .. n + 1 : i \in 1 .. n \/ i = n + 1 BY <1>2
<1>6. \A i \in 1 .. n : i \in 1 .. n + 1 /\ s[i] \in S BY <1>2 DEF Lists
<1>7. n + 1 \in 1 .. n + 1 BY <1>2
<1>8. S \cup {x} = {c[i] : i \in DOMAIN c} BY <1>2, <1>4, <1>5, <1>6, <1>7 DEF Lists
<1>9. \A i, j \in DOMAIN c : c[i] = c[j] => i = j BY <1>2, <1>4, <1>5, <1>6 DEF Lists
<1>10. Lists(c, S \cup {x}) BY <1>4, <1>8, <1>9 DEF Lists
<1> QED BY <1>3, <1>10

-----------------------------------------------------------------------------
(* The elements of a set in an order. *)

\* Numbers key and, where those are equal, num put the elements of a set in an order.
Before(key, num, x, y) == key[x] < key[y] \/ (key[x] = key[y] /\ num[x] < num[y])

\* The sequence s has the elements of S in that order.
InOrderOf(s, S, key, num) ==
    /\ s \in [1 .. Cardinality(S) -> S]
    /\ \A i, j \in 1 .. Cardinality(S) : i < j => Before(key, num, s[i], s[j])

LEMMA FirstInOrder ==
    ASSUME NEW S, NEW key \in [S -> Nat], NEW num \in [S -> Nat],
           \A x, y \in S : num[x] = num[y] => x = y,
           NEW T \in SUBSET S, T # {}
    PROVE \E x \in T : \A y \in T : y # x => Before(key, num, x, y)
<1> DEFINE Keys == {key[x] : x \in T}
<1>1. PICK k \in Keys : \A l \in Keys : k <= l
  <2>1. Keys \in SUBSET Nat /\ Keys # {} OBVIOUS
  <2> HIDE DEF Keys
  <2> QED BY <2>1, LeastNat
<1> DEFINE Nums == {num[x] : x \in {y \in T : key[y] = k}}
<1>2. PICK n \in Nums : \A l \in Nums : n <= l
  <2>1. Nums \in SUBSET Nat /\ Nums # {} OBVIOUS
  <2> HIDE DEF Nums
  <2> QED BY <2>1, LeastNat
<1>3. PICK x \in T : key[x] = k /\ num[x] = n BY <1>2
<1>4. ASSUME NEW y \in T, y # x PROVE Before(key, num, x, y)
  <2>1. key[y] \in Nat /\ num[y] \in Nat /\ num[x] \in Nat /\ key[x] \in Nat /\ num[x] # num[y] BY <1>4
  <2>2. k <= key[y] BY <1>1
  <2>3. key[y] = k => n <= num[y] BY <1>2
  <2> QED BY <1>3, <2>1, <2>2, <2>3 DEF Before
<1> QED BY <1>4

LEMMA OrderExists ==
    ASSUME NEW S, IsFiniteSet(S), NEW key \in [S -> Nat], NEW num \in [S -> Nat],
           \A x, y \in S : num[x] = num[y] => x = y
    PROVE \E s : InOrderOf(s, S, key, num)
<1> DEFINE N == {n \in Nat : \A T \in SUBSET S : Cardinality(T) = n => \E s : InOrderOf(s, T, key, num)}
           m == Cardinality(S)
<1>1. m \in Nat BY FS_CardinalityType
<1>2. \A T \in SUBSET S : IsFiniteSet(T) BY FS_Subset
<1>3. 0 \in N
  <2> SUFFICES ASSUME NEW T \in SUBSET S, Cardinality(T) = 0 PROVE \E s : InOrderOf(s, T, key, num)
    OBVIOUS
  <2>1. 1 .. 0 = {} OBVIOUS
  <2>2. [x \in {} |-> x] \in [{} -> T] OBVIOUS
  <2>3. InOrderOf([x \in {} |-> x], T, key, num) BY <2>1, <2>2 DEF InOrderOf
  <2> QED BY <2>3
<1>4. ASSUME NEW n \in 0 .. m - 1, n \in N PROVE n + 1 \in N
  <2> SUFFICES ASSUME NEW T \in SUBSET S, Cardinality(T) = n + 1
               PROVE \E s : InOrderOf(s, T, key, num)
    BY <1>1
  <2>1. n \in Nat /\ IsFiniteSet(T) BY <1>1, <1>2
  <2>2. T # {} BY <2>1, FS_EmptySet
  <2>3. PICK x \in T : \A y \in T : y # x => Before(key, num, x, y) BY <2>2, FirstInOrder
  <2>4. T \ {x} \in SUBSET S /\ Cardinality(T \ {x}) = n
    <3>1. Cardinality(T \ {x}) = Cardinality(T) - 1 BY <2>1, FS_RemoveElement
    <3> QED BY <2>1, <3>1
  <2>5. PICK s : InOrderOf(s, T \ {x}, key, num) BY <1>4, <2>4
  <2>6. s \in [1 .. n -> T \ {x}] /\ \A i, j \in 1 .. n : i < j => Before(key, num, s[i], s[j])
    BY <2>4, <2>5 DEF InOrderOf
  <2> DEFINE t == [i \in 1 .. n + 1 |-> IF i = 1 THEN x ELSE s[i - 1]]
  <2>7. \A i \in 1 .. n + 1 : i = 1 \/ i - 1 \in 1 .. n BY <2>1
  <2>8. t \in [1 .. n + 1 -> T] BY <2>6, <2>7
  <2>9. ASSUME NEW i \in 1 .. n + 1, NEW j \in 1 .. n + 1, i < j PROVE Before(key, num, t[i], t[j])
    <3>1. j # 1 /\ j - 1 \in 1 .. n /\ t[j] = s[j - 1] BY <2>1, <2>7, <2>9
    <3>2. CASE i = 1
      <4>1. t[i] = x /\ t[j] \in T /\ t[j] # x BY <2>6, <3>1, <3>2
      <4> HIDE DEF t
      <4> QED BY <2>3, <4>1
    <3>3. CASE i # 1
      <4>1. i - 1 \in 1 .. n /\ t[i] = s[i - 1] /\ i - 1 < j - 1 BY <2>1, <2>7, <2>9, <3>3
      <4> HIDE DEF t
      <4> QED BY <2>6, <3>1, <4>1
    <3> QED BY <3>2, <3>3
  <2>10. InOrderOf(t, T, key, num)
    <3> HIDE DEF t
    <3> QED BY <2>8, <2>9 DEF InOrderOf
  <2> HIDE DEF t
  <2> QED BY <2>10
<1>5. 0 .. m \subseteq N
  <2>1. 0 \in Int /\ 0 \in Nat /\ m \in Int BY <1>1
  <2> HIDE DEF N, m
  <2> QED BY <1>3, <1>4, <2>1, InductionUpTo
<1>6. m \in N
  <2> HIDE DEF N
  <2> QED BY <1>1, <1>5
<1> QED BY <1>6

\* A sequence in that order lists the elements of the set.
LEMMA OrderLists ==
    ASSUME NEW S, IsFiniteSet(S), NEW key \in [S -> Nat], NEW num \in [S -> Nat],
           NEW s, InOrderOf(s, S, key, num)
    PROVE Lists(s, S) /\ Len(s) = Cardinality(S)
<1> DEFINE n == Cardinality(S)
<1>1. n \in Nat BY FS_CardinalityType
<1>2. s \in [1 .. n -> S] /\ \A i, j \in 1 .. n : i < j => Before(key, num, s[i], s[j])
  BY DEF InOrderOf
<1> HIDE DEF n
<1>3. ASSUME NEW i \in 1 .. n, NEW j \in 1 .. n, s[i] = s[j] PROVE i = j
  <2>1. ASSUME NEW k \in 1 .. n, NEW l \in 1 .. n, k < l, s[k] = s[l] PROVE FALSE
    <3>1. s[k] \in S BY <1>2
    <3>2. Before(key, num, s[k], s[k]) BY <1>2, <2>1
    <3>3. key[s[k]] \in Nat /\ num[s[k]] \in Nat BY <3>1
    <3> QED BY <3>2, <3>3 DEF Before
  <2>2. ~(i < j) /\ ~(j < i) BY <1>3, <2>1
  <2> QED BY <2>2
<1>4. s \in Seq(S) /\ Len(s) = n /\ DOMAIN s = 1 .. n BY <1>1, <1>2
<1>5. s \in Surjection(1 .. n, S)
  <2>1. s \in Injection(1 .. n, S) BY <1>2, <1>3 DEF Injection, IsInjective
  <2>2. Cardinality(1 .. n) = n
    <3>1. 1 \in Int /\ n \in Int BY <1>1
    <3>2. Cardinality(1 .. n) = IF 1 > n THEN 0 ELSE n - 1 + 1 BY <3>1, FS_Interval
    <3> QED BY <1>1, <3>2
  <2> QED BY <2>1, <2>2, FS_Injection DEF n
<1>6. S = {s[i] : i \in 1 .. n} BY <1>2, <1>5 DEF Surjection
<1>7. Lists(s, S)
  <2>1. IsSeq(s) BY <1>4 DEF IsSeq
  <2> QED BY <1>3, <1>4, <1>6, <2>1 DEF Lists
<1> QED BY <1>4, <1>7 DEF n

\* A finite set of numbers has a largest one.
LEMMA LargestIs ==
    ASSUME NEW T \in SUBSET Nat, IsFiniteSet(T), T # {}
    PROVE Max(T) \in T /\ \A k \in T : k <= Max(T)
<1> DEFINE id == [x \in T |-> x]
<1>1. id \in [T -> Nat] /\ \A x, y \in T : id[x] = id[y] => x = y OBVIOUS
<1>2. PICK s : InOrderOf(s, T, id, id)
  <2> HIDE DEF id
  <2> QED BY <1>1, OrderExists
<1>3. Lists(s, T) /\ Len(s) = Cardinality(T)
  <2> HIDE DEF id
  <2> QED BY <1>1, <1>2, OrderLists
<1>4. PICK n : n = Cardinality(T) OBVIOUS
<1>5. n \in Nat /\ s \in [1 .. n -> T] /\ \A i, j \in 1 .. n : i < j => Before(id, id, s[i], s[j])
  <2>1. n \in Nat BY <1>4, FS_CardinalityType
  <2> HIDE DEF id
  <2> QED BY <1>2, <1>4, <2>1 DEF InOrderOf
<1>6. T = {s[i] : i \in 1 .. n} BY <1>3, <1>5 DEF Lists
<1>7. n \in 1 .. n BY <1>5, <1>6
<1>8. ASSUME NEW k \in T PROVE k <= s[n]
  <2>1. PICK i \in 1 .. n : k = s[i] BY <1>6
  <2>2. CASE i = n
    <3>1. s[n] \in T /\ s[n] = k BY <2>1, <2>2
    <3>2. PICK x \in T : x = s[n] BY <3>1
    <3> QED BY <3>1, <3>2
  <2>3. CASE i < n
    <3>1. Before(id, id, s[i], s[n]) BY <1>5, <1>7, <2>3
    <3>2. PICK x \in T, y \in T : x = s[i] /\ y = s[n] BY <1>5, <1>7
    <3>3. id[x] = x /\ id[y] = y OBVIOUS
    <3>4. x < y \/ x = y BY <3>1, <3>2, <3>3 DEF Before
    <3>5. x \in Nat /\ y \in Nat OBVIOUS
    <3>6. x <= y BY <3>4, <3>5
    <3> QED BY <2>1, <3>2, <3>6
  <2> QED BY <1>5, <2>2, <2>3
<1>9. PICK high : high = s[n] OBVIOUS
<1>10. high \in T /\ T \in SUBSET Int BY <1>5, <1>7, <1>9
<1>11. high \in Int BY <1>10
<1>12. \A k \in T : k <= high BY <1>8, <1>9
<1> HIDE DEF id
<1> QED BY <1>10, <1>11, <1>12, MaxIs

-----------------------------------------------------------------------------
(* Functions that are defined by recursion over the numbers up to a bound. *)

\* The values of a loop of n rounds from a, whose k-th round makes step[k][x] of x.
IsLoop(g, n, P, a, step) ==
    g \in [0 .. n -> P] /\ g[0] = a /\ \A k \in 1 .. n : g[k] = step[k][g[k - 1]]

LEMMA RecursionExists ==
    ASSUME NEW n \in Nat, NEW P, NEW a \in P, NEW step \in [1 .. n -> [P -> P]]
    PROVE \E g : IsLoop(g, n, P, a, step)
<1> DEFINE Runs(g, m) == IsLoop(g, m, P, a, step)
           Exist == {m \in 0 .. n : \E g : Runs(g, m)}
<1>1. 0 \in Exist
  <2>1. Runs([k \in 0 .. 0 |-> a], 0) BY DEF IsLoop
  <2> HIDE DEF Runs
  <2> QED BY <2>1
<1>2. ASSUME NEW m \in 0 .. n - 1, m \in Exist PROVE m + 1 \in Exist
  <2>1. PICK g : Runs(g, m) BY <1>2
  <2>2. PICK y \in P : y = step[m + 1][g[m]]
    <3>1. m + 1 \in 1 .. n /\ g[m] \in P BY <2>1 DEF IsLoop
    <3> QED BY <3>1
  <2>3. PICK h : h = [k \in 0 .. m + 1 |-> IF k = m + 1 THEN y ELSE g[k]] OBVIOUS
  <2>4. h \in [0 .. m + 1 -> P] BY <2>1, <2>3 DEF IsLoop
  <2>5. h[0] = a /\ (\A k \in 0 .. m : h[k] = g[k]) /\ h[m + 1] = y BY <2>1, <2>3 DEF IsLoop
  <2>6. ASSUME NEW k \in 1 .. m + 1 PROVE h[k] = step[k][h[k - 1]]
    <3>1. CASE k = m + 1
      <4>1. k - 1 = m /\ m \in 0 .. m BY <3>1
      <4> QED BY <2>2, <2>5, <3>1, <4>1
    <3>2. CASE k # m + 1
      <4>1. k \in 1 .. m /\ k \in 0 .. m /\ k - 1 \in 0 .. m BY <3>2
      <4> QED BY <2>1, <2>5, <4>1 DEF IsLoop
    <3> QED BY <3>1, <3>2
  <2>7. Runs(h, m + 1) BY <2>4, <2>5, <2>6 DEF IsLoop
  <2>8. m + 1 \in 0 .. n OBVIOUS
  <2> HIDE DEF Runs
  <2> QED BY <2>7, <2>8
<1>3. n \in Exist
  <2>1. 0 \in Int /\ 0 \in Nat /\ n \in Int /\ n \in 0 .. n OBVIOUS
  <2>2. PICK T : T = Exist OBVIOUS
  <2> HIDE DEF Exist
  <2>3. 0 .. n \subseteq T BY <1>1, <1>2, <2>1, <2>2, InductionUpTo
  <2> QED BY <2>1, <2>2, <2>3
<1> QED BY <1>3
=============================================================================
