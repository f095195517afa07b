--------------------- MODULE HostBandwidthHandlerProofs ---------------------
(***************************************************************************)
(* Proofs about HostBandwidthHandler, for any number of hosts, bandwidth,   *)
(* demands and width of a word: its integers stay in their ranges; between  *)
(* two rounds every host that was told anything was told its guarantee; a   *)
(* round of a dynamic allocation moves bandwidth, modulo a word.  And about *)
(* BandwidthSharing, where allocation is static: nobody is limited before   *)
(* every host is known, and the limits fit the tenant.                      *)
(***************************************************************************)
EXTENDS BandwidthSharing, FiniteSetTheorems, WellFoundedInduction, TLAPS

Half == Word \div 2

-----------------------------------------------------------------------------
(* Arithmetic and sets.                                                     *)

LEMMA MinimumExists ==
    ASSUME NEW S \in SUBSET Nat, S # {}
    PROVE  \E x \in S : \A y \in S : x <= y
<1>1. PICK x \in S : \A y \in S : <<y, x>> \notin OpToRel(<, Nat)
  BY WFMin, NatLessThanWellFounded
<1>2. \A y \in S : y < x => <<y, x>> \in OpToRel(<, Nat)
  BY DEF OpToRel
<1>3. \A y \in S : ~(y < x)
  <2>. HIDE DEF OpToRel
  <2>. QED
    BY <1>1, <1>2
<1>4. \A y \in S : x <= y
  BY <1>3
<1>. QED
  BY <1>4

LEMMA Constants ==
    /\ NumberOfHosts \in Nat \ {0} /\ TotalBandwidth \in Nat /\ SafetyFactor \in Nat
    /\ Word \in Nat \ {0} /\ Half \in Nat \ {0} /\ Word = 2 * Half
    /\ Demands \subseteq 0 .. Word - 1
    /\ Hosts \subseteq Nat /\ 1 \in Hosts
    /\ IsFiniteSet(Hosts) /\ Cardinality(Hosts) = NumberOfHosts
<1>1. NumberOfHosts \in Nat \ {0} /\ Hosts = 1 .. NumberOfHosts
  BY HandlerAssumption DEF HandlerAssumption, Hosts
<1>2. IsFiniteSet(1 .. NumberOfHosts) /\ Cardinality(1 .. NumberOfHosts) = NumberOfHosts
  BY <1>1, FS_Interval
<1>. QED
  BY <1>1, <1>2, HandlerAssumption DEF HandlerAssumption, Half

LEMMA CardinalityOfHosts ==
    ASSUME NEW S \in SUBSET Hosts
    PROVE  /\ IsFiniteSet(S) /\ Cardinality(S) \in Nat /\ Cardinality(S) <= NumberOfHosts
           /\ S # {} => Cardinality(S) \in Nat \ {0}
           /\ Cardinality(S) = NumberOfHosts => S = Hosts
BY Constants, FS_Subset, FS_CardinalityType, FS_EmptySet

\* The next host of a loop is one of those to come.
LEMMA HostIsToCome ==
    ASSUME todo \subseteq Hosts, todo # {}
    PROVE  host \in todo
<1>1. todo \in SUBSET Nat
  BY Constants
<1>2. \E x \in todo : \A y \in todo : x <= y
  BY <1>1, MinimumExists
<1>. QED
  BY <1>2 DEF host, Min

LEMMA UnsignedType ==
    ASSUME NEW i \in Int
    PROVE  Unsigned(i) \in 0 .. Word - 1
BY Constants DEF Unsigned

LEMMA SignedType ==
    ASSUME NEW i \in Int
    PROVE  Signed(Unsigned(i)) \in -Half .. Half - 1
BY UnsignedType, Constants DEF Signed, Half

LEMMA Quotient ==
    ASSUME NEW x \in Nat, NEW d \in Nat \ {0}
    PROVE  x \div d \in Nat /\ x \div d <= x
OBVIOUS

-----------------------------------------------------------------------------
(* Sums.  SumFunctionOnSet is defined by recursion over the subsets of the  *)
(* set, so that its value is known only once there is a function that       *)
(* satisfies the equation.  What follows goes by a least number of elements *)
(* for which it would fail.                                                 *)

PickOf(s) == CHOOSE x \in s : TRUE

\* g adds up f over each set of D.
AddsUp(g, f, D) == g = [s \in D |-> IF s = {} THEN 0 ELSE f[PickOf(s)] + g[s \ {PickOf(s)}]]
IsSumOf(g, f, S) == AddsUp(g, f, SUBSET S)

SubsetsUpTo(S, n) == {s \in SUBSET S : Cardinality(s) <= n}

LEMMA PickIsIn ==
    ASSUME NEW S, IsFiniteSet(S), S # {}
    PROVE  /\ PickOf(S) \in S
           /\ IsFiniteSet(S \ {PickOf(S)}) /\ Cardinality(S) \in Nat \ {0}
           /\ Cardinality(S \ {PickOf(S)}) = Cardinality(S) - 1
<1>1. PickOf(S) \in S
  BY DEF PickOf
<1>2. Cardinality(S) \in Nat /\ Cardinality(S) # 0
  BY FS_CardinalityType, FS_EmptySet
<1>. QED
  BY <1>1, <1>2, FS_RemoveElement

LEMMA SumUnfolds ==
    ASSUME NEW f, NEW S
    PROVE  SumFunctionOnSet(f, S) = (CHOOSE g : IsSumOf(g, f, S))[S]
BY Zenon DEF IsSumOf, SumFunctionOnSet, FoldFunctionOnSet, MapThenFoldSet, AddsUp, PickOf

LEMMA SumsOfFewExist ==
    ASSUME NEW f, NEW S, IsFiniteSet(S), NEW n \in Nat
    PROVE  \E g : AddsUp(g, f, SubsetsUpTo(S, n))
<1>. DEFINE Bad == {m \in Nat : ~\E g : AddsUp(g, f, SubsetsUpTo(S, m))}
<1>. SUFFICES ASSUME Bad # {} PROVE FALSE
  OBVIOUS
<1>1. PICK m \in Bad : \A k \in Bad : m <= k
  BY MinimumExists
<1>2. \A s \in SUBSET S : IsFiniteSet(s)
  BY FS_Subset
<1>3. CASE m = 0
  <2>1. \A s \in SubsetsUpTo(S, 0) : s = {}
    BY <1>2, FS_CardinalityType, FS_EmptySet DEF SubsetsUpTo
  <2>2. AddsUp([s \in SubsetsUpTo(S, 0) |-> 0], f, SubsetsUpTo(S, 0))
    BY <2>1 DEF AddsUp
  <2>. QED
    BY <1>3, <2>2
<1>4. CASE m # 0
  <2>1. m - 1 \in Nat /\ m - 1 \notin Bad
    BY <1>1, <1>4
  <2>2. PICK g : AddsUp(g, f, SubsetsUpTo(S, m - 1))
    BY <2>1
  <2>. DEFINE D  == SubsetsUpTo(S, m)
              e  == [s \in D |-> IF s = {} THEN 0 ELSE f[PickOf(s)] + g[s \ {PickOf(s)}]]
  <2>3. ASSUME NEW s \in D, s # {}
        PROVE  e[s \ {PickOf(s)}] = g[s \ {PickOf(s)}]
    <3>. DEFINE t == s \ {PickOf(s)}
    <3>1. t \in SubsetsUpTo(S, m - 1) /\ t \in D
      <4>1. s \in SUBSET S /\ Cardinality(s) <= m
        BY DEF SubsetsUpTo
      <4>2. IsFiniteSet(s) /\ IsFiniteSet(t) /\ Cardinality(s) \in Nat
            /\ Cardinality(t) = Cardinality(s) - 1
        BY <1>2, <2>3, <4>1, PickIsIn
      <4>3. Cardinality(t) <= m - 1 /\ Cardinality(t) <= m
        <5>. HIDE DEF t
        <5>. QED
          BY <4>1, <4>2
      <4>4. t \in SUBSET S
        BY <4>1
      <4>. HIDE DEF t
      <4>. QED
        BY <4>3, <4>4 DEF SubsetsUpTo
    <3>. HIDE DEF t
    <3>2. g[t] = IF t = {} THEN 0 ELSE f[PickOf(t)] + g[t \ {PickOf(t)}]
      BY <2>2, <3>1 DEF AddsUp
    <3>3. e[t] = g[t]
      BY <3>1, <3>2
    <3>. QED
      BY <3>3 DEF t
  <2>4. e = [s \in D |-> IF s = {} THEN 0 ELSE f[PickOf(s)] + e[s \ {PickOf(s)}]]
    <3>. HIDE DEF D
    <3>. QED
      BY <2>3
  <2>5. AddsUp(e, f, D)
    BY <2>4 DEF AddsUp
  <2>. QED
    BY <1>1, <2>5
<1>. QED
  BY <1>3, <1>4

LEMMA SumsExist ==
    ASSUME NEW f, NEW S, IsFiniteSet(S)
    PROVE  \E g : IsSumOf(g, f, S)
<1>1. SubsetsUpTo(S, Cardinality(S)) = SUBSET S
  BY FS_Subset DEF SubsetsUpTo
<1>2. Cardinality(S) \in Nat
  BY FS_CardinalityType
<1>3. \E g : AddsUp(g, f, SubsetsUpTo(S, Cardinality(S)))
  BY <1>2, SumsOfFewExist
<1>. QED
  BY <1>1, <1>3 DEF IsSumOf

\* A sum of a set does not depend on the larger set it is computed with.
LEMMA SumsAgree ==
    ASSUME NEW f, NEW S, IsFiniteSet(S), NEW T \in SUBSET S,
           NEW g, IsSumOf(g, f, S), NEW h, IsSumOf(h, f, T)
    PROVE  g[T] = h[T]
<1>. DEFINE Bad == {Cardinality(s) : s \in {t \in SUBSET T : g[t] # h[t]}}
<1>1. \A s \in SUBSET T : IsFiniteSet(s) /\ Cardinality(s) \in Nat /\ s \in SUBSET S
  BY FS_Subset, FS_CardinalityType
<1>. SUFFICES ASSUME Bad # {} PROVE FALSE
  OBVIOUS
<1>. USE DEF IsSumOf
<1>2. PICK m \in Bad : \A k \in Bad : m <= k
  <2>1. Bad \in SUBSET Nat
    BY <1>1
  <2>. HIDE DEF Bad
  <2>. QED
    BY <2>1, MinimumExists
<1>3. PICK s \in SUBSET T : g[s] # h[s] /\ Cardinality(s) = m
  BY <1>2
<1>. HIDE DEF Bad
<1>4. s # {}
  BY <1>1, <1>3 DEF AddsUp
<1>. DEFINE t == s \ {PickOf(s)}
<1>5. t \in SUBSET T /\ Cardinality(t) < Cardinality(s)
  BY <1>1, <1>4, PickIsIn
<1>. HIDE DEF t
<1>6. g[t] = h[t]
  <2>1. Cardinality(t) \in Nat /\ Cardinality(s) \in Nat /\ Cardinality(t) \notin Bad
    BY <1>1, <1>2, <1>3, <1>5
  <2>. QED
    BY <1>5, <2>1 DEF Bad
<1>7. g[s] = f[PickOf(s)] + g[t] /\ h[s] = f[PickOf(s)] + h[t]
  BY <1>1, <1>4 DEF AddsUp, t
<1>. QED
  BY <1>3, <1>6, <1>7

LEMMA SumOfNone ==
    ASSUME NEW f PROVE SumFunctionOnSet(f, {}) = 0
<1>1. IsSumOf(CHOOSE g : IsSumOf(g, f, {}), f, {})
  BY SumsExist, FS_EmptySet
<1>. QED
  BY <1>1, SumUnfolds DEF IsSumOf, AddsUp

LEMMA SumOfPicked ==
    ASSUME NEW f, NEW S, IsFiniteSet(S), S # {}
    PROVE  SumFunctionOnSet(f, S) = f[PickOf(S)] + SumFunctionOnSet(f, S \ {PickOf(S)})
<1>. DEFINE T == S \ {PickOf(S)}
            g == CHOOSE e : IsSumOf(e, f, S)
            h == CHOOSE e : IsSumOf(e, f, T)
<1>1. IsFiniteSet(T) /\ T \in SUBSET S
  BY PickIsIn
<1>. HIDE DEF T
<1>2. IsSumOf(g, f, S) /\ IsSumOf(h, f, T)
  BY <1>1, SumsExist
<1>3. SumFunctionOnSet(f, S) = g[S] /\ SumFunctionOnSet(f, T) = h[T]
  BY SumUnfolds
<1>. HIDE DEF g, h
<1>4. g[T] = h[T]
  BY <1>1, <1>2, SumsAgree
<1>5. g[S] = f[PickOf(S)] + g[T]
  BY <1>2 DEF IsSumOf, AddsUp, T
<1>. QED
  BY <1>3, <1>4, <1>5 DEF T

\* The sum of integers is one, and no more than their number times the greatest.
LEMMA SumBound ==
    ASSUME NEW f, NEW S, IsFiniteSet(S), NEW b \in Nat,
           \A x \in S : f[x] \in Int /\ f[x] <= b
    PROVE  SumFunctionOnSet(f, S) \in Int /\ SumFunctionOnSet(f, S) <= b * Cardinality(S)
<1>. DEFINE Sum(s) == SumFunctionOnSet(f, s)
            Good(s) == Sum(s) \in Int /\ Sum(s) <= b * Cardinality(s)
            Bad == {Cardinality(s) : s \in {t \in SUBSET S : ~Good(t)}}
<1>1. \A s \in SUBSET S : IsFiniteSet(s) /\ Cardinality(s) \in Nat
  BY FS_Subset, FS_CardinalityType
<1>. SUFFICES ASSUME Bad # {} PROVE FALSE
  OBVIOUS
<1>2. PICK m \in Bad : \A k \in Bad : m <= k
  <2>1. Bad \in SUBSET Nat
    BY <1>1
  <2>. HIDE DEF Bad
  <2>. QED
    BY <2>1, MinimumExists
<1>3. PICK s \in SUBSET S : ~Good(s) /\ Cardinality(s) = m
  BY <1>2
<1>. HIDE DEF Bad, Good
<1>4. s # {}
  <2>1. Sum({}) = 0 /\ Cardinality({}) = 0 /\ b * 0 = 0
    BY SumOfNone, FS_EmptySet
  <2>2. Good({})
    BY <2>1 DEF Good
  <2>. QED
    BY <1>3, <2>2
<1>. DEFINE x == PickOf(s)
            t == s \ {x}
<1>5. /\ x \in s /\ t \in SUBSET S /\ Cardinality(s) \in Nat /\ Cardinality(t) \in Nat
      /\ Cardinality(t) = Cardinality(s) - 1 /\ Sum(s) = f[x] + Sum(t)
  BY <1>1, <1>4, PickIsIn, SumOfPicked
<1>. HIDE DEF x, t, Sum
<1>6. Good(t)
  <2>1. Cardinality(t) \notin Bad
    BY <1>1, <1>2, <1>3, <1>5
  <2>. QED
    BY <1>5, <2>1 DEF Bad
<1>7. b * Cardinality(s) = b * Cardinality(t) + b
  <2>1. \A k \in Nat : b * (k + 1) = b * k + b
    OBVIOUS
  <2>2. Cardinality(s) = Cardinality(t) + 1
    BY <1>5
  <2>. QED
    BY <1>5, <2>1, <2>2
<1>8. b * Cardinality(t) \in Int
  BY <1>5
<1>. QED
  BY <1>3, <1>5, <1>6, <1>7, <1>8 DEF Good

-----------------------------------------------------------------------------
(* Arithmetic modulo a word.                                                *)

Congruent(a, b) == \E k \in Int : a = b + k * Word

LEMMA SameIsCongruent ==
    ASSUME NEW a \in Int
    PROVE  Congruent(a, a)
<1>1. a = a + 0 * Word
  BY Constants
<1>. QED
  BY <1>1 DEF Congruent

LEMMA CongruentAdds ==
    ASSUME NEW a \in Int, NEW b \in Int, NEW c \in Int, NEW d \in Int,
           Congruent(a, b), Congruent(c, d)
    PROVE  Congruent(a + c, b + d)
<1>1. PICK k \in Int : a = b + k * Word
  BY DEF Congruent
<1>2. PICK l \in Int : c = d + l * Word
  BY DEF Congruent
<1>3. (k + l) * Word = k * Word + l * Word /\ k * Word \in Int /\ l * Word \in Int
  BY Constants
<1>4. a + c = b + d + (k + l) * Word
  BY <1>1, <1>2, <1>3
<1>. QED
  BY <1>4 DEF Congruent

LEMMA UnsignedIsCongruent ==
    ASSUME NEW i \in Int
    PROVE  Congruent(Unsigned(i), i)
<1>1. \A w \in Nat \ {0} : i % w = i + (-(i \div w)) * w /\ -(i \div w) \in Int
  OBVIOUS
<1>. QED
  BY <1>1, Constants DEF Unsigned, Congruent

\* What is stored of a sum is congruent to the sum.
LEMMA StoredIsCongruent ==
    ASSUME NEW g \in Int, NEW t \in Int, NEW d \in Int, Congruent(g, t)
    PROVE  Congruent(Unsigned(g + d), t + d)
<1>1. Congruent(g + d, t + d)
  BY SameIsCongruent, CongruentAdds
<1>2. Unsigned(g + d) \in Int
  BY UnsignedType, Constants
<1>3. PICK k \in Int : Unsigned(g + d) = g + d + k * Word
  <2>1. g + d \in Int
    OBVIOUS
  <2>. QED
    BY <2>1, UnsignedIsCongruent DEF Congruent
<1>4. PICK l \in Int : g + d = t + d + l * Word
  BY <1>1 DEF Congruent
<1>5. (k + l) * Word = k * Word + l * Word /\ k * Word \in Int /\ l * Word \in Int
  BY Constants
<1>6. Unsigned(g + d) = t + d + (k + l) * Word
  BY <1>3, <1>4, <1>5
<1>. QED
  BY <1>6 DEF Congruent

LEMMA CongruentDifference ==
    ASSUME NEW a \in Int, NEW b \in Int, Congruent(a, b)
    PROVE  Unsigned(a - b) = 0
<1>1. PICK k \in Int : a = b + k * Word
  BY DEF Congruent
<1>2. k * Word \in Int /\ a - b = k * Word
  BY <1>1, Constants
<1>3. ASSUME NEW w \in Nat \ {0}, NEW q \in Int, NEW r \in 0 .. w - 1, k * w = q * w + r
      PROVE  r = 0
  <2>1. (k - q) * w = r /\ k - q \in Int
    BY <1>3
  <2>2. \A j \in Int : j >= 1 => j * w >= w
    OBVIOUS
  <2>3. \A j \in Int : j <= -1 => j * w <= -w
    OBVIOUS
  <2>4. k - q = 0
    BY <2>1, <2>2, <2>3
  <2>. QED
    BY <2>1, <2>4
<1>. DEFINE i == k * Word
<1>4. i \in Int
  BY <1>2
<1>. HIDE DEF i
<1>5. /\ i % Word \in 0 .. Word - 1 /\ i \div Word \in Int
      /\ i = (i \div Word) * Word + (i % Word)
  BY <1>4, Constants
<1>6. i % Word = 0
  BY <1>3, <1>5, Constants DEF i
<1>. QED
  BY <1>2, <1>6 DEF Unsigned, i

LEMMA CountSteps ==
    ASSUME NEW s, IsFiniteSet(s), NEW x \in s, NEW T
    PROVE  /\ Cardinality((s \ {x}) \cap T) \in Nat
           /\ Cardinality(s \cap T)
                 = Cardinality((s \ {x}) \cap T) + (IF x \in T THEN 1 ELSE 0)
<1>1. (s \ {x}) \cap T = (s \cap T) \ {x} /\ (x \in s \cap T <=> x \in T)
  OBVIOUS
<1>2. s \cap T \in SUBSET s /\ (s \ {x}) \cap T \in SUBSET s
  OBVIOUS
<1>3. IsFiniteSet(s \cap T) /\ IsFiniteSet((s \ {x}) \cap T)
  BY <1>2, FS_Subset
<1>4. Cardinality(s \cap T) \in Nat /\ Cardinality((s \ {x}) \cap T) \in Nat
  BY <1>3, FS_CardinalityType
<1>5. Cardinality((s \cap T) \ {x})
          = IF x \in s \cap T THEN Cardinality(s \cap T) - 1 ELSE Cardinality(s \cap T)
  BY <1>3, FS_RemoveElement
<1>6. Cardinality((s \ {x}) \cap T)
          = IF x \in T THEN Cardinality(s \cap T) - 1 ELSE Cardinality(s \cap T)
  BY <1>1, <1>5, Zenon
<1>. QED
  BY <1>4, <1>6

\* Modulo a word, each element of f is c if it is in T, and e if it is in U.
Weighted(f, S, T, c, U, e) ==
    \A x \in S : f[x] \in Int
        /\ Congruent(f[x], (IF x \in T THEN c ELSE 0) + (IF x \in U THEN e ELSE 0))

LEMMA SumOfWeights ==
    ASSUME NEW f, NEW S, IsFiniteSet(S), NEW T, NEW U, NEW c \in Int, NEW e \in Int,
           Weighted(f, S, T, c, U, e)
    PROVE  /\ SumFunctionOnSet(f, S) \in Int
           /\ Congruent(SumFunctionOnSet(f, S), c * Cardinality(S \cap T) + e * Cardinality(S \cap U))
<1>. DEFINE F(s) == SumFunctionOnSet(f, s)
            n(s) == Cardinality(s \cap T)
            m(s) == Cardinality(s \cap U)
            Good(s) == F(s) \in Int /\ Congruent(F(s), c * n(s) + e * m(s))
            Bad == {Cardinality(s) : s \in {t \in SUBSET S : ~Good(t)}}
<1>1. \A s \in SUBSET S : IsFiniteSet(s) /\ Cardinality(s) \in Nat
  BY FS_Subset, FS_CardinalityType
<1>. SUFFICES ASSUME Bad # {} PROVE FALSE
  OBVIOUS
<1>2. PICK k \in Bad : \A l \in Bad : k <= l
  <2>1. Bad \in SUBSET Nat
    BY <1>1
  <2>. HIDE DEF Bad
  <2>. QED
    BY <2>1, MinimumExists
<1>3. PICK s \in SUBSET S : ~Good(s) /\ Cardinality(s) = k
  BY <1>2
<1>. HIDE DEF Bad
<1>4. s # {}
  <2>1. F({}) = 0 /\ n({}) = 0 /\ m({}) = 0
    BY SumOfNone, FS_EmptySet
  <2>2. c * 0 + e * 0 = 0
    OBVIOUS
  <2>3. Congruent(0, 0)
    BY SameIsCongruent
  <2>4. Good({})
    BY <2>1, <2>2, <2>3
  <2>. QED
    BY <1>3, <2>4
<1>. DEFINE x == PickOf(s)
            t == s \ {x}
            a == IF x \in T THEN c ELSE 0
            b == IF x \in U THEN e ELSE 0
<1>5. /\ x \in s /\ t \in SUBSET S /\ Cardinality(s) \in Nat /\ Cardinality(t) \in Nat
      /\ Cardinality(t) = Cardinality(s) - 1 /\ F(s) = f[x] + F(t)
  BY <1>1, <1>4, PickIsIn, SumOfPicked
<1>6. /\ n(t) \in Nat /\ n(s) = n(t) + (IF x \in T THEN 1 ELSE 0)
      /\ m(t) \in Nat /\ m(s) = m(t) + (IF x \in U THEN 1 ELSE 0)
  <2>1. IsFiniteSet(s)
    BY <1>1
  <2>2. /\ Cardinality((s \ {x}) \cap T) \in Nat
        /\ Cardinality(s \cap T)
              = Cardinality((s \ {x}) \cap T) + (IF x \in T THEN 1 ELSE 0)
    <3>. HIDE DEF x
    <3>. QED
      BY ONLY <1>5, <2>1, CountSteps
  <2>3. /\ Cardinality((s \ {x}) \cap U) \in Nat
        /\ Cardinality(s \cap U)
              = Cardinality((s \ {x}) \cap U) + (IF x \in U THEN 1 ELSE 0)
    <3>. HIDE DEF x
    <3>. QED
      BY ONLY <1>5, <2>1, CountSteps
  <2>. QED
    BY <2>2, <2>3
<1>7. f[x] \in Int /\ Congruent(f[x], a + b) /\ a \in Int /\ b \in Int
  BY <1>5 DEF Weighted
<1>. HIDE DEF x, t, Good, F, n, m
<1>8. F(t) \in Int /\ Congruent(F(t), c * n(t) + e * m(t))
  <2>1. Cardinality(t) \notin Bad
    BY <1>1, <1>2, <1>3, <1>5
  <2>2. Good(t)
    BY <1>5, <2>1 DEF Bad
  <2>. QED
    BY <2>2 DEF Good
<1>9. /\ c * n(t) \in Int /\ e * m(t) \in Int
      /\ c * n(s) = c * n(t) + a /\ e * m(s) = e * m(t) + b
  <2>1. \A i \in Int, j \in Nat : i * (j + 1) = i * j + i /\ i * j \in Int
    OBVIOUS
  <2>2. c * n(t) \in Int /\ e * m(t) \in Int
    BY <1>6, <2>1
  <2>3. c * n(s) = c * n(t) + a
    <3>1. CASE x \in T
      <4>1. n(s) = n(t) + 1 /\ a = c
        BY <1>6, <3>1
      <4>. QED
        BY <1>6, <2>1, <4>1
    <3>2. CASE x \notin T
      <4>1. n(s) = n(t) /\ a = 0
        BY <1>6, <3>2
      <4>. QED
        BY <2>2, <4>1
    <3>. QED
      BY <3>1, <3>2
  <2>4. e * m(s) = e * m(t) + b
    <3>1. CASE x \in U
      <4>1. m(s) = m(t) + 1 /\ b = e
        BY <1>6, <3>1
      <4>. QED
        BY <1>6, <2>1, <4>1
    <3>2. CASE x \notin U
      <4>1. m(s) = m(t) /\ b = 0
        BY <1>6, <3>2
      <4>. QED
        BY <2>2, <4>1
    <3>. QED
      BY <3>1, <3>2
  <2>. QED
    BY <2>2, <2>3, <2>4
<1>. HIDE DEF a, b
<1>10. Congruent(f[x] + F(t), a + b + (c * n(t) + e * m(t)))
  <2>1. a + b \in Int /\ c * n(t) + e * m(t) \in Int
    BY <1>7, <1>9
  <2>. QED
    BY <1>7, <1>8, <2>1, CongruentAdds
<1>11. a + b + (c * n(t) + e * m(t)) = c * n(s) + e * m(s) /\ f[x] + F(t) \in Int
  BY <1>7, <1>8, <1>9
<1>12. Good(s)
  BY <1>5, <1>10, <1>11 DEF Good
<1>. QED
  BY <1>3, <1>12

-----------------------------------------------------------------------------
(* Type correctness.                                                        *)

\* Where the threads may be, and what a loop has still to visit there.
PcOK ==
    /\ recvPc \in {"address", "demand", "load", "delta"} => report.host \in bandwidthMap
    /\ sendPc = "limit" => phase = "limit" /\ todo # {}
    /\ sendPc \in {"load", "delta"} => phase \in {"share", "take", "limit", "give"} /\ todo # {}
    /\ sendPc = "send" => phase = "share" /\ todo # {}

\* A host is collected once, and a round has something to move.
RoundOK ==
    /\ phase = "collect" => todo \cap donors = {} /\ todo \cap receivers = {}
    /\ phase \in {"take", "limit", "give", "send"} =>
           donors # {} /\ receivers # {} /\ contribution > 0

TypeInv == TypeOK /\ PcOK /\ RoundOK

LEMMA InitTypeInv == Init => TypeInv
<1>. SUFFICES ASSUME Init PROVE TypeInv
  OBVIOUS
<1>1. 0 \in 0 .. Word - 1 /\ 0 \in -Half .. Half - 1 /\ 0 \in 0 .. Half - 1
      /\ 0 \in 0 .. MaxRounds
  BY Constants, HandlerAssumption DEF HandlerAssumption
<1>. QED
  BY <1>1, Constants DEF Init, TypeInv, TypeOK, PcOK, RoundOK, Half

LEMMA MainTypeInv ==
    ASSUME TypeInv, Main
    PROVE  TypeInv'
<1>1. CASE CreateReceive
  BY <1>1 DEF CreateReceive, hostVars, recvVars, sendVars, roundVars, TypeInv, TypeOK, PcOK, RoundOK
<1>2. CASE FlagReceive
  BY <1>2 DEF FlagReceive, hostVars, recvVars, sendVars, roundVars, TypeInv, TypeOK, PcOK, RoundOK
<1>3. CASE CreateSend
  BY <1>3 DEF CreateSend, hostVars, recvVars, sendVars, roundVars, TypeInv, TypeOK, PcOK, RoundOK
<1>4. CASE FlagSend
  BY <1>4 DEF FlagSend, hostVars, recvVars, sendVars, roundVars, TypeInv, TypeOK, PcOK, RoundOK
<1>. QED
  BY <1>1, <1>2, <1>3, <1>4 DEF Main

LEMMA RecvTypeInv ==
    ASSUME TypeInv, Recv \/ (\E h \in Hosts : Receive(h))
    PROVE  TypeInv'
<1>0. TypeOK /\ PcOK /\ RoundOK
  BY DEF TypeInv
<1>1. CASE CheckIncoming
  BY <1>0, <1>1 DEF CheckIncoming, hostVars, mainVars, sendVars, roundVars, TypeInv, TypeOK,
     PcOK, RoundOK
<1>2. ASSUME NEW h \in Hosts, Receive(h) PROVE TypeInv'
  <2>1. report' \in [host : Hosts, demand : {0} \cup Demands] /\ report'.host = h
        /\ bandwidthMap' = bandwidthMap \cup {h}
    BY <1>2 DEF Receive
  <2>. QED
    BY <1>0, <1>2, <2>1 DEF Receive, mainVars, sendVars, roundVars, TypeInv, TypeOK, PcOK, RoundOK
<1>3. CASE SetAddress
  BY <1>0, <1>3 DEF SetAddress, mainVars, sendVars, roundVars, TypeInv, TypeOK, PcOK, RoundOK
<1>4. CASE SetDemand
  BY <1>0, <1>4 DEF SetDemand, mainVars, sendVars, roundVars, TypeInv, TypeOK, PcOK, RoundOK
<1>5. CASE LoadGuarantee
  BY <1>0, <1>5 DEF LoadGuarantee, hostVars, mainVars, sendVars, roundVars, TypeInv, TypeOK,
     PcOK, RoundOK
<1>6. CASE RecvDelta
  <2>1. recvLoaded - report.demand \in Int
    <3>1. report.demand \in {0} \cup Demands /\ recvLoaded \in 0 .. Word - 1
      BY <1>0 DEF TypeOK
    <3>2. {0} \cup Demands \subseteq Int /\ 0 .. Word - 1 \subseteq Int
      BY Constants
    <3>3. report.demand \in Int /\ recvLoaded \in Int
      BY <3>1, <3>2, Zenon
    <3>. QED
      BY <3>3
  <2>2. Signed(Unsigned(recvLoaded - report.demand)) \in -Half .. Half - 1
    BY <2>1, SignedType
  <2>3. delta' \in [Hosts -> -Half .. Half - 1]
    BY <1>0, <1>6, <2>2 DEF RecvDelta, TypeOK, Half
  <2>4. recvLoaded' \in 0 .. Word - 1
    BY <1>6, Constants DEF RecvDelta
  <2>. QED
    BY <1>0, <1>6, <2>3, <2>4
       DEF RecvDelta, mainVars, sendVars, roundVars, TypeInv, TypeOK, PcOK, RoundOK, Half
<1>. QED
  BY <1>1, <1>2, <1>3, <1>4, <1>5, <1>6 DEF Recv

\* Within a host of a loop.
LEMMA HostStepTypeInv ==
    ASSUME TypeInv, LoadDemand \/ SendDelta \/ SendTo \/ LimitLoad
    PROVE  TypeInv'
<1>0. TypeOK /\ PcOK /\ RoundOK /\ bandwidthMap \subseteq Hosts /\ todo \subseteq Hosts
  BY DEF TypeInv, TypeOK
<1>1. todo # {} /\ host \in todo /\ host \in Hosts
  <2>1. todo # {}
    BY <1>0 DEF LoadDemand, SendDelta, SendTo, LimitLoad, PcOK
  <2>. QED
    BY <1>0, <2>1, HostIsToCome
<1>. HIDE DEF host
<1>2. CASE LoadDemand
  BY <1>0, <1>1, <1>2 DEF LoadDemand, hostVars, mainVars, recvVars, roundVars, TypeInv, TypeOK,
     PcOK, RoundOK
<1>3. CASE LimitLoad
  BY <1>0, <1>1, <1>3 DEF LimitLoad, hostVars, mainVars, recvVars, roundVars, TypeInv, TypeOK,
     PcOK, RoundOK
<1>4. CASE SendTo
  <2>1. told' \in [Hosts -> {Nothing} \cup 0 .. Word - 1] /\ todo' \subseteq todo
    BY <1>0, <1>1, <1>4 DEF SendTo, TypeOK
  <2>2. sendPc' = "next" /\ UNCHANGED <<hostVars, mainVars, recvVars, sendLoaded, phase, roundVars>>
    BY <1>4 DEF SendTo
  <2>. QED
    BY <1>0, <2>1, <2>2 DEF hostVars, mainVars, recvVars, roundVars, TypeInv, TypeOK, PcOK, RoundOK
<1>5. CASE SendDelta
  <2>1. guarantee[host] - sendLoaded \in Int
    BY <1>0, <1>1, Constants DEF TypeOK
  <2>2. Signed(Unsigned(guarantee[host] - sendLoaded)) \in -Half .. Half - 1
    BY <2>1, SignedType
  <2>3. delta' \in [Hosts -> -Half .. Half - 1]
    BY <1>0, <1>5, <2>2 DEF SendDelta, TypeOK, Half
  <2>4. /\ sendLoaded' = 0 /\ todo' \subseteq todo
        /\ sendPc' \in {"send", "next"} /\ (sendPc' = "send" => phase = "share" /\ todo' # {})
        /\ UNCHANGED <<bandwidthMap, address, demand, guarantee, mainVars, recvVars, phase,
                       roundVars, told>>
    BY <1>1, <1>5 DEF SendDelta
  <2>. QED
    BY <1>0, <2>3, <2>4 DEF mainVars, recvVars, roundVars, TypeInv, TypeOK, PcOK, RoundOK, Half
<1>. QED
  BY <1>2, <1>3, <1>4, <1>5

\* A guarantee that is set is an unsigned integer, whatever it was computed from.
LEMMA SetGuaranteeTypeInv ==
    ASSUME TypeInv, todo # {}, phase \in {"share", "take", "limit", "give"},
           NEW g \in Int, SetGuarantee(g)
    PROVE  TypeInv'
<1>1. host \in Hosts
  BY HostIsToCome DEF TypeInv, TypeOK
<1>2. Unsigned(g) \in 0 .. Word - 1
  BY UnsignedType
<1>3. guarantee' \in [Hosts -> 0 .. Word - 1]
  BY <1>1, <1>2 DEF SetGuarantee, TypeInv, TypeOK
<1>. QED
  BY <1>3 DEF SetGuarantee, mainVars, recvVars, roundVars, TypeInv, TypeOK, PcOK, RoundOK

LEMMA AllocateTypeInv ==
    ASSUME TypeInv, CalculateHostBandwidth \/ Take \/ Limit \/ Give
    PROVE  TypeInv'
<1>0. TypeOK /\ PcOK /\ bandwidthMap \subseteq Hosts /\ todo \subseteq bandwidthMap
  BY DEF TypeInv, TypeOK
<1>1. todo # {} /\ phase \in {"share", "take", "limit", "give"}
  BY <1>0 DEF CalculateHostBandwidth, Take, Limit, Give, PcOK
<1>2. host \in Hosts
  BY <1>0, <1>1, HostIsToCome
<1>3. CASE CalculateHostBandwidth
  <2>1. Cardinality(bandwidthMap) \in Nat \ {0}
    BY <1>0, <1>1, CardinalityOfHosts
  <2>2. Share \in Int
    BY <2>1, Constants, Quotient DEF Share
  <2>. QED
    BY <1>1, <1>3, <2>2, SetGuaranteeTypeInv DEF CalculateHostBandwidth
<1>4. CASE Take \/ Give
  <2>1. guarantee[host] \in Int /\ perHostDonation \in Int
    BY <1>0, <1>2, Constants DEF TypeOK
  <2>2. guarantee[host] - perHostDonation \in Int /\ guarantee[host] + perHostDonation \in Int
    BY <2>1
  <2>. QED
    BY <1>1, <1>4, <2>2, SetGuaranteeTypeInv DEF Take, Give
<1>5. CASE Limit
  <2>1. sendLoaded \in Int
    BY <1>0, Constants DEF TypeOK
  <2>. QED
    BY <1>1, <1>5, <2>1, SetGuaranteeTypeInv DEF Limit
<1>. QED
  BY <1>3, <1>4, <1>5

\* A loop ends and the next one begins.
LEMMA PhaseTypeInv ==
    ASSUME TypeInv, NothingToMove \/ BeginRound \/ TakeDone \/ GiveDone \/ SendDone \/ Wait
                        \/ CheckOutgoing
    PROVE  TypeInv'
<1>0. TypeOK /\ PcOK /\ RoundOK /\ donors \subseteq Hosts /\ receivers \subseteq Hosts
      /\ contribution \in -Half .. Half - 1
  BY DEF TypeInv, TypeOK, Half
<1>1. CASE NothingToMove \/ SendDone \/ GiveDone \/ Wait
  <2>1. bandwidthMap' = bandwidthMap /\ sendPc' = sendPc /\ sendPc = "next"
        /\ phase' \in {"check", "send", "share"}
        /\ (phase' = "send" => phase = "give" /\ UNCHANGED <<donors, receivers>>)
        /\ todo' \subseteq bandwidthMap
        /\ ((donors' = {} /\ receivers' = {}) \/ UNCHANGED <<donors, receivers>>)
        /\ UNCHANGED <<hostVars, mainVars, recvVars, sendLoaded, told, contribution,
                       perHostDonation, rounds>>
    BY <1>1 DEF NothingToMove, SendDone, GiveDone, Wait, Goto, HostsToTell, hostVars, roundVars
  <2>. QED
    BY <1>0, <2>1 DEF hostVars, mainVars, recvVars, TypeInv, TypeOK, PcOK, RoundOK
<1>2. CASE CheckOutgoing
  <2>1. /\ sendPc' = sendPc /\ sendPc = "next" /\ phase' \in {"collect", "exited"}
        /\ todo' \subseteq bandwidthMap
        /\ donors' = {} /\ receivers' = {} /\ contribution' = 0
        /\ UNCHANGED <<hostVars, mainVars, recvVars, sendLoaded, told, perHostDonation, rounds>>
    BY <1>2 DEF CheckOutgoing, Goto
  <2>2. contribution' \in -Half .. Half - 1
    BY <2>1, Constants
  <2>. QED
    BY <1>0, <2>1, <2>2 DEF hostVars, mainVars, recvVars, TypeInv, TypeOK, PcOK, RoundOK, Half
<1>3. CASE BeginRound
  <2>1. /\ sendPc' = sendPc /\ sendPc = "next" /\ phase' \in {"take", "limit"} /\ todo' = donors
        /\ donors # {} /\ receivers # {} /\ contribution > 0
        /\ perHostDonation' \in {TakenPerDonor, perHostDonation}
        /\ rounds' = rounds + 1 /\ rounds < MaxRounds
        /\ UNCHANGED <<hostVars, mainVars, recvVars, sendLoaded, told, donors, receivers,
                       contribution>>
    BY <1>3 DEF BeginRound, Goto, CanMove
  <2>2. TakenPerDonor \in 0 .. Half - 1
    <3>1. Cardinality(donors) \in Nat \ {0}
      BY <1>0, <2>1, CardinalityOfHosts
    <3>2. contribution \in Nat /\ contribution < Half
      BY <1>0, <2>1, Constants
    <3>3. contribution \div Cardinality(donors) \in Nat
          /\ contribution \div Cardinality(donors) <= contribution
      BY <3>1, <3>2, Quotient
    <3>. QED
      BY <3>2, <3>3, Constants DEF TakenPerDonor
  <2>3. rounds' \in 0 .. MaxRounds
    BY <1>0, <2>1, HandlerAssumption DEF HandlerAssumption, TypeOK
  <2>. QED
    BY <1>0, <2>1, <2>2, <2>3
       DEF hostVars, mainVars, recvVars, TypeInv, TypeOK, PcOK, RoundOK, Half
<1>4. CASE TakeDone
  <2>1. /\ sendPc' = sendPc /\ sendPc = "next" /\ phase' = "give" /\ todo' = receivers
        /\ donors # {} /\ receivers # {} /\ contribution > 0
        /\ perHostDonation' = contribution \div Cardinality(receivers)
        /\ UNCHANGED <<hostVars, mainVars, recvVars, sendLoaded, told, donors, receivers,
                       contribution, rounds>>
    BY <1>0, <1>4 DEF TakeDone, Goto, RoundOK
  <2>2. perHostDonation' \in 0 .. Half - 1
    <3>1. Cardinality(receivers) \in Nat \ {0}
      BY <1>0, <2>1, CardinalityOfHosts
    <3>2. contribution \in Nat /\ contribution < Half
      BY <1>0, <2>1, Constants
    <3>3. contribution \div Cardinality(receivers) \in Nat
          /\ contribution \div Cardinality(receivers) <= contribution
      BY <3>1, <3>2, Quotient
    <3>. QED
      BY <2>1, <3>2, <3>3, Constants
  <2>. QED
    BY <1>0, <2>1, <2>2
       DEF hostVars, mainVars, recvVars, TypeInv, TypeOK, PcOK, RoundOK, Half
<1>. QED
  BY <1>1, <1>2, <1>3, <1>4

\* A host that is visited becomes a donor, a receiver or neither.
LEMMA CollectTypeInv ==
    ASSUME TypeInv, Collect
    PROVE  TypeInv'
<1>0. TypeOK /\ PcOK /\ RoundOK /\ donors \subseteq Hosts /\ receivers \subseteq Hosts
      /\ todo \subseteq bandwidthMap /\ bandwidthMap \subseteq Hosts
  BY DEF TypeInv, TypeOK
<1>1. /\ sendPc' = sendPc /\ sendPc = "next" /\ phase' = phase /\ phase = "collect"
      /\ todo # {} /\ todo' = todo \ {host}
      /\ UNCHANGED <<hostVars, mainVars, recvVars, sendLoaded, told, perHostDonation, rounds>>
  BY DEF Collect, Goto
<1>2. host \in todo /\ host \in Hosts /\ host \notin donors /\ host \notin receivers
  <2>1. host \in todo
    BY <1>0, <1>1, HostIsToCome
  <2>. QED
    BY <1>0, <1>1, <2>1 DEF RoundOK
<1>3. delta[host] \in Int /\ contribution \in Int
  BY <1>0, <1>2, Constants DEF TypeOK, Half
<1>5. CASE IsDonor(host)
  <2>1. donors' = donors \cup {host} /\ delta[host] > 0 /\ receivers' = receivers
        /\ contribution' = Signed(Unsigned(contribution + delta[host]))
    BY <1>3, <1>5, Constants DEF Collect, IsDonor
  <2>2. contribution' \in -Half .. Half - 1
    <3>1. contribution + delta[host] \in Int
      BY <1>3
    <3>. QED
      BY <2>1, <3>1, SignedType
  <2>. QED
    BY <1>0, <1>1, <1>2, <2>1, <2>2
       DEF hostVars, mainVars, recvVars, TypeInv, TypeOK, PcOK, RoundOK, Half
<1>6. CASE ~IsDonor(host)
  <2>1. donors' = donors /\ contribution' = contribution
        /\ receivers' \in {receivers, receivers \cup {host}}
    BY <1>6 DEF Collect
  <2>. QED
    BY <1>0, <1>1, <1>2, <2>1
       DEF hostVars, mainVars, recvVars, TypeInv, TypeOK, PcOK, RoundOK, Half
<1>. QED
  BY <1>5, <1>6

LEMMA StepTypeInv ==
    ASSUME TypeInv, [Next]_vars
    PROVE  TypeInv'
<1>1. CASE UNCHANGED vars
  BY <1>1 DEF vars, hostVars, mainVars, recvVars, sendVars, roundVars, TypeInv, TypeOK, PcOK,
     RoundOK
<1>2. CASE Send
  BY <1>2, HostStepTypeInv, AllocateTypeInv, PhaseTypeInv, CollectTypeInv DEF Send
<1>. QED
  BY <1>1, <1>2, MainTypeInv, RecvTypeInv DEF Next

-----------------------------------------------------------------------------
(* What hosts were told.                                                    *)

Current(h) == told[h] \in {Nothing, guarantee[h]}

\* The shares are told host by host, and what a round changed is told to all.
KnownOK ==
    /\ \A h \in Hosts : told[h] # Nothing => h \in address
    /\ phase = "wait" => \A h \in Hosts : told[h] = Nothing
    /\ phase # "wait" => bandwidthMap = Hosts
    /\ phase = "share" => \A h \in Hosts : IF h \in todo THEN told[h] = Nothing ELSE Current(h)
    /\ phase \in {"check", "collect", "exited"} => \A h \in Hosts : Current(h)
    /\ phase = "send" => \A h \in Hosts \ todo : Current(h)

LEMMA InitKnownOK == Init => KnownOK
BY DEF Init, KnownOK

\* Neither the constructor nor the receive thread touches what is told or guaranteed.
LEMMA RecvKnownOK ==
    ASSUME TypeInv, KnownOK, Main \/ Recv \/ (\E h \in Hosts : Receive(h))
    PROVE  KnownOK'
<1>1. /\ UNCHANGED <<guarantee, told, phase, todo>> /\ address \subseteq address'
      /\ bandwidthMap' \subseteq Hosts /\ bandwidthMap \subseteq bandwidthMap'
  BY DEF Main, CreateReceive, FlagReceive, CreateSend, FlagSend, Recv, CheckIncoming, Receive,
     SetAddress, SetDemand, LoadGuarantee, RecvDelta, hostVars, sendVars, TypeInv, TypeOK
<1>. QED
  BY <1>1 DEF KnownOK, Current

LEMMA HostStepKnownOK ==
    ASSUME TypeInv, KnownOK, LoadDemand \/ SendDelta \/ SendTo \/ LimitLoad
    PROVE  KnownOK'
<1>0. todo \subseteq Hosts /\ told \in [Hosts -> {Nothing} \cup 0 .. Word - 1]
  BY DEF TypeInv, TypeOK
<1>1. CASE LoadDemand \/ LimitLoad
  BY <1>1 DEF LoadDemand, LimitLoad, hostVars, KnownOK, Current
<1>2. CASE SendDelta
  <2>1. UNCHANGED <<guarantee, told, phase, address, bandwidthMap>>
        /\ (phase \in {"share", "send"} => todo' = todo)
    BY <1>2 DEF SendDelta, TypeInv, PcOK
  <2>. QED
    BY <2>1 DEF KnownOK, Current
<1>3. CASE SendTo
  <2>1. todo # {}
    BY <1>3 DEF SendTo, TypeInv, PcOK
  <2>2. host \in todo
    BY <1>0, <2>1, HostIsToCome
  <2>. HIDE DEF host
  <2>3. /\ UNCHANGED <<guarantee, phase, address, bandwidthMap>> /\ todo' = todo \ {host}
        /\ phase \in {"share", "send"}
        /\ \A h \in Hosts : h # host => told'[h] = told[h]
    BY <1>0, <1>3, <2>2 DEF SendTo, hostVars, TypeInv, PcOK
  <2>4. told'[host] \in {Nothing, guarantee[host]} /\ (told'[host] # Nothing => host \in address)
    <3>1. host \notin address => told[host] = Nothing
      BY <1>0, <2>2 DEF KnownOK
    <3>. QED
      BY <1>0, <1>3, <2>2, <3>1 DEF SendTo
  <2>. QED
    BY <2>2, <2>3, <2>4 DEF KnownOK, Current
<1>. QED
  BY <1>1, <1>2, <1>3

LEMMA AllocateKnownOK ==
    ASSUME TypeInv, KnownOK, CalculateHostBandwidth \/ Take \/ Limit \/ Give
    PROVE  KnownOK'
<1>0. todo \subseteq Hosts
  BY DEF TypeInv, TypeOK
<1>1. /\ UNCHANGED <<told, phase, todo, address, bandwidthMap>>
      /\ phase \in {"share", "take", "limit", "give"} /\ todo # {}
      /\ \E g : guarantee' = [guarantee EXCEPT ![host] = g]
  BY DEF CalculateHostBandwidth, Take, Limit, Give, SetGuarantee, TypeInv, PcOK
<1>2. host \in todo
  BY <1>0, <1>1, HostIsToCome
<1>. HIDE DEF host
<1>3. \A h \in Hosts : h \notin todo => guarantee'[h] = guarantee[h]
  BY <1>1, <1>2 DEF TypeInv, TypeOK
<1>. QED
  BY <1>1, <1>3 DEF KnownOK, Current

LEMMA PhaseKnownOK ==
    ASSUME TypeInv, KnownOK, Wait \/ CheckOutgoing \/ NothingToMove \/ BeginRound \/ TakeDone
                                 \/ GiveDone \/ SendDone \/ Collect
    PROVE  KnownOK'
<1>0. bandwidthMap \subseteq Hosts
  BY DEF TypeInv, TypeOK
<1>1. UNCHANGED <<guarantee, told, address, bandwidthMap>>
  BY DEF Wait, CheckOutgoing, NothingToMove, BeginRound, TakeDone, GiveDone, SendDone, Collect,
     Goto, hostVars
<1>2. CASE Wait
  <2>1. phase = "wait" /\ phase' = "share" /\ bandwidthMap = Hosts
    BY <1>0, <1>2, CardinalityOfHosts DEF Wait, Goto, GotAllHosts
  <2>. QED
    BY <1>1, <2>1 DEF KnownOK, Current
<1>3. CASE CheckOutgoing
  <2>1. phase' \in {"collect", "exited"} /\ ((phase = "share" /\ todo = {}) \/ phase = "check")
    BY <1>3 DEF CheckOutgoing, Goto
  <2>. QED
    BY <1>1, <2>1 DEF KnownOK, Current
<1>4. CASE NothingToMove
  BY <1>1, <1>4 DEF NothingToMove, Goto, KnownOK, Current
<1>5. CASE BeginRound \/ TakeDone
  <2>1. phase # "wait" /\ phase' \in {"take", "limit", "give"}
    BY <1>5 DEF BeginRound, TakeDone, Goto
  <2>. QED
    BY <1>1, <2>1 DEF KnownOK, Current
<1>6. CASE GiveDone
  <2>1. phase = "give" /\ phase' = "send" /\ todo' = bandwidthMap
    BY <1>6 DEF GiveDone, Goto, HostsToTell
  <2>. QED
    BY <1>1, <2>1 DEF KnownOK, Current
<1>7. CASE SendDone
  BY <1>1, <1>7 DEF SendDone, Goto, KnownOK, Current
<1>8. CASE Collect
  BY <1>1, <1>8 DEF Collect, Goto, KnownOK, Current
<1>. QED
  BY <1>2, <1>3, <1>4, <1>5, <1>6, <1>7, <1>8

LEMMA StepKnownOK ==
    ASSUME TypeInv, KnownOK, [Next]_vars
    PROVE  KnownOK'
<1>1. CASE UNCHANGED vars
  BY <1>1 DEF vars, hostVars, mainVars, recvVars, sendVars, KnownOK, Current
<1>2. CASE Send
  BY <1>2, HostStepKnownOK, AllocateKnownOK, PhaseKnownOK DEF Send
<1>. QED
  BY <1>1, <1>2, RecvKnownOK DEF Next

-----------------------------------------------------------------------------

\* The adaptor's view of the hosts is well formed, and between two rounds every host that was
\* told anything has been told its guarantee, however reports interleave with a round and
\* whatever they say: guarantees are stored modulo a word, and GiveDone tells all of them
\* (HostBandwidthHandler.cpp:279).
THEOREM AllocationIsAlwaysKnown == Spec => []AllocationIsKnown
<1>1. Init => TypeInv /\ KnownOK
  BY InitTypeInv, InitKnownOK
<1>2. TypeInv /\ KnownOK /\ [Next]_vars => TypeInv' /\ KnownOK'
  BY StepTypeInv, StepKnownOK
<1>3. TypeInv /\ KnownOK => AllocationIsKnown
  BY DEF TypeInv, KnownOK, Current, AllocationIsKnown, ToldIsCurrent
<1>. QED
  BY <1>1, <1>2, <1>3, PTL DEF Spec

-----------------------------------------------------------------------------
(* The rounds.  All is counted modulo a word, so that it does not matter    *)
(* what wraps: of a guarantee, of a delta or of the contribution.           *)

\* The hosts of a loop whose guarantee is still to be set.
Pending == IF sendPc \in {"load", "delta", "send"} THEN todo \ {host} ELSE todo

Taken == contribution \div Cardinality(donors)
Given == contribution \div Cardinality(receivers)

\* With more receivers than donors nothing is known of what the donors are left with.
Accounted == IF Even THEN Hosts ELSE Hosts \ donors

\* These hosts have given already, and those have got.
Moved(givers, getters) == \A h \in Accounted :
    told[h] # Nothing =>
        Congruent(guarantee[h], told[h] + (IF h \in givers THEN -Taken ELSE 0)
                                        + (IF h \in getters THEN Given ELSE 0))

\* The send thread is created last.
NotCreated == mainPc \in {"createReceive", "flagReceive", "createSend"} => sendPc = "none"

MovedOK ==
    /\ phase = "take" =>
          Even /\ todo \subseteq donors /\ perHostDonation = Taken /\ Moved(donors \ Pending, {})
    /\ phase = "limit" => ~Even /\ todo \subseteq donors /\ Moved(donors, {})
    /\ phase = "give" =>
          todo \subseteq receivers /\ perHostDonation = Given /\ Moved(donors, receivers \ Pending)
    /\ phase = "send" /\ todo = Hosts => Moved(donors, receivers)

RoundInv == TypeInv /\ KnownOK /\ NotCreated /\ MovedOK

LEMMA StepNotCreated ==
    ASSUME NotCreated, [Next]_vars
    PROVE  NotCreated'
BY DEF NotCreated, Next, vars, Main, CreateReceive, FlagReceive, CreateSend, FlagSend, Recv,
   CheckIncoming, Receive, SetAddress, SetDemand, LoadGuarantee, RecvDelta, Send, Wait,
   CalculateHostBandwidth, LoadDemand, SendDelta, SendTo, CheckOutgoing, Collect, NothingToMove,
   BeginRound, Take, LimitLoad, Limit, TakeDone, Give, GiveDone, SendDone, SetGuarantee, Goto,
   mainVars, sendVars

\* What the receive thread and the constructor leave alone.
LEMMA RecvLeaves ==
    ASSUME NotCreated, Main \/ Recv \/ (\E h \in Hosts : Receive(h))
    PROVE  UNCHANGED <<guarantee, told, phase, todo, roundVars>> /\ Pending' = Pending
<1>1. /\ UNCHANGED <<guarantee, told, phase, todo, roundVars>>
      /\ UNCHANGED sendPc \/ (sendPc = "none" /\ sendPc' = "next")
  BY DEF Main, CreateReceive, FlagReceive, CreateSend, FlagSend, Recv, CheckIncoming, Receive,
     SetAddress, SetDemand, LoadGuarantee, RecvDelta, hostVars, sendVars, NotCreated
<1>. QED
  BY <1>1 DEF Pending, host

\* Nothing of it changes while guarantees, what was told, the hosts to come and the round stay.
LEMMA SameMovedOK ==
    ASSUME MovedOK, UNCHANGED <<guarantee, told, phase, roundVars>>,
           phase \in {"take", "limit", "give"} => todo' \subseteq todo /\ Pending' = Pending,
           phase = "send" => todo' = todo
    PROVE  MovedOK'
BY DEF MovedOK, Moved, Accounted, Even, Taken, Given, roundVars

LEMMA HostStepMovedOK ==
    ASSUME TypeInv, MovedOK, LoadDemand \/ SendDelta \/ SendTo \/ LimitLoad
    PROVE  MovedOK'
<1>0. todo \subseteq Hosts
  BY DEF TypeInv, TypeOK
<1>1. todo # {} /\ host \in todo /\ host \in Hosts
  <2>1. todo # {}
    BY <1>0 DEF LoadDemand, SendDelta, SendTo, LimitLoad, TypeInv, PcOK
  <2>. QED
    BY <1>0, <2>1, HostIsToCome
<1>2. CASE LoadDemand \/ LimitLoad
  <2>1. UNCHANGED <<guarantee, told, phase, todo, roundVars>> /\ Pending' = Pending
    BY <1>2 DEF LoadDemand, LimitLoad, hostVars, Pending, host
  <2>. QED
    BY <2>1, SameMovedOK
<1>3. CASE SendDelta
  <2>1. /\ UNCHANGED <<guarantee, told, phase, roundVars>>
        /\ phase \in {"share", "take", "limit", "give"}
        /\ Pending' = Pending /\ todo' \subseteq todo
    BY <1>3 DEF SendDelta, Pending, host, TypeInv, PcOK
  <2>. QED
    BY <2>1, SameMovedOK
<1>4. CASE SendTo
  <2>1. phase' = phase /\ phase \in {"share", "send"} /\ todo' = todo \ {host}
    BY <1>4 DEF SendTo, TypeInv, PcOK
  <2>. HIDE DEF host
  <2>2. todo' # Hosts
    BY <1>0, <1>1, <2>1
  <2>. QED
    BY <2>1, <2>2 DEF MovedOK
<1>. QED
  BY <1>2, <1>3, <1>4

\* The next host's guarantee is set.
LEMMA SetGuaranteeMoves ==
    ASSUME TypeInv, sendPc \in {"next", "limit"}, todo # {}, NEW g \in Int, SetGuarantee(g)
    PROVE  /\ host \in Pending /\ Pending = todo /\ Pending' = Pending \ {host}
           /\ \A h \in Hosts : guarantee'[h] = IF h = host THEN Unsigned(g) ELSE guarantee[h]
<1>1. todo \subseteq Hosts /\ guarantee \in [Hosts -> 0 .. Word - 1]
  BY DEF TypeInv, TypeOK
<1>2. host \in todo
  BY <1>1, HostIsToCome
<1>3. Pending = todo /\ Pending' = todo \ {host}
  BY DEF SetGuarantee, Pending, host
<1>. HIDE DEF host
<1>. QED
  BY <1>1, <1>2, <1>3 DEF SetGuarantee

\* What a round moves, of a contribution that is above zero.
LEMMA MovesFit ==
    ASSUME TypeInv, donors # {}, receivers # {}, contribution > 0
    PROVE  /\ contribution \in Nat /\ Taken \in Nat /\ Given \in Nat
           /\ Cardinality(donors) \in 1 .. NumberOfHosts
           /\ Cardinality(receivers) \in 1 .. NumberOfHosts
<1>1. donors \subseteq Hosts /\ receivers \subseteq Hosts /\ contribution \in Nat
  BY Constants DEF TypeInv, TypeOK, Half
<1>2. \A S \in SUBSET Hosts : S # {} =>
          Cardinality(S) \in Nat \ {0} /\ Cardinality(S) <= NumberOfHosts
  BY CardinalityOfHosts
<1>3. /\ Cardinality(donors) \in Nat \ {0} /\ Cardinality(donors) <= NumberOfHosts
      /\ Cardinality(receivers) \in Nat \ {0} /\ Cardinality(receivers) <= NumberOfHosts
  BY <1>1, <1>2
<1>4. Taken \in Nat /\ Given \in Nat
  BY <1>1, <1>3, Quotient DEF Taken, Given
<1>. QED
  BY <1>1, <1>3, <1>4, Constants

LEMMA AllocateMovedOK ==
    ASSUME TypeInv, MovedOK, CalculateHostBandwidth \/ Take \/ Limit \/ Give
    PROVE  MovedOK'
<1>0. /\ todo \subseteq Hosts /\ donors \cap receivers = {} /\ donors \subseteq Hosts
      /\ guarantee \in [Hosts -> 0 .. Word - 1] /\ told \in [Hosts -> {Nothing} \cup 0 .. Word - 1]
  BY DEF TypeInv, TypeOK
<1>1. /\ UNCHANGED <<told, phase, todo, roundVars>> /\ sendPc \in {"next", "limit"} /\ todo # {}
      /\ phase \in {"share", "take", "limit", "give"}
  BY DEF CalculateHostBandwidth, Take, Limit, Give, SetGuarantee, TypeInv, PcOK
<1>2. UNCHANGED <<Even, Taken, Given, Accounted, donors, receivers, perHostDonation>>
  BY <1>1 DEF roundVars, Even, Taken, Given, Accounted
<1>3. /\ \A h \in Hosts : guarantee[h] \in Int /\ told[h] \in Int
      /\ host \in todo /\ host \in Hosts
  <2>1. host \in todo
    BY <1>0, <1>1, HostIsToCome
  <2>2. Nothing \in Int /\ 0 .. Word - 1 \subseteq Int
    BY Constants DEF Nothing
  <2>. HIDE DEF host
  <2>. QED
    BY <1>0, <2>1, <2>2
<1>4. CASE CalculateHostBandwidth
  <2>1. phase = "share"
    BY <1>4 DEF CalculateHostBandwidth
  <2>. QED
    BY <1>1, <2>1 DEF MovedOK
<1>5. CASE Limit
  <2>1. phase = "limit" /\ ~Even /\ todo \subseteq donors /\ Moved(donors, {})
    BY <1>5 DEF Limit, TypeInv, PcOK, MovedOK
  <2>2. sendLoaded \in Int
    BY Constants DEF TypeInv, TypeOK
  <2>3. \A h \in Hosts : guarantee'[h] = IF h = host THEN Unsigned(sendLoaded) ELSE guarantee[h]
    BY <1>1, <1>5, <2>2, SetGuaranteeMoves DEF Limit
  <2>. HIDE DEF host
  <2>4. \A h \in Accounted : h \in Hosts /\ guarantee'[h] = guarantee[h]
    BY <1>3, <2>1, <2>3 DEF Accounted
  <2>5. Moved(donors, {})'
    BY <1>1, <1>2, <2>1, <2>4 DEF Moved
  <2>. QED
    BY <1>1, <1>2, <2>1, <2>5 DEF MovedOK
<1>6. CASE Take
  <2>1. phase = "take" /\ Even /\ todo \subseteq donors /\ perHostDonation = Taken
        /\ Moved(donors \ Pending, {}) /\ Taken \in Nat
    BY <1>6, MovesFit DEF Take, MovedOK, TypeInv, RoundOK
  <2>2. guarantee[host] - Taken \in Int /\ -Taken \in Int
    BY <1>3, <2>1
  <2>3. /\ host \in Pending /\ Pending' = Pending \ {host}
        /\ \A h \in Hosts : guarantee'[h] = IF h = host THEN Unsigned(guarantee[host] - Taken)
                                                      ELSE guarantee[h]
    BY <1>1, <1>6, <2>1, <2>2, SetGuaranteeMoves DEF Take
  <2>. HIDE DEF host
  <2>4. Moved(donors \ Pending, {})'
    <3>. SUFFICES ASSUME NEW h \in Accounted, told[h] # Nothing
                  PROVE  Congruent(guarantee'[h],
                             told[h] + (IF h \in donors \ Pending' THEN -Taken ELSE 0)
                                     + (IF h \in {} THEN Given ELSE 0))
      BY <1>1, <1>2 DEF Moved
    <3>1. h \in Hosts
      BY DEF Accounted
    <3>2. Congruent(guarantee[h], told[h] + (IF h \in donors \ Pending THEN -Taken ELSE 0) + 0)
      BY <2>1 DEF Moved
    <3>3. CASE h # host
      BY <2>3, <3>1, <3>2, <3>3
    <3>4. CASE h = host
      <4>1. h \in donors \ Pending' /\ h \notin donors \ Pending
        BY <1>3, <2>1, <2>3, <3>4
      <4>2. told[h] + 0 + 0 = told[h] /\ told[h] + (-Taken) + 0 = told[h] + (-Taken)
            /\ guarantee[h] - Taken = guarantee[h] + (-Taken)
        BY <1>3, <2>1, <3>1
      <4>3. Congruent(guarantee[h], told[h])
        BY <3>2, <4>1, <4>2
      <4>4. Congruent(Unsigned(guarantee[h] + (-Taken)), told[h] + (-Taken))
        BY <1>3, <2>2, <3>1, <4>3, StoredIsCongruent
      <4>. QED
        BY <2>3, <3>1, <3>4, <4>1, <4>2, <4>4
    <3>. QED
      BY <3>3, <3>4
  <2>. QED
    BY <1>1, <1>2, <2>1, <2>4 DEF MovedOK
<1>7. CASE Give
  <2>1. phase = "give" /\ todo \subseteq receivers /\ perHostDonation = Given
        /\ Moved(donors, receivers \ Pending) /\ Given \in Nat /\ Taken \in Nat
    BY <1>7, MovesFit DEF Give, MovedOK, TypeInv, RoundOK
  <2>2. guarantee[host] + Given \in Int
    BY <1>3, <2>1
  <2>3. /\ host \in Pending /\ Pending' = Pending \ {host}
        /\ \A h \in Hosts : guarantee'[h] = IF h = host THEN Unsigned(guarantee[host] + Given)
                                                      ELSE guarantee[h]
    BY <1>1, <1>7, <2>1, <2>2, SetGuaranteeMoves DEF Give
  <2>. HIDE DEF host
  <2>4. Moved(donors, receivers \ Pending)'
    <3>. SUFFICES ASSUME NEW h \in Accounted, told[h] # Nothing
                  PROVE  Congruent(guarantee'[h],
                             told[h] + (IF h \in donors THEN -Taken ELSE 0)
                                     + (IF h \in receivers \ Pending' THEN Given ELSE 0))
      BY <1>1, <1>2 DEF Moved
    <3>1. h \in Hosts
      BY DEF Accounted
    <3>2. Congruent(guarantee[h], told[h] + (IF h \in donors THEN -Taken ELSE 0)
                                     + (IF h \in receivers \ Pending THEN Given ELSE 0))
      BY <2>1 DEF Moved
    <3>3. CASE h # host
      BY <2>3, <3>1, <3>2, <3>3
    <3>4. CASE h = host
      <4>1. h \in receivers \ Pending' /\ h \notin receivers \ Pending /\ h \notin donors
        BY <1>0, <1>3, <2>1, <2>3, <3>4
      <4>2. told[h] + 0 + 0 = told[h] /\ told[h] + 0 + Given = told[h] + Given
        BY <1>3, <2>1, <3>1
      <4>3. Congruent(guarantee[h], told[h])
        BY <3>2, <4>1, <4>2
      <4>4. Congruent(Unsigned(guarantee[h] + Given), told[h] + Given)
        BY <1>3, <2>1, <3>1, <4>3, StoredIsCongruent
      <4>. QED
        BY <2>3, <3>1, <3>4, <4>1, <4>2, <4>4
    <3>. QED
      BY <3>3, <3>4
  <2>. QED
    BY <1>1, <1>2, <2>1, <2>4 DEF MovedOK
<1>. QED
  BY <1>4, <1>5, <1>6, <1>7

\* A loop ends, and the next one has all of its hosts to come.
LEMMA PhaseMovedOK ==
    ASSUME TypeInv, KnownOK, MovedOK,
           Wait \/ CheckOutgoing \/ NothingToMove \/ BeginRound \/ TakeDone \/ GiveDone \/ SendDone
                \/ Collect
    PROVE  MovedOK'
<1>1. /\ UNCHANGED <<guarantee, told>> /\ Pending = todo /\ Pending' = todo'
  BY DEF Wait, CheckOutgoing, NothingToMove, BeginRound, TakeDone, GiveDone, SendDone, Collect,
     Goto, hostVars, Pending
<1>2. CASE Wait \/ CheckOutgoing \/ NothingToMove \/ SendDone \/ Collect
  <2>1. phase' \in {"share", "collect", "exited", "check"}
    BY <1>2 DEF Wait, CheckOutgoing, NothingToMove, SendDone, Collect, Goto
  <2>. QED
    BY <2>1 DEF MovedOK
<1>3. CASE BeginRound
  <2>1. /\ phase = "collect" /\ phase' = (IF Even THEN "take" ELSE "limit") /\ todo' = donors
        /\ perHostDonation' = (IF Even THEN Taken ELSE perHostDonation)
        /\ UNCHANGED <<donors, receivers, contribution>>
    BY <1>3 DEF BeginRound, Goto, TakenPerDonor, Taken
  <2>2. UNCHANGED <<Even, Taken, Given, Accounted>>
    BY <2>1 DEF Even, Taken, Given, Accounted
  <2>3. \A h \in Hosts : told[h] # Nothing =>
            guarantee[h] = told[h] /\ told[h] \in Int /\ Congruent(guarantee[h], told[h])
    <3>1. \A h \in Hosts : told[h] \in {Nothing, guarantee[h]} /\ guarantee[h] \in 0 .. Word - 1
      BY <2>1 DEF KnownOK, Current, TypeInv, TypeOK
    <3>2. \A i \in 0 .. Word - 1 : i \in Int /\ Congruent(i, i)
      BY SameIsCongruent, Constants
    <3>. QED
      BY <3>1, <3>2
  <2>4. \A h \in Hosts : told[h] # Nothing => Congruent(guarantee[h], told[h] + 0 + 0)
    BY <2>3
  <2>5. CASE Even
    <3>1. donors' \ Pending' = {}
      BY <1>1, <2>1
    <3>2. Moved(donors \ Pending, {})'
      BY <1>1, <2>2, <2>4, <3>1 DEF Moved, Accounted
    <3>. QED
      BY <2>1, <2>2, <2>5, <3>2 DEF MovedOK
  <2>6. CASE ~Even
    <3>1. \A h \in Accounted : h \in Hosts /\ h \notin donors
      BY <2>6 DEF Accounted
    <3>2. Moved(donors, {})'
      BY <1>1, <2>1, <2>2, <2>4, <3>1 DEF Moved
    <3>. QED
      BY <2>1, <2>2, <2>6, <3>2 DEF MovedOK
  <2>. QED
    BY <2>5, <2>6
<1>4. CASE TakeDone
  <2>1. /\ phase \in {"take", "limit"} /\ todo = {} /\ phase' = "give" /\ todo' = receivers
        /\ perHostDonation' = Given
        /\ UNCHANGED <<donors, receivers, contribution, rounds>>
    BY <1>4 DEF TakeDone, Goto, Given
  <2>2. UNCHANGED <<Even, Taken, Given, Accounted>>
    BY <2>1 DEF Even, Taken, Given, Accounted
  <2>3. Moved(donors, {})
    <3>1. donors \ Pending = donors
      BY <1>1, <2>1
    <3>. QED
      BY <2>1, <3>1 DEF MovedOK
  <2>4. Moved(donors, receivers \ Pending)'
    <3>1. receivers' \ Pending' = {}
      BY <1>1, <2>1
    <3>. QED
      BY <1>1, <2>1, <2>2, <2>3, <3>1 DEF Moved
  <2>. QED
    BY <2>1, <2>2, <2>4 DEF MovedOK
<1>5. CASE GiveDone
  <2>1. /\ phase = "give" /\ todo = {} /\ phase' = "send"
        /\ UNCHANGED <<donors, receivers, contribution, rounds>>
    BY <1>5 DEF GiveDone, Goto, roundVars
  <2>2. UNCHANGED <<Even, Taken, Given, Accounted>>
    BY <2>1 DEF Even, Taken, Given, Accounted
  <2>3. receivers \ Pending = receivers
    BY <1>1, <2>1
  <2>4. Moved(donors, receivers)
    BY <2>1, <2>3 DEF MovedOK
  <2>5. Moved(donors, receivers)'
    BY <1>1, <2>1, <2>2, <2>4 DEF Moved
  <2>. QED
    BY <2>1, <2>5 DEF MovedOK
<1>. QED
  BY <1>2, <1>3, <1>4, <1>5

LEMMA StepRoundInv ==
    ASSUME RoundInv, [Next]_vars
    PROVE  RoundInv'
<1>. USE DEF RoundInv
<1>1. TypeInv' /\ KnownOK' /\ NotCreated'
  BY StepTypeInv, StepKnownOK, StepNotCreated
<1>2. CASE UNCHANGED vars
  <2>1. UNCHANGED <<guarantee, told, phase, todo, roundVars>> /\ Pending' = Pending
    BY <1>2 DEF vars, hostVars, sendVars, Pending, host
  <2>. QED
    BY <1>1, <2>1, SameMovedOK
<1>3. CASE Send
  BY <1>1, <1>3, HostStepMovedOK, AllocateMovedOK, PhaseMovedOK DEF Send
<1>4. CASE Main \/ Recv \/ (\E h \in Hosts : Receive(h))
  BY <1>1, <1>4, RecvLeaves, SameMovedOK
<1>. QED
  BY <1>2, <1>3, <1>4 DEF Next

\* What has been moved adds up to what was found to be spare, but for what the divisions drop.
LEMMA MovedAddsUp ==
    ASSUME RoundInv, phase = "send", todo = Hosts, AllAreTold
    PROVE  Near(Change(Hosts \ donors), contribution) /\ (Even => Near(Change(Hosts), 0))
<1>. DEFINE d == Cardinality(donors)
            r == Cardinality(receivers)
            f(S) == [h \in S |-> guarantee[h] - told[h]]
<1>1. /\ donors # {} /\ receivers # {} /\ contribution > 0 /\ Moved(donors, receivers)
      /\ donors \subseteq Hosts /\ receivers \subseteq Hosts /\ donors \cap receivers = {}
      /\ \A h \in Hosts : told[h] # Nothing
  BY DEF RoundInv, TypeInv, TypeOK, RoundOK, MovedOK, AllAreTold
<1>2. /\ Taken \in Nat /\ Given \in Nat /\ contribution \in Nat
      /\ d \in 1 .. NumberOfHosts /\ r \in 1 .. NumberOfHosts
  BY <1>1, MovesFit DEF RoundInv
<1>3. \A h \in Hosts : guarantee[h] \in Int /\ told[h] \in Int
  <2>1. \A h \in Hosts : guarantee[h] \in 0 .. Word - 1 /\ told[h] \in {Nothing} \cup 0 .. Word - 1
    BY DEF RoundInv, TypeInv, TypeOK
  <2>. QED
    BY <2>1, Constants DEF Nothing
<1>4. ASSUME NEW S \in SUBSET Accounted
      PROVE  /\ Change(S) \in Int
             /\ Congruent(Change(S), (-Taken) * Cardinality(S \cap donors)
                                         + Given * Cardinality(S \cap receivers))
  <2>1. S \subseteq Hosts /\ IsFiniteSet(S)
    BY CardinalityOfHosts DEF Accounted
  <2>2. \A h \in S : f(S)[h] \in Int /\ Congruent(f(S)[h],
            (IF h \in donors THEN -Taken ELSE 0) + (IF h \in receivers THEN Given ELSE 0))
    <3>. SUFFICES ASSUME NEW h \in S
                  PROVE  guarantee[h] - told[h] \in Int /\ Congruent(guarantee[h] - told[h],
            (IF h \in donors THEN -Taken ELSE 0) + (IF h \in receivers THEN Given ELSE 0))
      OBVIOUS
    <3>. DEFINE a == IF h \in donors THEN -Taken ELSE 0
                b == IF h \in receivers THEN Given ELSE 0
    <3>1. /\ guarantee[h] \in Int /\ told[h] \in Int /\ -told[h] \in Int
          /\ a \in Int /\ b \in Int
      BY <1>2, <1>3, <2>1
    <3>2. Congruent(guarantee[h], told[h] + a + b)
      BY <1>1, <2>1 DEF Moved
    <3>. HIDE DEF a, b
    <3>3. told[h] + a + b \in Int
      BY <3>1
    <3>4. Congruent(guarantee[h] + (-told[h]), told[h] + a + b + (-told[h]))
      BY <3>1, <3>2, <3>3, SameIsCongruent, CongruentAdds
    <3>5. guarantee[h] + (-told[h]) = guarantee[h] - told[h]
          /\ told[h] + a + b + (-told[h]) = a + b
      BY <3>1
    <3>6. guarantee[h] - told[h] \in Int /\ Congruent(guarantee[h] - told[h], a + b)
      <4>1. guarantee[h] - told[h] \in Int
        BY <3>1
      <4>. QED
        BY <3>4, <3>5, <4>1
    <3>. QED
      BY <3>6 DEF a, b
  <2>3. -Taken \in Int /\ Given \in Int
    BY <1>2
  <2>4. Change(S) = SumFunctionOnSet(f(S), S)
    <3>1. DOMAIN f(S) = S
      OBVIOUS
    <3>. QED
      BY <3>1 DEF Change, SumFunction
  <2>. DEFINE c == -Taken
  <2>5. Weighted(f(S), S, donors, c, receivers, Given)
    BY <2>2 DEF Weighted
  <2>. HIDE DEF f, c
  <2>6. c \in Int
    BY <2>3 DEF c
  <2>7. /\ SumFunctionOnSet(f(S), S) \in Int
        /\ Congruent(SumFunctionOnSet(f(S), S),
                     c * Cardinality(S \cap donors) + Given * Cardinality(S \cap receivers))
    BY <2>1, <2>3, <2>5, <2>6, SumOfWeights
  <2>. QED
    BY <2>4, <2>7 DEF c
<1>5. /\ Given * r <= contribution /\ contribution < Given * r + r
      /\ Taken * d <= contribution /\ contribution < Taken * d + d
      /\ Given * r \in Int /\ Taken * d \in Int
  <2>1. \A c \in Nat, n \in Nat \ {0} : /\ (c \div n) * n <= c /\ c < (c \div n) * n + n
                                       /\ (c \div n) * n \in Int
    OBVIOUS
  <2>2. contribution \in Nat /\ d \in Nat \ {0} /\ r \in Nat \ {0}
    BY <1>2, Constants
  <2>3. Taken = contribution \div d /\ Given = contribution \div r
    BY DEF Taken, Given
  <2>. HIDE DEF d, r
  <2>. QED
    BY <2>1, <2>2, <2>3
<1>6. Near(Change(Hosts \ donors), contribution)
  <2>. DEFINE S == Hosts \ donors
              e == Given * r - contribution
  <2>1. S \in SUBSET Accounted /\ S \cap donors = {} /\ S \cap receivers = receivers
    BY <1>1 DEF Accounted
  <2>2. Cardinality(S \cap donors) = 0 /\ (-Taken) * 0 = 0
    BY <1>2, <2>1, FS_EmptySet
  <2>3. Change(S) \in Int /\ Congruent(Change(S), 0 + Given * r)
    BY <1>4, <2>1, <2>2
  <2>. HIDE DEF S, d, r
  <2>4. Change(S) - contribution - e = Change(S) - (0 + Given * r) /\ 0 + Given * r \in Int
    BY <1>2, <1>5, <2>3
  <2>5. Unsigned(Change(S) - contribution - e) = 0
    BY <2>3, <2>4, CongruentDifference
  <2>6. e \in 1 - NumberOfHosts .. NumberOfHosts - 1
    BY <1>2, <1>5, Constants
  <2>. QED
    BY <2>5, <2>6 DEF Near, S
<1>7. ASSUME Even PROVE Near(Change(Hosts), 0)
  <2>. DEFINE e == Given * r - Taken * d
  <2>1. Hosts \in SUBSET Accounted /\ Hosts \cap donors = donors /\ Hosts \cap receivers = receivers
    BY <1>1, <1>7 DEF Accounted
  <2>2. Change(Hosts) \in Int /\ Congruent(Change(Hosts), (-Taken) * d + Given * r)
    BY <1>4, <2>1
  <2>3. (-Taken) * d = -(Taken * d)
    BY <1>2
  <2>. HIDE DEF d, r
  <2>4. /\ Change(Hosts) - 0 - e = Change(Hosts) - ((-Taken) * d + Given * r)
        /\ (-Taken) * d + Given * r \in Int
    BY <1>5, <2>2, <2>3
  <2>5. Unsigned(Change(Hosts) - 0 - e) = 0
    BY <2>2, <2>4, CongruentDifference
  <2>6. e \in 1 - NumberOfHosts .. NumberOfHosts - 1
    BY <1>2, <1>5, Constants
  <2>. QED
    BY <2>5, <2>6 DEF Near
<1>. QED
  BY <1>6, <1>7

\* Every round moves bandwidth, whatever hosts demand and whenever the receive thread stores
\* it, and whatever wraps: the hosts that are not donors get what the donors were found to have
\* to spare, and where the donors are as many as the receivers they lose it, but for less than
\* one unit of bandwidth a host (HostBandwidthHandler.cpp:210).
THEOREM RoundsAlwaysMoveBandwidth == Spec => []RoundsMoveBandwidth
<1>1. Init => RoundInv
  <2>. SUFFICES ASSUME Init PROVE RoundInv
    OBVIOUS
  <2>1. NotCreated /\ MovedOK
    BY DEF Init, NotCreated, MovedOK
  <2>. QED
    BY <2>1, InitTypeInv, InitKnownOK DEF RoundInv
<1>2. RoundInv /\ [Next]_vars => RoundInv'
  BY StepRoundInv
<1>3. RoundInv => RoundsMoveBandwidth
  BY MovedAddsUp DEF RoundsMoveBandwidth
<1>. QED
  BY <1>1, <1>2, <1>3, PTL DEF Spec

-----------------------------------------------------------------------------
(* The sharing: the adaptor and the agents together.                        *)

EqualShare == TotalBandwidth \div NumberOfHosts

LEMMA ShareFits ==
    /\ EqualShare \in Nat /\ NumberOfHosts * EqualShare <= TotalBandwidth
    /\ EqualShare <= TotalBandwidth /\ Unsigned(EqualShare) = EqualShare
<1>1. TotalBandwidth \in Nat /\ NumberOfHosts \in Nat \ {0} /\ Word \in Nat /\ TotalBandwidth < Word
  BY Constants, HandlerAssumption DEF HandlerAssumption
<1>2. \A t \in Nat, n \in Nat \ {0} : t \div n \in Nat /\ n * (t \div n) <= t /\ t \div n <= t
  OBVIOUS
<1>3. /\ EqualShare \in Nat /\ NumberOfHosts * EqualShare <= TotalBandwidth
      /\ EqualShare <= TotalBandwidth
  BY <1>1, <1>2 DEF EqualShare
<1>. QED
  BY <1>1, <1>3 DEF Unsigned

\* Static allocation: there is no round, and nobody is told anything but its share.
StaticOK == phase \in {"wait", "share", "exited"}

EqualOK ==
    /\ \A h \in Hosts : guarantee[h] \in {0, EqualShare} /\ told[h] \in {Nothing, EqualShare}
    /\ phase = "share" => \A h \in Hosts \ Pending : guarantee[h] = EqualShare

\* What is under way to a host, stored there and enforced is what the host was told.
AgentsOK ==
    /\ bandwidthGuarantee \in [Hosts -> {0, EqualShare}] /\ ceil \in [Hosts -> {0, EqualShare}]
    /\ toHost \in [Hosts -> {Nothing, Lost, EqualShare}]
    /\ \A h \in Hosts : toHost[h] # Nothing \/ bandwidthGuarantee[h] # 0 \/ ceil[h] # 0
                            => told[h] # Nothing

ShareInv == TypeInv /\ KnownOK /\ NotCreated /\ StaticOK /\ EqualOK
SharingInv == ShareInv /\ AgentsOK

\* The adaptor does what it does alone, or nothing.
LEMMA AdaptorSteps ==
    ASSUME [SharingNext]_sharingVars
    PROVE  [Next]_vars
BY DEF SharingNext, sharingVars, AdaptorStarts, AdaptorReceives, AdaptorSends, Tell, Hear, Deliver,
   AgentRuns, Next, Send

LEMMA StepStaticOK ==
    ASSUME ~DynamicAllocation, TypeInv, StaticOK, [Next]_vars
    PROVE  StaticOK'
<1>1. ASSUME UNCHANGED phase PROVE StaticOK'
  BY <1>1 DEF StaticOK
<1>2. CASE Main \/ Recv \/ (\E h \in Hosts : Receive(h)) \/ UNCHANGED vars
  BY <1>1, <1>2 DEF Main, CreateReceive, FlagReceive, CreateSend, FlagSend, Recv, CheckIncoming,
     Receive, SetAddress, SetDemand, LoadGuarantee, RecvDelta, sendVars, vars
<1>3. CASE LoadDemand \/ SendDelta \/ SendTo \/ LimitLoad \/ CalculateHostBandwidth \/ Take
               \/ Limit \/ Give
  BY <1>1, <1>3 DEF LoadDemand, SendDelta, SendTo, LimitLoad, CalculateHostBandwidth, Take, Limit,
     Give, SetGuarantee
<1>4. CASE Wait \/ CheckOutgoing
  BY <1>4 DEF Wait, CheckOutgoing, Goto, StaticOK
<1>5. ~Collect /\ ~NothingToMove /\ ~BeginRound /\ ~TakeDone /\ ~GiveDone /\ ~SendDone
  BY DEF Collect, NothingToMove, BeginRound, TakeDone, GiveDone, SendDone, StaticOK
<1>. QED
  BY <1>2, <1>3, <1>4, <1>5 DEF Next, Send

LEMMA StepEqualOK ==
    ASSUME ~DynamicAllocation, ShareInv, [Next]_vars
    PROVE  EqualOK'
<1>. USE DEF ShareInv
<1>0. /\ todo \subseteq Hosts /\ bandwidthMap \subseteq Hosts
      /\ told \in [Hosts -> {Nothing} \cup 0 .. Word - 1]
  BY DEF TypeInv, TypeOK
<1>1. CASE UNCHANGED vars
  BY <1>1 DEF vars, hostVars, sendVars, EqualOK, Pending, host
<1>2. CASE Main \/ Recv \/ (\E h \in Hosts : Receive(h))
  BY <1>2, RecvLeaves DEF EqualOK
<1>3. CASE LoadDemand \/ SendDelta
  <2>1. UNCHANGED <<guarantee, told, phase>> /\ Pending' = Pending
    BY <1>3 DEF LoadDemand, SendDelta, hostVars, Pending, host
  <2>. QED
    BY <2>1 DEF EqualOK
<1>4. CASE SendTo
  <2>1. sendPc = "send" /\ phase = "share" /\ todo # {}
    BY <1>4 DEF SendTo, StaticOK, TypeInv, PcOK
  <2>2. host \in Hosts /\ host \notin Pending
    BY <1>0, <2>1, HostIsToCome DEF Pending
  <2>3. UNCHANGED <<guarantee, phase>> /\ Pending' = Pending
    BY <1>4, <2>1 DEF SendTo, hostVars, Pending
  <2>4. guarantee[host] = EqualShare
    BY <2>1, <2>2 DEF EqualOK
  <2>. HIDE DEF host
  <2>5. \A h \in Hosts : told'[h] \in {told[h], EqualShare}
    BY <1>0, <1>4, <2>2, <2>4 DEF SendTo
  <2>. QED
    BY <2>3, <2>5 DEF EqualOK
<1>5. CASE CalculateHostBandwidth
  <2>1. phase = "share" /\ sendPc = "next" /\ todo # {} /\ UNCHANGED <<told, phase>>
    BY <1>5 DEF CalculateHostBandwidth, SetGuarantee
  <2>2. EqualShare \in Int /\ Share = EqualShare
    BY <2>1, ShareFits, Constants DEF KnownOK, Share, EqualShare
  <2>3. /\ host \in Pending /\ Pending' = Pending \ {host}
        /\ \A h \in Hosts : guarantee'[h] = IF h = host THEN EqualShare ELSE guarantee[h]
    BY <1>5, <2>1, <2>2, ShareFits, SetGuaranteeMoves DEF CalculateHostBandwidth
  <2>. HIDE DEF host
  <2>. QED
    BY <2>1, <2>3 DEF EqualOK
<1>6. CASE Wait
  <2>1. UNCHANGED <<guarantee, told>> /\ Pending' = Hosts
    BY <1>0, <1>6, CardinalityOfHosts DEF Wait, Goto, GotAllHosts, hostVars, Pending
  <2>. QED
    BY <2>1 DEF EqualOK
<1>7. CASE CheckOutgoing
  <2>1. UNCHANGED <<guarantee, told>> /\ phase' # "share"
    BY <1>7 DEF CheckOutgoing, Goto, hostVars
  <2>. QED
    BY <2>1 DEF EqualOK
<1>8. ~LimitLoad /\ ~Limit /\ ~Take /\ ~Give
  BY DEF LimitLoad, Limit, Take, Give, StaticOK, TypeInv, PcOK
<1>9. ~Collect /\ ~NothingToMove /\ ~BeginRound /\ ~TakeDone /\ ~GiveDone /\ ~SendDone
  BY DEF Collect, NothingToMove, BeginRound, TakeDone, GiveDone, SendDone, StaticOK
<1>. QED
  BY <1>1, <1>2, <1>3, <1>4, <1>5, <1>6, <1>7, <1>8, <1>9 DEF Next, Send

\* The adaptor tells a host its share.
LEMMA TellAgentsOK ==
    ASSUME SharingInv, Tell
    PROVE  AgentsOK'
<1>1. /\ told \in [Hosts -> {Nothing} \cup 0 .. Word - 1] /\ todo \subseteq Hosts
      /\ sendPc = "send" /\ phase = "share" /\ todo # {}
  BY DEF Tell, SendTo, SharingInv, ShareInv, StaticOK, TypeInv, TypeOK, PcOK
<1>2. host \in Hosts /\ host \notin Pending
  BY <1>1, HostIsToCome DEF Pending
<1>3. guarantee[host] = EqualShare
  BY <1>1, <1>2 DEF SharingInv, ShareInv, EqualOK
<1>4. UNCHANGED <<bandwidthGuarantee, ceil>>
  BY DEF Tell, agentVars
<1>. HIDE DEF host
<1>5. CASE host \notin address
  <2>1. told' = told /\ \E arrives \in BOOLEAN : toHost' = [toHost EXCEPT ![host] = @]
    BY <1>5 DEF Tell, SendTo
  <2>2. toHost' = toHost
    BY <2>1 DEF SharingInv, AgentsOK
  <2>. QED
    BY <1>4, <2>1, <2>2 DEF SharingInv, AgentsOK
<1>6. CASE host \in address
  <2>1. told' = [told EXCEPT ![host] = EqualShare]
    BY <1>3, <1>6 DEF Tell, SendTo
  <2>2. PICK v \in {EqualShare, Lost} : toHost' = [toHost EXCEPT ![host] = v]
    BY <1>3, <1>6 DEF Tell
  <2>3. EqualShare # Nothing
    BY ShareFits DEF Nothing
  <2>. QED
    BY <1>1, <1>2, <1>4, <2>1, <2>2, <2>3 DEF SharingInv, AgentsOK
<1>. QED
  BY <1>5, <1>6

\* A host stores what arrives, and enforces what it has stored.
LEMMA HostAgentsOK ==
    ASSUME SharingInv, NEW h \in Hosts, Deliver(h) \/ AgentRuns(h)
    PROVE  AgentsOK'
<1>0. told' = told /\ AgentsOK
  BY DEF Deliver, AgentRuns, vars, sendVars, SharingInv
<1>1. CASE Deliver(h)
  <2>1. toHost[h] = EqualShare
    BY <1>0, <1>1 DEF Deliver, AgentsOK, Nothing, Lost
  <2>2. /\ bandwidthGuarantee' = [bandwidthGuarantee EXCEPT ![h] = toHost[h]]
        /\ toHost' = [toHost EXCEPT ![h] = Nothing] /\ ceil' = ceil
    BY <1>1 DEF Deliver, Agent!Receive, Agent!queueVars
  <2>3. told[h] # Nothing
    BY <1>0, <2>1, ShareFits DEF AgentsOK, Nothing
  <2>. QED
    BY <1>0, <2>1, <2>2, <2>3 DEF AgentsOK
<1>2. CASE AgentRuns(h)
  <2>1. toHost' = toHost
    BY <1>2 DEF AgentRuns
  <2>2. /\ bandwidthGuarantee' = bandwidthGuarantee
        /\ \/ ceil' = ceil
           \/ ceil' = [ceil EXCEPT ![h] = bandwidthGuarantee[h]]
    <3>1. CASE Agent!Start(h)
      BY <3>1 DEF Agent!Start, Agent!queueVars, Agent!incomingVars
    <3>2. CASE Agent!Send(h)
      BY <3>2 DEF Agent!Send, Agent!queueVars, Agent!incomingVars
    <3>3. CASE Agent!Clear(h)
      BY <3>3 DEF Agent!Clear
    <3>4. CASE Agent!Add(h)
      <4>1. bandwidthGuarantee' = bandwidthGuarantee
        BY <3>4 DEF Agent!Add
      <4>2. \/ ceil' = ceil
            \/ ceil' = [ceil EXCEPT ![h] = bandwidthGuarantee[h]]
            \/ ceil' = [ceil EXCEPT ![h] = @]
        BY <3>4 DEF Agent!Add, Agent!queueVars
      <4>. QED
        BY <1>0, <4>1, <4>2 DEF AgentsOK
    <3>. QED
      BY <1>2, <3>1, <3>2, <3>3, <3>4 DEF AgentRuns, Agent!Queues
  <2>. QED
    BY <1>0, <2>1, <2>2 DEF AgentsOK
<1>. QED
  BY <1>1, <1>2

\* But for telling, the adaptor does not touch what hosts were told.
LEMMA AdaptorAgentsOK ==
    ASSUME SharingInv,
           AdaptorStarts \/ AdaptorReceives \/ (~AtSendTo /\ Send /\ UNCHANGED <<agentVars, toHost>>)
               \/ (\E h \in Hosts : Hear(h)) \/ UNCHANGED sharingVars
    PROVE  AgentsOK'
<1>1. UNCHANGED <<bandwidthGuarantee, ceil, toHost>>
  BY DEF AdaptorStarts, AdaptorReceives, Hear, agentVars, sharingVars
<1>2. told' = told
  BY DEF AdaptorStarts, AdaptorReceives, Hear, sharingVars, vars, Main, CreateReceive, FlagReceive,
     CreateSend, FlagSend, Recv, CheckIncoming, Receive, SetAddress, SetDemand, LoadGuarantee,
     RecvDelta, Send, Wait, CalculateHostBandwidth, LoadDemand, SendDelta, SendTo, CheckOutgoing,
     Collect, NothingToMove, BeginRound, Take, LimitLoad, Limit, TakeDone, Give, GiveDone, SendDone,
     SetGuarantee, Goto, sendVars, AtSendTo
<1>. QED
  BY <1>1, <1>2 DEF SharingInv, AgentsOK

\* With static allocation, however reports and datagrams are lost and interleave: nobody is
\* limited before every host of the tenant is known, and what the hosts enforce then adds up
\* to no more than the tenant has.
THEOREM LimitsAlwaysNeedEveryHost ==
    ASSUME ~DynamicAllocation
    PROVE  SharingSpec => []LimitsNeedEveryHost
<1>1. SharingInit => SharingInv
  <2>. SUFFICES ASSUME SharingInit PROVE SharingInv
    OBVIOUS
  <2>1. Init /\ Agent!Init
    BY DEF SharingInit
  <2>2. NotCreated /\ EqualOK /\ StaticOK
    BY <2>1 DEF Init, NotCreated, EqualOK, StaticOK
  <2>3. AgentsOK
    BY <2>1 DEF SharingInit, Agent!Init, AgentsOK
  <2>. QED
    BY <2>1, <2>2, <2>3, InitTypeInv, InitKnownOK DEF SharingInv, ShareInv
<1>2. SharingInv /\ [SharingNext]_sharingVars => SharingInv'
  <2>. SUFFICES ASSUME SharingInv, [SharingNext]_sharingVars PROVE SharingInv'
    OBVIOUS
  <2>1. [Next]_vars
    BY AdaptorSteps
  <2>2. ShareInv'
    BY <2>1, StepTypeInv, StepKnownOK, StepNotCreated, StepStaticOK, StepEqualOK
       DEF SharingInv, ShareInv
  <2>3. AgentsOK'
    BY TellAgentsOK, HostAgentsOK, AdaptorAgentsOK DEF SharingNext, AdaptorSends
  <2>. QED
    BY <2>2, <2>3 DEF SharingInv
<1>3. SharingInv => LimitsNeedEveryHost
  <2>. SUFFICES ASSUME SharingInv PROVE LimitsNeedEveryHost
    OBVIOUS
  <2>1. \A h \in Hosts : told[h] \in {Nothing, EqualShare}
    BY DEF SharingInv, ShareInv, EqualOK
  <2>2. ASSUME NEW h \in Hosts, ceil[h] # 0 PROVE bandwidthMap = Hosts
    BY <2>2 DEF SharingInv, AgentsOK, ShareInv, KnownOK
  <2>3. SumFunction(ceil) <= TotalBandwidth
    <3>1. DOMAIN ceil = Hosts /\ \A h \in Hosts : ceil[h] \in Int /\ ceil[h] <= EqualShare
      BY ShareFits DEF SharingInv, AgentsOK
    <3>2. /\ SumFunctionOnSet(ceil, Hosts) \in Int
          /\ SumFunctionOnSet(ceil, Hosts) <= EqualShare * NumberOfHosts
      BY <3>1, SumBound, ShareFits, Constants
    <3>3. EqualShare * NumberOfHosts = NumberOfHosts * EqualShare
          /\ NumberOfHosts * EqualShare \in Int
      BY ShareFits, Constants
    <3>. QED
      BY <3>1, <3>2, <3>3, ShareFits, Constants DEF SumFunction
  <2>. QED
    BY <2>1, <2>2, <2>3 DEF LimitsNeedEveryHost, EqualShare
<1>. QED
  BY <1>1, <1>2, <1>3, PTL DEF SharingSpec

=============================================================================
