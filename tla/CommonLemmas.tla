---------------------------- MODULE CommonLemmas ----------------------------
(***************************************************************************)
(* Lemmas the proofs of several components share: induction and recursion, *)
(* sums, division.                                                         *)
(*                                                                         *)
(* The library states induction for an operator P(_); here it is stated    *)
(* for a set, and recursion for a function that maps a set and the result  *)
(* before it to the next result.  So each can be applied to whatever set   *)
(* or function a proof defines.                                            *)
(***************************************************************************)
EXTENDS Integers, FiniteSets, FiniteSetsExt, FiniteSetTheorems, WellFoundedInduction, TLAPS

Less == {pair \in Nat \X Nat : pair[1] < pair[2]}

\* There is no infinite descent in the natural numbers.
LEMMA LessWellFounded == IsWellFoundedOn(Less, Nat)
  BY NatLessThanWellFounded DEF OpToRel, Less

\* A set of natural numbers that is not empty has a least element.
LEMMA LeastNumber ==
  ASSUME NEW T, T \subseteq Nat, T # {}
  PROVE  \E m \in T : \A n \in T : m <= n
<1>1. PICK m \in T : \A n \in T : ~(<<n, m>> \in Less)
  BY LessWellFounded, WFMin
<1>2. \A n \in T : n \in Nat /\ m \in Nat /\ ~(n < m)
  BY <1>1 DEF Less
<1>3. \A n \in T : m <= n
  BY <1>2
<1>4. QED
  BY <1>3

\* A set that has 0 and with every natural number the next one has them all.
LEMMA SetInduction ==
  ASSUME NEW S, 0 \in S, \A n \in Nat : n \in S => n + 1 \in S
  PROVE  Nat \subseteq S
<1> DEFINE Missing == {n \in Nat : n \notin S}
<1>1. SUFFICES ASSUME Missing # {} PROVE FALSE
  OBVIOUS
<1>2. PICK m \in Missing : \A n \in Missing : m <= n
  <2>1. Missing \subseteq Nat
    OBVIOUS
  <2> HIDE DEF Missing
  <2>2. QED
    BY <1>1, <2>1, LeastNumber
<1>3. m # 0 /\ m \in Nat
  BY <1>2
<1>4. m - 1 \in Nat /\ m - 1 \notin Missing
  BY <1>2, <1>3
<1>5. (m - 1) + 1 \in S
  BY <1>4
<1>6. QED
  BY <1>2, <1>3, <1>5

\* The same for the numbers up to n.
LEMMA RangeInduction ==
  ASSUME NEW S, NEW n \in Nat, 0 \in S, \A i \in 1 .. n : i - 1 \in S => i \in S
  PROVE  \A i \in 0 .. n : i \in S
<1> DEFINE T == {i \in Nat : i <= n => i \in S}
<1>1. 0 \in T
  OBVIOUS
<1>2. ASSUME NEW i \in Nat, i \in T PROVE i + 1 \in T
  <2>1. CASE i + 1 <= n
    <3>1. i + 1 \in 1 .. n /\ (i + 1) - 1 = i /\ i <= n
      BY <2>1
    <3>2. QED
      BY <1>2, <3>1
  <2>2. QED
    BY <2>1
<1> HIDE DEF T
<1>3. Nat \subseteq T
  BY <1>1, <1>2, SetInduction
<1>4. QED
  BY <1>3 DEF T

\* A result for every subset of S: the one for s follows from the one for s without
\* the element pick[s].  The folds of the library are of this form.
SubsetRecursions(S, R, base, pick, step) ==
  {h \in [SUBSET S -> R] : \A s \in SUBSET S :
     h[s] = IF s = {} THEN base ELSE step[<<s, h[s \ {pick[s]}]>>]}

\* Over the subsets of a finite set there is such a recursion.
LEMMA SubsetRecursion ==
  ASSUME NEW S, IsFiniteSet(S), NEW R, NEW base \in R,
         NEW pick, \A s \in SUBSET S : s # {} => pick[s] \in s,
         NEW step \in [(SUBSET S) \X R -> R]
  PROVE  SubsetRecursions(S, R, base, pick, step) # {}
<1> DEFINE Value(h, s) == IF s = {} THEN base ELSE step[<<s, h[s \ {pick[s]}]>>]
           Good(h, k) == \A s \in SUBSET S : Cardinality(s) <= k => h[s] = Value(h, s)
           n == Cardinality(S)
           T == {k \in 0 .. n : \E h \in [SUBSET S -> R] : Good(h, k)}
<1>1. n \in Nat
  BY FS_CardinalityType
<1>2. \A s \in SUBSET S : IsFiniteSet(s) /\ Cardinality(s) \in 0 .. n
  <2>1. ASSUME NEW s \in SUBSET S PROVE IsFiniteSet(s) /\ Cardinality(s) \in 0 .. n
    BY <1>1, FS_Subset, FS_CardinalityType
  <2>2. QED
    BY <2>1
<1>3. \A s \in SUBSET S : Cardinality(s) = 0 => s = {}
  <2>1. ASSUME NEW s \in SUBSET S, Cardinality(s) = 0 PROVE s = {}
    BY <1>2, <2>1, FS_EmptySet
  <2>2. QED
    BY <2>1
<1>4. \A s \in SUBSET S : s # {} =>
        /\ s \ {pick[s]} \in SUBSET S
        /\ Cardinality(s \ {pick[s]}) = Cardinality(s) - 1
  <2>1. ASSUME NEW s \in SUBSET S, s # {}
        PROVE  Cardinality(s \ {pick[s]}) = Cardinality(s) - 1
    <3>1. IsFiniteSet(s) /\ pick[s] \in s
      BY <1>2, <2>1
    <3>2. QED
      BY <3>1, FS_RemoveElement
  <2>2. QED
    BY <2>1
<1>5. \A h \in [SUBSET S -> R], s \in SUBSET S : Value(h, s) \in R
  <2>1. ASSUME NEW h \in [SUBSET S -> R], NEW s \in SUBSET S, s # {}
        PROVE  step[<<s, h[s \ {pick[s]}]>>] \in R
    BY <1>4
  <2>2. QED
    BY <2>1
<1>6. 0 \in T
  <2> DEFINE h == [s \in SUBSET S |-> base]
  <2>1. h \in [SUBSET S -> R]
    OBVIOUS
  <2>2. Good(h, 0)
    <3>1. ASSUME NEW s \in SUBSET S, Cardinality(s) <= 0 PROVE h[s] = Value(h, s)
      <4>1. s = {}
        BY <1>1, <1>2, <1>3, <3>1
      <4>2. QED
        BY <4>1
    <3>2. QED
      BY <3>1
  <2> HIDE DEF h, Good
  <2>3. QED
    BY <1>1, <2>1, <2>2
<1>7. ASSUME NEW k \in 1 .. n, k - 1 \in T PROVE k \in T
  <2>1. PICK g \in [SUBSET S -> R] : Good(g, k - 1)
    BY <1>7
  <2> DEFINE h == [s \in SUBSET S |-> IF Cardinality(s) = k THEN Value(g, s) ELSE g[s]]
  <2>2. h \in [SUBSET S -> R]
    <3> HIDE DEF Value
    <3>1. QED
      BY <1>5
  <2>3. ASSUME NEW s \in SUBSET S, Cardinality(s) <= k PROVE h[s] = Value(h, s)
    <3>1. Cardinality(s) \in Nat /\ k \in Nat
      BY <1>1, <1>2
    <3>2. Value(h, s) = Value(g, s)
      <4>1. CASE s = {}
        BY <4>1
      <4>2. CASE s # {}
        <5>1. s \ {pick[s]} \in SUBSET S /\ Cardinality(s \ {pick[s]}) # k
          BY <1>4, <2>3, <3>1, <4>2
        <5>2. h[s \ {pick[s]}] = g[s \ {pick[s]}]
          BY <5>1
        <5>3. QED
          BY <5>2
      <4>3. QED
        BY <4>1, <4>2
    <3>3. CASE Cardinality(s) = k
      <4> HIDE DEF Value
      <4>1. QED
        BY <3>2, <3>3
    <3>4. CASE Cardinality(s) # k
      <4>1. Cardinality(s) <= k - 1
        BY <2>3, <3>1, <3>4
      <4>2. g[s] = Value(g, s)
        BY <2>1, <4>1
      <4> HIDE DEF Value
      <4>3. QED
        BY <3>2, <3>4, <4>2
    <3>5. QED
      BY <3>3, <3>4
  <2> HIDE DEF h, Value
  <2>4. Good(h, k)
    BY <2>3
  <2> HIDE DEF Good
  <2>5. k \in 0 .. n
    BY <1>1
  <2>6. QED
    BY <2>2, <2>4, <2>5
<1>8. n \in T
  <2> HIDE DEF T, n
  <2>1. \A k \in 0 .. n : k \in T
    BY <1>1, <1>6, <1>7, RangeInduction
  <2>2. QED
    BY <1>1, <2>1
<1>9. PICK h \in [SUBSET S -> R] : Good(h, n)
  BY <1>8
<1>10. \A s \in SUBSET S : h[s] = Value(h, s)
  <2>1. \A s \in SUBSET S : Cardinality(s) <= n
    BY <1>1, <1>2
  <2> HIDE DEF Value, n
  <2>2. QED
    BY <1>9, <2>1
<1>11. QED
  BY <1>10 DEF SubsetRecursions

-----------------------------------------------------------------------------
(* Sums                                                                    *)

\* The element MapThenSumSet takes off a set next.
Pick(s) == CHOOSE x \in s : TRUE

\* A set of subsets that has {} and with s, less the element taken off next, also s,
\* has all subsets.
LEMMA SubsetInduction ==
  ASSUME NEW S, IsFiniteSet(S), NEW T, {} \in T,
         \A s \in SUBSET S : s # {} /\ s \ {Pick(s)} \in T => s \in T
  PROVE  \A s \in SUBSET S : s \in T
<1> DEFINE n == Cardinality(S)
           K == {k \in 0 .. n : \A s \in SUBSET S : Cardinality(s) = k => s \in T}
<1>1. n \in Nat
  BY FS_CardinalityType
<1>2. \A s \in SUBSET S : IsFiniteSet(s) /\ Cardinality(s) \in 0 .. n
  <2>1. ASSUME NEW s \in SUBSET S PROVE IsFiniteSet(s) /\ Cardinality(s) \in 0 .. n
    BY <1>1, FS_Subset, FS_CardinalityType
  <2>2. QED
    BY <2>1
<1>3. 0 \in K
  <2>1. ASSUME NEW s \in SUBSET S, Cardinality(s) = 0 PROVE s \in T
    <3>1. s = {}
      BY <1>2, <2>1, FS_EmptySet
    <3>2. QED
      BY <3>1
  <2>2. QED
    BY <1>1, <2>1
<1>4. ASSUME NEW k \in 1 .. n, k - 1 \in K PROVE k \in K
  <2>1. ASSUME NEW s \in SUBSET S, Cardinality(s) = k PROVE s \in T
    <3>1. s # {}
      <4>1. Cardinality({}) = 0
        BY FS_EmptySet
      <4>2. k # 0
        BY <1>1
      <4>3. QED
        BY <2>1, <4>1, <4>2
    <3>2. Pick(s) \in s
      BY <3>1 DEF Pick
    <3>3. Cardinality(s \ {Pick(s)}) = Cardinality(s) - 1
      BY <1>2, <3>2, FS_RemoveElement
    <3>4. s \ {Pick(s)} \in T
      BY <1>4, <2>1, <3>3
    <3>5. QED
      BY <3>1, <3>4
  <2>2. QED
    BY <1>1, <2>1
<1> HIDE DEF K, n
<1>5. \A k \in 0 .. n : k \in K
  BY <1>1, <1>3, <1>4, RangeInduction
<1>6. QED
  BY <1>2, <1>5 DEF K

\* The values of h are the sums of f over the subsets of S.
AreSums(h, f, S) ==
  /\ h[{}] = 0
  /\ \A s \in SUBSET S : h[s] \in Nat
  /\ \A s \in SUBSET S : s # {} =>
       /\ h[s] = f[Pick(s)] + h[s \ {Pick(s)}]
       /\ h[s \ {Pick(s)}] \in Nat
       /\ Pick(s) \in s /\ Pick(s) \in S

SumOf(f, S) == MapThenSumSet(LAMBDA x : f[x], S)

\* The total that MapThenSumSet finds is one of them.
LEMMA SumUnfold ==
  ASSUME NEW S, IsFiniteSet(S), NEW f \in [S -> Nat]
  PROVE  \E h : AreSums(h, f, S) /\ SumOf(f, S) = h[S]
<1> DEFINE pick == [s \in SUBSET S |-> Pick(s)]
           step == [p \in (SUBSET S) \X Nat |-> IF p[1] = {} THEN 0 ELSE f[Pick(p[1])] + p[2]]
           Equation(g) == g = [s \in SUBSET S |->
             IF s = {} THEN 0 ELSE f[Pick(s)] + g[s \ {Pick(s)}]]
           iter == CHOOSE g : Equation(g)
<1>1. SumOf(f, S) = iter[S]
  BY DEF SumOf, MapThenSumSet, MapThenFoldSet, Pick
<1>2. \A s \in SUBSET S : s # {} => Pick(s) \in s /\ Pick(s) \in S
  BY DEF Pick
<1>3. step \in [(SUBSET S) \X Nat -> Nat]
  <2>1. ASSUME NEW s \in SUBSET S, NEW r \in Nat, s # {} PROVE f[Pick(s)] + r \in Nat
    BY <1>2, <2>1
  <2>2. QED
    BY <2>1
<1>4. PICK h : h \in SubsetRecursions(S, Nat, 0, pick, step)
  <2>1. \A s \in SUBSET S : s # {} => pick[s] \in s
    BY <1>2
  <2> HIDE DEF pick, step
  <2>2. SubsetRecursions(S, Nat, 0, pick, step) # {}
    BY <1>3, <2>1, SubsetRecursion
  <2>3. QED
    BY <2>2
<1>5. h \in [SUBSET S -> Nat]
      /\ \A s \in SUBSET S : h[s] = IF s = {} THEN 0 ELSE step[<<s, h[s \ {pick[s]}]>>]
  <2> HIDE DEF pick, step
  <2>1. QED
    BY <1>4 DEF SubsetRecursions
<1>6. \A s \in SUBSET S : h[s] = IF s = {} THEN 0 ELSE f[Pick(s)] + h[s \ {Pick(s)}]
  <2>1. ASSUME NEW s \in SUBSET S, s # {} PROVE h[s] = f[Pick(s)] + h[s \ {Pick(s)}]
    <3>1. h[s \ {Pick(s)}] \in Nat /\ pick[s] = Pick(s)
      BY <1>5
    <3>2. step[<<s, h[s \ {Pick(s)}]>>] = f[Pick(s)] + h[s \ {Pick(s)}]
      BY <2>1, <3>1
    <3>3. h[s] = step[<<s, h[s \ {Pick(s)}]>>]
      <4> HIDE DEF step
      <4>1. QED
        BY <1>5, <2>1, <3>1
    <3>4. QED
      BY <3>2, <3>3
  <2>2. h[{}] = 0
    BY <1>5
  <2>3. QED
    BY <2>1, <2>2
<1> HIDE DEF step, pick
<1>7. Equation(h)
  <2>1. h = [s \in SUBSET S |-> h[s]]
    BY <1>5
  <2>2. QED
    BY <1>6, <2>1
<1>8. Equation(iter)
  <2> HIDE DEF Equation
  <2>1. QED
    BY <1>7
<1> HIDE DEF iter
<1>9. \A s \in SUBSET S : iter[s] = h[s]
  <2> DEFINE T == {s \in SUBSET S : iter[s] = h[s]}
  <2>1. {} \in T
    BY <1>6, <1>8
  <2>2. ASSUME NEW s \in SUBSET S, s # {}, s \ {Pick(s)} \in T PROVE s \in T
    <3>1. iter[s] = f[Pick(s)] + iter[s \ {Pick(s)}]
      BY <1>8, <2>2
    <3>2. QED
      BY <1>6, <2>2, <3>1
  <2> HIDE DEF T
  <2>3. \A s \in SUBSET S : s \in T
    BY <2>1, <2>2, SubsetInduction
  <2>4. QED
    BY <2>3 DEF T
<1>10. AreSums(h, f, S)
  <2>1. h[{}] = 0 /\ \A s \in SUBSET S : h[s] \in Nat
    BY <1>5, <1>6
  <2>2. ASSUME NEW s \in SUBSET S, s # {}
        PROVE  /\ h[s] = f[Pick(s)] + h[s \ {Pick(s)}]
               /\ h[s \ {Pick(s)}] \in Nat
               /\ Pick(s) \in s /\ Pick(s) \in S
    BY <1>2, <1>5, <1>6, <2>2
  <2>3. QED
    BY <2>1, <2>2 DEF AreSums
<1>11. QED
  BY <1>1, <1>9, <1>10

\* A sum of natural numbers is one.
LEMMA SumType ==
  ASSUME NEW S, IsFiniteSet(S), NEW f \in [S -> Nat]
  PROVE  SumOf(f, S) \in Nat
<1>1. PICK h : AreSums(h, f, S) /\ SumOf(f, S) = h[S]
  BY SumUnfold
<1>2. QED
  BY <1>1 DEF AreSums

\* A sum of zeros is zero.
LEMMA SumOfZeros ==
  ASSUME NEW S, IsFiniteSet(S), NEW f \in [S -> Nat], \A x \in S : f[x] = 0
  PROVE  SumOf(f, S) = 0
<1>1. PICK h : AreSums(h, f, S) /\ SumOf(f, S) = h[S]
  BY SumUnfold
<1> DEFINE T == {s \in SUBSET S : h[s] = 0}
<1>2. {} \in T
  BY <1>1 DEF AreSums
<1>3. ASSUME NEW s \in SUBSET S, s # {}, s \ {Pick(s)} \in T PROVE s \in T
  <2>1. h[s] = f[Pick(s)] + h[s \ {Pick(s)}] /\ Pick(s) \in S
    BY <1>1, <1>3 DEF AreSums
  <2>2. QED
    BY <1>3, <2>1
<1> HIDE DEF T
<1>4. S \in T
  BY <1>2, <1>3, SubsetInduction
<1>5. QED
  BY <1>1, <1>4 DEF T

\* No summand larger, no larger sum.
LEMMA SumMonotone ==
  ASSUME NEW S, IsFiniteSet(S), NEW f \in [S -> Nat], NEW g \in [S -> Nat],
         \A x \in S : f[x] <= g[x]
  PROVE  SumOf(f, S) <= SumOf(g, S)
<1>1. PICK h : AreSums(h, f, S) /\ SumOf(f, S) = h[S]
  BY SumUnfold
<1>2. PICK k : AreSums(k, g, S) /\ SumOf(g, S) = k[S]
  BY SumUnfold
<1> DEFINE T == {s \in SUBSET S : h[s] <= k[s]}
<1>3. {} \in T
  <2>1. h[{}] = 0 /\ k[{}] = 0
    BY <1>1, <1>2 DEF AreSums
  <2>2. QED
    BY <2>1
<1>4. ASSUME NEW s \in SUBSET S, s # {}, s \ {Pick(s)} \in T PROVE s \in T
  <2>1. h[s] = f[Pick(s)] + h[s \ {Pick(s)}] /\ h[s \ {Pick(s)}] \in Nat /\ Pick(s) \in S
    BY <1>1, <1>4 DEF AreSums
  <2>2. k[s] = g[Pick(s)] + k[s \ {Pick(s)}] /\ k[s \ {Pick(s)}] \in Nat
    BY <1>2, <1>4 DEF AreSums
  <2>3. f[Pick(s)] <= g[Pick(s)] /\ f[Pick(s)] \in Nat /\ g[Pick(s)] \in Nat
    BY <2>1
  <2>4. h[s \ {Pick(s)}] <= k[s \ {Pick(s)}]
    BY <1>4
  <2>5. h[s] <= k[s]
    <3> HIDE DEF T
    <3>1. QED
      BY <2>1, <2>2, <2>3, <2>4
  <2>6. QED
    BY <2>5
<1> HIDE DEF T
<1>5. S \in T
  BY <1>3, <1>4, SubsetInduction
<1>6. QED
  BY <1>1, <1>2, <1>5 DEF T

\* The summand of x is larger by one, and no other is.
Increased(g, f, x, S) ==
  /\ g \in [S -> Nat] /\ g[x] = f[x] + 1
  /\ \A y \in S : y # x => g[y] = f[y]

\* So is the sum.
LEMMA SumIncrement ==
  ASSUME NEW S, IsFiniteSet(S), NEW f \in [S -> Nat], NEW x \in S, NEW g, Increased(g, f, x, S)
  PROVE  SumOf(g, S) = SumOf(f, S) + 1
<1>1. g \in [S -> Nat]
  BY DEF Increased
<1>2. PICK h : AreSums(h, f, S) /\ SumOf(f, S) = h[S]
  BY SumUnfold
<1>3. PICK k : AreSums(k, g, S) /\ SumOf(g, S) = k[S]
  BY <1>1, SumUnfold
<1> DEFINE T == {s \in SUBSET S : IF x \in s THEN k[s] = h[s] + 1 ELSE k[s] = h[s]}
<1>4. {} \in T
  <2>1. h[{}] = 0 /\ k[{}] = 0
    BY <1>2, <1>3 DEF AreSums
  <2>2. QED
    BY <2>1
<1>5. ASSUME NEW s \in SUBSET S, s # {}, s \ {Pick(s)} \in T PROVE s \in T
  <2> DEFINE y == Pick(s)
             r == s \ {y}
  <2>1. h[s] = f[y] + h[r] /\ h[r] \in Nat /\ y \in S /\ y \in s
    <3> HIDE DEF T
    <3>1. QED
      BY <1>2, <1>5 DEF AreSums
  <2>2. k[s] = g[y] + k[r] /\ k[r] \in Nat
    <3> HIDE DEF T
    <3>1. QED
      BY <1>3, <1>5 DEF AreSums
  <2>3. f[y] \in Nat /\ g[y] = IF y = x THEN f[y] + 1 ELSE f[y]
    BY <2>1 DEF Increased
  <2>4. IF x \in r THEN k[r] = h[r] + 1 ELSE k[r] = h[r]
    BY <1>5
  <2>5. IF x \in s THEN k[s] = h[s] + 1 ELSE k[s] = h[s]
    <3>1. CASE y = x
      <4>1. x \in s /\ x \notin r /\ g[y] = f[y] + 1
        BY <2>1, <2>3, <3>1
      <4> HIDE DEF T, r, y
      <4>2. QED
        BY <2>1, <2>2, <2>3, <2>4, <4>1
    <3>2. CASE y # x
      <4>1. (x \in s <=> x \in r) /\ g[y] = f[y]
        BY <2>3, <3>2
      <4> HIDE DEF T, r, y
      <4>2. QED
        BY <2>1, <2>2, <2>3, <2>4, <4>1
    <3>3. QED
      BY <3>1, <3>2
  <2>6. QED
    BY <2>5
<1> HIDE DEF T
<1>6. S \in T
  BY <1>4, <1>5, SubsetInduction
<1>7. k[S] = h[S] + 1
  BY <1>6 DEF T
<1>8. QED
  BY <1>2, <1>3, <1>7

-----------------------------------------------------------------------------
(* Division                                                                *)

\* Quotient and remainder of a division.
LEMMA DivMod ==
  ASSUME NEW a \in Nat, NEW d \in Nat \ {0}
  PROVE  \E q \in Nat, r \in 0 .. d - 1 : q = a \div d /\ r = a % d /\ a = d * q + r
<1> DEFINE q == a \div d
           r == a % d
<1>1. d \in Int /\ d > 0 /\ a \in Int /\ a >= 0
  OBVIOUS
<1>2. q \in Int /\ r \in 0 .. d - 1
  BY <1>1
<1>3. q >= 0
  BY <1>1
<1>4. \A k, l \in Int : k = a \div d /\ l = a % d => a = d * k + l
  BY <1>1
<1>5. q = a \div d /\ r = a % d
  OBVIOUS
<1> HIDE DEF q, r
<1>6. a = d * q + r
  BY <1>2, <1>4, <1>5
<1>7. q \in Nat
  BY <1>2, <1>3
<1> WITNESS q \in Nat, r \in 0 .. d - 1
<1>8. QED
  BY <1>5, <1>6

\* A quotient is the only number of its kind.
LEMMA DivUnique ==
  ASSUME NEW e \in Nat \ {0}, NEW u \in Nat, NEW z \in Nat, NEW w \in 0 .. e - 1, NEW y \in 0 .. e - 1,
         e * u + w = e * z + y
  PROVE  u = z
<1>1. ASSUME NEW k \in Nat, NEW l \in Nat, NEW f \in 0 .. e - 1, NEW g \in 0 .. e - 1, e * k + f = e * l + g
      PROVE ~(k > l)
  <2> SUFFICES ASSUME k > l PROVE FALSE
    OBVIOUS
  <2>1. PICK j \in Nat : k = l + 1 + j
    <3>1. k - l - 1 \in Nat /\ k = l + 1 + (k - l - 1)
      OBVIOUS
    <3>2. QED
      BY <3>1
  <2>2. e * k = e * l + e + e * j
    BY <2>1
  <2>3. e * j >= 0
    BY <2>1
  <2>4. e * k \in Int /\ e * l \in Int /\ e * j \in Int
    BY <2>1
  <2>5. QED
    BY <2>2, <2>3, <2>4, <1>1
<1>2. QED
  BY <1>1

\* A positive factor keeps the order.
LEMMA TimesKeepsOrder ==
  ASSUME NEW d \in Nat \ {0}, NEW x \in Int, NEW y \in Int
  PROVE  d * x < d * y <=> x < y
<1>1. ASSUME NEW u \in Int, NEW v \in Int, u < v PROVE d * u < d * v
  <2>1. PICK j \in Nat : v = u + 1 + j
    <3>1. v - u - 1 \in Nat /\ v = u + 1 + (v - u - 1)
      BY <1>1
    <3>2. QED
      BY <3>1
  <2>2. d * v = d * u + d + d * j
    BY <2>1
  <2>3. d * j >= 0 /\ d * u \in Int /\ d * j \in Int /\ d > 0
    BY <2>1
  <2>4. QED
    BY <2>2, <2>3
<1>2. d * x \in Int /\ d * y \in Int
  OBVIOUS
<1>3. x < y \/ x = y \/ y < x
  OBVIOUS
<1>4. QED
  BY <1>1, <1>2, <1>3
=============================================================================
