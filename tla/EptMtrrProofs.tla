--------------------------- MODULE EptMtrrProofs ---------------------------
(***************************************************************************)
(* Proofs about EptMtrr: for all registers, all numbers of ranges and all  *)
(* pages, the search in the copied entries gives the type the architecture *)
(* gives.  The two loops of the code are folds over sequences of any       *)
(* length; SubsetRecursion unfolds them into one value per index, and      *)
(* RangeInduction carries what is known about the prefix visited so far to *)
(* the end.                                                                *)
(***************************************************************************)
EXTENDS EptMtrr, CommonLemmas

-----------------------------------------------------------------------------
(* Folds over sequences                                                    *)

\* The element FoldLeft takes off the indices 1 .. i is the last one.
LEMMA LastIndex ==
  ASSUME NEW i \in Nat, i > 0
  PROVE  Max(1 .. i) = i /\ (1 .. i) \ {Max(1 .. i)} = 1 .. i - 1
<1>1. \A x \in 1 .. i : (\A y \in 1 .. i : x >= y) <=> x = i
  OBVIOUS
<1>2. Max(1 .. i) = i
  BY <1>1 DEF Max
<1>3. QED
  BY <1>2

\* A finite set of numbers that is not empty has its largest element.
LEMMA MaxIn ==
  ASSUME NEW n \in Nat, NEW s \in SUBSET (1 .. n), s # {}
  PROVE  Max(s) \in s
<1> DEFINE T == {n - x : x \in s}
<1>1. T \subseteq Nat /\ T # {}
  <2>1. \A x \in s : n - x \in Nat
    OBVIOUS
  <2>2. QED
    BY <2>1
<1>2. PICK m \in T : \A y \in T : m <= y
  <2> HIDE DEF T
  <2>1. QED
    BY <1>1, LeastNumber
<1>3. PICK x \in s : m = n - x
  BY <1>2
<1>4. \A y \in s : x >= y
  <2>1. ASSUME NEW y \in s PROVE x >= y
    <3>1. m <= n - y
      BY <1>2
    <3>2. QED
      BY <1>3, <3>1
  <2>2. QED
    BY <2>1
<1>5. QED
  BY <1>4 DEF Max

\* The functions FoldLeft chooses from.
Folds(n, R, base, step) ==
  {h \in [SUBSET (1 .. n) -> R] : \A s \in SUBSET (1 .. n) :
     h[s] = IF s = {} THEN base ELSE step[<<Max(s), h[s \ {Max(s)}]>>]}

\* There is one.
LEMMA FoldExists ==
  ASSUME NEW n \in Nat, NEW R, NEW base \in R, NEW step \in [(1 .. n) \X R -> R]
  PROVE  Folds(n, R, base, step) # {}
<1> DEFINE S == 1 .. n
           pick == [s \in SUBSET S |-> Max(s)]
           next == [p \in (SUBSET S) \X R |-> IF p[1] = {} THEN base ELSE step[<<Max(p[1]), p[2]>>]]
<1>1. IsFiniteSet(S)
  BY FS_Interval
<1>2. /\ \A s \in SUBSET S : s # {} => pick[s] \in s
      /\ \A s \in SUBSET S : s # {} => Max(s) \in S
  BY MaxIn
<1>3. next \in [(SUBSET S) \X R -> R]
  <2>1. ASSUME NEW s \in SUBSET S, NEW r \in R, s # {} PROVE step[<<Max(s), r>>] \in R
    BY <1>2, <2>1
  <2>2. QED
    BY <2>1
<1>4. PICK h : h \in SubsetRecursions(S, R, base, pick, next)
  <2>1. \A s \in SUBSET S : s # {} => pick[s] \in s
    BY <1>2
  <2> HIDE DEF S, pick, next
  <2>2. SubsetRecursions(S, R, base, pick, next) # {}
    BY <1>1, <1>3, <2>1, SubsetRecursion
  <2>3. QED
    BY <2>2
<1>5. /\ h \in [SUBSET S -> R]
      /\ \A s \in SUBSET S : h[s] = IF s = {} THEN base ELSE next[<<s, h[s \ {pick[s]}]>>]
  <2> HIDE DEF S, pick, next
  <2>1. QED
    BY <1>4 DEF SubsetRecursions
<1>6. ASSUME NEW s \in SUBSET S, s # {}
      PROVE  h[s] = step[<<Max(s), h[s \ {Max(s)}]>>]
  <2>1. <<s, h[s \ {Max(s)}]>> \in (SUBSET S) \X R /\ pick[s] = Max(s)
    BY <1>5
  <2>2. QED
    BY <1>5, <1>6, <2>1
<1>7. QED
  BY <1>5, <1>6 DEF Folds

-----------------------------------------------------------------------------
(* The loop over the variable ranges                                       *)

\* The entry of a variable range.
EntryOf(v) == Entry(FALSE, v.type, v.base, v.size)

\* The registers and what the entries made of them are.
LEMMA RegistersFacts ==
  ASSUME NEW regs \in RegistersType
  PROVE  /\ regs.variable \in Seq(VariableRange)
         /\ Len(regs.variable) \in Nat
         /\ DOMAIN regs.variable = 1 .. Len(regs.variable)
         /\ \A i \in 1 .. Len(regs.variable) :
              regs.variable[i] \in VariableRange /\ EntryOf(regs.variable[i]) \in EntryType
<1>1. regs.variable \in Seq(VariableRange)
  BY DEF RegistersType
<1>2. \A v \in VariableRange : EntryOf(v) \in EntryType
  <2>1. ASSUME NEW v \in VariableRange PROVE EntryOf(v) \in EntryType
    <3>1. v.base + v.size - 1 \in Nat
      BY DEF VariableRange
    <3>2. QED
      BY <3>1 DEF EntryOf, Entry, EntryType, VariableRange
  <2>2. QED
    BY <2>1
<1>3. QED
  BY <1>1, <1>2

\* What the loop has made after i variable ranges.
IsMade(g, regs) ==
  /\ g[0] = <<>>
  /\ \A i \in 1 .. Len(regs.variable) : g[i] = AppendValid(g[i - 1], regs.variable[i])
  /\ g[Len(regs.variable)] = VariableEntries(regs)

\* The fold over the variable ranges has a value for each index.
LEMMA VariableEntriesUnfold ==
  ASSUME NEW regs \in RegistersType
  PROVE  \E g : IsMade(g, regs)
<1> DEFINE v == regs.variable
           n == Len(v)
           Made == Seq(EntryType)
           step == [p \in (1 .. n) \X Made |-> AppendValid(p[2], v[p[1]])]
           Equation(f) == f = [s \in SUBSET DOMAIN v |->
             IF s = {} THEN <<>> ELSE AppendValid(f[s \ {Max(s)}], v[Max(s)])]
           iter == CHOOSE f : Equation(f)
<1>1. n \in Nat /\ DOMAIN v = 1 .. n
  BY RegistersFacts
<1>2. VariableEntries(regs) = iter[DOMAIN v]
  BY DEF VariableEntries, FoldLeft, MapThenFoldSet
<1>3. ASSUME NEW i \in 1 .. n, NEW made \in Made PROVE AppendValid(made, v[i]) \in Made
  <2>1. EntryOf(v[i]) \in EntryType
    BY RegistersFacts
  <2>2. Append(made, EntryOf(v[i])) \in Made
    BY <2>1
  <2>3. QED
    BY <2>2 DEF AppendValid, EntryOf
<1>4. step \in [(1 .. n) \X Made -> Made]
  BY <1>3
<1>5. PICK h : h \in Folds(n, Made, <<>>, step)
  <2>1. <<>> \in Made
    OBVIOUS
  <2> HIDE DEF Made, step, n
  <2>2. Folds(n, Made, <<>>, step) # {}
    BY <1>1, <1>4, <2>1, FoldExists
  <2>3. QED
    BY <2>2
<1>6. /\ h \in [SUBSET (1 .. n) -> Made]
      /\ \A s \in SUBSET (1 .. n) : h[s] = IF s = {} THEN <<>> ELSE step[<<Max(s), h[s \ {Max(s)}]>>]
  <2> HIDE DEF Made, step, n
  <2>1. QED
    BY <1>5 DEF Folds
<1>7. ASSUME NEW s \in SUBSET (1 .. n), s # {}
      PROVE  h[s] = AppendValid(h[s \ {Max(s)}], v[Max(s)])
  <2>1. Max(s) \in 1 .. n
    BY <1>1, <1>7, MaxIn
  <2>2. <<Max(s), h[s \ {Max(s)}]>> \in (1 .. n) \X Made
    <3> HIDE DEF Made, n
    <3>1. QED
      BY <1>6, <2>1
  <2>3. h[s] = step[<<Max(s), h[s \ {Max(s)}]>>]
    <3> HIDE DEF Made, step, n
    <3>1. QED
      BY <1>6, <1>7
  <2> HIDE DEF Made, n, v
  <2>4. QED
    BY <2>2, <2>3
<1>8. Equation(h)
  <2>1. \A s \in SUBSET (1 .. n) :
          h[s] = IF s = {} THEN <<>> ELSE AppendValid(h[s \ {Max(s)}], v[Max(s)])
    <3> HIDE DEF Made, step, n, v
    <3>1. QED
      BY <1>6, <1>7
  <2>2. DOMAIN h = SUBSET DOMAIN v
    BY <1>1, <1>6
  <2> HIDE DEF Made, step, n, v
  <2>3. h = [s \in SUBSET (1 .. n) |-> h[s]]
    BY <1>6
  <2>4. QED
    BY <1>1, <2>1, <2>3
<1>9. Equation(iter)
  <2> HIDE DEF Equation
  <2>1. QED
    BY <1>8
<1> HIDE DEF iter
<1>10. iter[{}] = <<>>
  BY <1>9
<1>11. ASSUME NEW i \in 1 .. n PROVE iter[1 .. i] = AppendValid(iter[1 .. i - 1], v[i])
  <2>1. 1 .. i \in SUBSET DOMAIN v /\ 1 .. i # {}
    <3>1. DOMAIN v = 1 .. n /\ n \in Nat /\ i \in 1 .. i
      BY <1>1
    <3> HIDE DEF v, n
    <3>2. QED
      BY <3>1
  <2>2. iter[1 .. i] = AppendValid(iter[(1 .. i) \ {Max(1 .. i)}], v[Max(1 .. i)])
    <3> HIDE DEF v
    <3>1. QED
      BY <1>9, <2>1, Zenon
  <2>3. Max(1 .. i) = i /\ (1 .. i) \ {Max(1 .. i)} = 1 .. i - 1
    BY LastIndex
  <2>4. QED
    BY <2>2, <2>3
<1> DEFINE g == [i \in 0 .. n |-> iter[1 .. i]]
<1>12. g[0] = <<>>
  <2>1. 1 .. 0 = {}
    OBVIOUS
  <2>2. QED
    BY <1>1, <1>10, <2>1
<1>13. \A i \in 1 .. n : g[i] = AppendValid(g[i - 1], v[i])
  <2>1. ASSUME NEW i \in 1 .. n PROVE g[i] = AppendValid(g[i - 1], v[i])
    <3>1. i \in 0 .. n /\ i - 1 \in 0 .. n
      BY <1>1
    <3>2. QED
      BY <1>11, <3>1
  <2>2. QED
    BY <2>1
<1>14. g[n] = VariableEntries(regs)
  BY <1>1, <1>2
<1>15. QED
  BY <1>12, <1>13, <1>14 DEF IsMade

\* What a prefix of the loop has made: entries of valid ranges it visited, each of
\* them, in their order.
MadeOf(made, regs, i) ==
  /\ made \in Seq(EntryType)
  /\ Len(made) <= i
  /\ \A p \in 1 .. Len(made) : \E j \in 1 .. i :
       regs.variable[j].valid /\ made[p] = EntryOf(regs.variable[j])
  /\ \A j \in 1 .. i : regs.variable[j].valid =>
       \E p \in 1 .. Len(made) : made[p] = EntryOf(regs.variable[j])
  /\ \A p, q \in 1 .. Len(made) : p < q =>
       \E j, k \in 1 .. i :
         /\ j < k
         /\ regs.variable[j].valid /\ made[p] = EntryOf(regs.variable[j])
         /\ regs.variable[k].valid /\ made[q] = EntryOf(regs.variable[k])

\* One turn of the loop keeps that.
LEMMA AppendValidMade ==
  ASSUME NEW regs \in RegistersType, NEW i \in 1 .. Len(regs.variable), NEW made,
         MadeOf(made, regs, i - 1)
  PROVE  MadeOf(AppendValid(made, regs.variable[i]), regs, i)
<1> DEFINE v == regs.variable
           e == EntryOf(v[i])
           m == Append(made, e)
<1>1. made \in Seq(EntryType) /\ Len(made) \in Nat /\ i \in Nat /\ Len(made) <= i - 1
  BY RegistersFacts DEF MadeOf
<1>2. e \in EntryType
  BY RegistersFacts
<1>3. CASE ~v[i].valid
  <2>1. AppendValid(made, v[i]) = made
    BY <1>3 DEF AppendValid
  <2>2. 1 .. i = (1 .. i - 1) \union {i}
    BY <1>1
  <2> HIDE DEF e, v
  <2>3. MadeOf(made, regs, i)
    <3>1. \A p \in 1 .. Len(made) : \E j \in 1 .. i :
            regs.variable[j].valid /\ made[p] = EntryOf(regs.variable[j])
      BY <2>2 DEF MadeOf
    <3>2. \A j \in 1 .. i : regs.variable[j].valid =>
            \E p \in 1 .. Len(made) : made[p] = EntryOf(regs.variable[j])
      BY <1>3, <2>2 DEF MadeOf, v
    <3>3. \A p, q \in 1 .. Len(made) : p < q =>
            \E j, k \in 1 .. i :
              /\ j < k
              /\ regs.variable[j].valid /\ made[p] = EntryOf(regs.variable[j])
              /\ regs.variable[k].valid /\ made[q] = EntryOf(regs.variable[k])
      BY <2>2 DEF MadeOf
    <3>4. Len(made) <= i
      BY <1>1
    <3>5. QED
      BY <1>1, <3>1, <3>2, <3>3, <3>4 DEF MadeOf
  <2>4. QED
    BY <2>1, <2>3 DEF v
<1>4. CASE v[i].valid
  <2>1. AppendValid(made, v[i]) = m
    BY <1>4 DEF AppendValid, EntryOf
  <2>2. /\ m \in Seq(EntryType) /\ Len(m) = Len(made) + 1
        /\ \A p \in 1 .. Len(made) : m[p] = made[p]
        /\ m[Len(made) + 1] = e
    <3> HIDE DEF e
    <3>1. QED
      BY <1>1, <1>2
  <2>3. \A p \in 1 .. Len(m) : p \in 1 .. Len(made) \/ p = Len(made) + 1
    <3> HIDE DEF m
    <3>1. QED
      BY <1>1, <2>2
  <2>4. \A j \in 1 .. i : j \in 1 .. i - 1 \/ j = i
    BY <1>1
  <2>5. \A j \in 1 .. i - 1 : j \in 1 .. i /\ j < i
    BY <1>1
  <2>6. i \in 1 .. i /\ \A p \in 1 .. Len(made) : p \in 1 .. Len(m)
    <3> HIDE DEF m
    <3>1. QED
      BY <1>1, <2>2
  <2> HIDE DEF m
  <2>7. \A p \in 1 .. Len(m) : \E j \in 1 .. i : v[j].valid /\ m[p] = EntryOf(v[j])
    <3>1. ASSUME NEW p \in 1 .. Len(m)
          PROVE  \E j \in 1 .. i : v[j].valid /\ m[p] = EntryOf(v[j])
      <4>1. CASE p \in 1 .. Len(made)
        <5>1. PICK j \in 1 .. i - 1 : v[j].valid /\ made[p] = EntryOf(v[j])
          BY <4>1 DEF MadeOf
        <5>2. QED
          BY <2>2, <2>5, <4>1, <5>1
      <4>2. CASE p = Len(made) + 1
        BY <1>4, <2>2, <2>6, <4>2
      <4>3. QED
        BY <2>3, <4>1, <4>2
    <3>2. QED
      BY <3>1
  <2>8. \A j \in 1 .. i : v[j].valid => \E p \in 1 .. Len(m) : m[p] = EntryOf(v[j])
    <3>1. ASSUME NEW j \in 1 .. i, v[j].valid
          PROVE  \E p \in 1 .. Len(m) : m[p] = EntryOf(v[j])
      <4>1. CASE j \in 1 .. i - 1
        <5>1. PICK p \in 1 .. Len(made) : made[p] = EntryOf(v[j])
          BY <3>1, <4>1 DEF MadeOf
        <5>2. QED
          BY <2>2, <2>6, <5>1
      <4>2. CASE j = i
        <5>1. Len(made) + 1 \in 1 .. Len(m)
          BY <1>1, <2>2
        <5>2. QED
          BY <2>2, <4>2, <5>1
      <4>3. QED
        BY <2>4, <4>1, <4>2
    <3>2. QED
      BY <3>1
  <2>9. \A p, q \in 1 .. Len(m) : p < q =>
          \E j, k \in 1 .. i :
            /\ j < k
            /\ v[j].valid /\ m[p] = EntryOf(v[j])
            /\ v[k].valid /\ m[q] = EntryOf(v[k])
    <3>1. ASSUME NEW p \in 1 .. Len(m), NEW q \in 1 .. Len(m), p < q
          PROVE  \E j, k \in 1 .. i :
                   /\ j < k
                   /\ v[j].valid /\ m[p] = EntryOf(v[j])
                   /\ v[k].valid /\ m[q] = EntryOf(v[k])
      <4>1. p \in 1 .. Len(made)
        BY <1>1, <2>2, <3>1
      <4>2. CASE q \in 1 .. Len(made)
        <5>1. PICK j \in 1 .. i - 1, k \in 1 .. i - 1 :
                /\ j < k
                /\ v[j].valid /\ made[p] = EntryOf(v[j])
                /\ v[k].valid /\ made[q] = EntryOf(v[k])
          BY <3>1, <4>1, <4>2 DEF MadeOf
        <5>2. QED
          BY <2>2, <2>5, <4>1, <4>2, <5>1
      <4>3. CASE q = Len(made) + 1
        <5>1. PICK j \in 1 .. i - 1 : v[j].valid /\ made[p] = EntryOf(v[j])
          BY <4>1 DEF MadeOf
        <5>2. j \in 1 .. i /\ j < i /\ m[p] = EntryOf(v[j]) /\ m[q] = EntryOf(v[i])
          BY <2>2, <2>5, <4>1, <4>3, <5>1
        <5> HIDE DEF v
        <5>3. QED
          BY <1>4, <2>6, <5>1, <5>2
      <4>4. QED
        BY <2>3, <4>2, <4>3
    <3>2. QED
      BY <3>1
  <2>10. Len(m) <= i
    BY <1>1, <2>2
  <2>11. MadeOf(m, regs, i)
    BY <2>2, <2>7, <2>8, <2>9, <2>10 DEF MadeOf
  <2>12. QED
    BY <2>1, <2>11
<1>5. QED
  BY <1>3, <1>4

\* The entries of the variable ranges are those of the valid ones, in their order.
LEMMA VariableEntriesMade ==
  ASSUME NEW regs \in RegistersType
  PROVE  MadeOf(VariableEntries(regs), regs, Len(regs.variable))
<1>1. PICK g : IsMade(g, regs)
  BY VariableEntriesUnfold
<1> DEFINE n == Len(regs.variable)
           S == {i \in 0 .. n : MadeOf(g[i], regs, i)}
<1>2. n \in Nat
  BY RegistersFacts
<1>3. 0 \in S
  <2>1. <<>> \in Seq(EntryType) /\ Len(<<>>) = 0 /\ 1 .. 0 = {}
    OBVIOUS
  <2>2. MadeOf(<<>>, regs, 0)
    BY <2>1 DEF MadeOf
  <2>3. QED
    BY <1>1, <1>2, <2>2 DEF IsMade
<1>4. ASSUME NEW i \in 1 .. n, i - 1 \in S PROVE i \in S
  <2>1. MadeOf(AppendValid(g[i - 1], regs.variable[i]), regs, i)
    BY <1>4, AppendValidMade
  <2>2. g[i] = AppendValid(g[i - 1], regs.variable[i])
    BY <1>1 DEF IsMade
  <2>3. QED
    BY <1>2, <2>1, <2>2
<1>5. n \in S
  <2> HIDE DEF S, n
  <2>1. \A i \in 0 .. n : i \in S
    BY <1>2, <1>3, <1>4, RangeInduction
  <2>2. QED
    BY <1>2, <2>1
<1>6. QED
  BY <1>1, <1>5 DEF IsMade

-----------------------------------------------------------------------------
(* The entries of a copy                                                   *)

\* An entry covers page a.
In(a, e) == a \in e.base .. e.end

\* A function on 1 .. n is a sequence.
LEMMA FunctionIsSeq ==
  ASSUME NEW S, NEW n \in Nat, NEW s \in [1 .. n -> S]
  PROVE  s \in Seq(S) /\ Len(s) = n
OBVIOUS

\* Every fixed range begins at some page and has at least one.
LEMMA FixedRangesType ==
  /\ FixedRanges \in Seq([base : Nat, size : Nat \ {0}])
  /\ Len(FixedRanges) \in Nat
  /\ DOMAIN FixedRanges = 1 .. Len(FixedRanges)
  /\ \A i \in 1 .. Len(FixedRanges) :
       FixedRanges[i].base \in Nat /\ FixedRanges[i].size \in Nat \ {0}
<1> DEFINE Piece == [base : Nat, size : Nat \ {0}]
           Kind  == [base : Nat, size : Nat \ {0}, count : Nat]
<1>1. ASSUME NEW kind \in Kind PROVE RangesOf(kind) \in Seq(Piece)
  <2>1. kind.count \in Nat /\ kind.base \in Nat /\ kind.size \in Nat \ {0}
    OBVIOUS
  <2>2. \A i \in 1 .. kind.count : kind.base + (i - 1) * kind.size \in Nat
    <3>1. \A i \in Nat, size \in Nat : i * size \in Nat
      OBVIOUS
    <3>2. ASSUME NEW i \in 1 .. kind.count PROVE kind.base + (i - 1) * kind.size \in Nat
      <4>1. i - 1 \in Nat
        BY <2>1
      <4>2. (i - 1) * kind.size \in Nat
        BY <2>1, <3>1, <4>1
      <4>3. QED
        BY <2>1, <4>2
    <3>3. QED
      BY <3>2
  <2>3. RangesOf(kind) \in [1 .. kind.count -> Piece]
    BY <2>1, <2>2 DEF RangesOf
  <2>4. QED
    BY <2>1, <2>3, FunctionIsSeq
<1>2. FixedMsrs[1] \in Kind /\ FixedMsrs[2] \in Kind /\ FixedMsrs[3] \in Kind
  BY MtrrAssumption DEF MtrrAssumption
<1> HIDE DEF Piece, Kind
<1>3. FixedRanges \in Seq(Piece)
  BY <1>1, <1>2 DEF FixedRanges
<1>4. \A i \in 1 .. Len(FixedRanges) : FixedRanges[i] \in Piece
  BY <1>3
<1>5. QED
  BY <1>3, <1>4 DEF Piece

\* The entries of the fixed ranges.
LEMMA FixedEntriesFacts ==
  ASSUME NEW regs \in RegistersType
  PROVE  /\ FixedEntries(regs) \in Seq(EntryType)
         /\ regs.FE => Len(FixedEntries(regs)) = Len(FixedRanges)
         /\ ~regs.FE => Len(FixedEntries(regs)) = 0
         /\ \A i \in 1 .. Len(FixedEntries(regs)) :
              FixedEntries(regs)[i] =
                Entry(TRUE, regs.fixed[i], FixedRanges[i].base, FixedRanges[i].size)
<1>1. CASE ~regs.FE
  <2>1. FixedEntries(regs) = <<>>
    BY <1>1 DEF FixedEntries
  <2>2. QED
    BY <1>1, <2>1
<1>2. CASE regs.FE
  <2> DEFINE n == Len(FixedRanges)
             e(i) == Entry(TRUE, regs.fixed[i], FixedRanges[i].base, FixedRanges[i].size)
  <2>1. n \in Nat /\ DOMAIN FixedRanges = 1 .. n
    BY FixedRangesType
  <2>2. ASSUME NEW i \in 1 .. n PROVE e(i) \in EntryType
    <3>1. FixedRanges[i].base \in Nat /\ FixedRanges[i].size \in Nat \ {0}
      BY FixedRangesType
    <3>2. FixedRanges[i].base + FixedRanges[i].size - 1 \in Nat
      BY <3>1
    <3>3. regs.fixed[i] \in MemoryTypes
      BY DEF RegistersType
    <3>4. QED
      BY <3>1, <3>2, <3>3 DEF Entry, EntryType
  <2> HIDE DEF e, n
  <2>3. FixedEntries(regs) = [i \in 1 .. n |-> e(i)]
    BY <1>2, <2>1 DEF FixedEntries, e
  <2>4. FixedEntries(regs) \in [1 .. n -> EntryType]
    BY <2>2, <2>3
  <2>5. QED
    <3>1. FixedEntries(regs) \in Seq(EntryType) /\ Len(FixedEntries(regs)) = n
      BY <2>1, <2>4, FunctionIsSeq
    <3>2. QED
      BY <1>2, <2>3, <3>1 DEF e, n
<1>3. QED
  BY <1>1, <1>2 DEF RegistersType

\* The copy: first the fixed entries, then those of the variable ranges.  It fits.
LEMMA NewEntriesParts ==
  ASSUME NEW regs \in RegistersType
  PROVE  LET f   == Len(FixedEntries(regs))
             v   == Len(VariableEntries(regs))
             new == NewEntries(regs)
         IN  /\ f \in Nat /\ v \in Nat
             /\ new \in Seq(EntryType)
             /\ Len(new) = f + v
             /\ Len(new) <= EntriesSize
             /\ \A i \in 1 .. f : new[i] = FixedEntries(regs)[i]
             /\ \A i \in 1 .. v : new[f + i] = VariableEntries(regs)[i]
<1>1. FixedEntries(regs) \in Seq(EntryType) /\ VariableEntries(regs) \in Seq(EntryType)
  BY FixedEntriesFacts, VariableEntriesMade DEF MadeOf
<1>2. Len(VariableEntries(regs)) <= Len(regs.variable)
  BY VariableEntriesMade DEF MadeOf
<1>3. Len(FixedRanges) + Len(regs.variable) <= EntriesSize
  BY DEF RegistersType
<1>4. Len(FixedEntries(regs)) <= Len(FixedRanges)
  <2>1. Len(FixedEntries(regs)) = Len(FixedRanges) \/ Len(FixedEntries(regs)) = 0
    BY FixedEntriesFacts, Zenon
  <2>2. Len(FixedRanges) \in Nat
    BY FixedRangesType
  <2>3. QED
    BY <2>1, <2>2
<1>5. /\ Len(FixedRanges) \in Nat /\ Len(regs.variable) \in Nat /\ EntriesSize \in Nat
  BY FixedRangesType, RegistersFacts, MtrrAssumption DEF MtrrAssumption
<1>6. QED
  BY <1>1, <1>2, <1>3, <1>4, <1>5 DEF NewEntries

\* Type and coverage of a page, entry by entry: what the copy has to do with the
\* registers.
FixedMatch(regs, new, a) ==
  /\ \A i \in DOMAIN new : new[i].fixed /\ In(a, new[i]) =>
       regs.FE /\ new[i].type \in FixedAt(regs, a)
  /\ regs.FE /\ FixedAt(regs, a) # {} => \E i \in DOMAIN new : new[i].fixed /\ In(a, new[i])
  /\ \A i, j \in DOMAIN new : i < j /\ new[j].fixed => new[i].fixed

VariableMatch(regs, new, a) ==
  /\ \A i \in DOMAIN new : ~new[i].fixed /\ In(a, new[i]) => new[i].type \in VariableAt(regs, a)
  /\ \A t \in VariableAt(regs, a) :
       \E i \in DOMAIN new : ~new[i].fixed /\ In(a, new[i]) /\ new[i].type = t

OrderMatch(regs, new, a) ==
  \A i, j \in DOMAIN new :
    /\ i < j
    /\ ~new[i].fixed /\ In(a, new[i])
    /\ ~new[j].fixed /\ In(a, new[j])
    => \E k, l \in DOMAIN regs.variable :
         /\ k < l
         /\ Covers(regs.variable[k], a) /\ regs.variable[k].type = new[i].type
         /\ Covers(regs.variable[l], a) /\ regs.variable[l].type = new[j].type

\* Which entries are fixed.
LEMMA FixedFirst ==
  ASSUME NEW regs \in RegistersType
  PROVE  LET f == Len(FixedEntries(regs))
             new == NewEntries(regs)
         IN  /\ DOMAIN new = 1 .. Len(new)
             /\ \A i \in DOMAIN new : new[i].enabled
             /\ \A i \in DOMAIN new : i <= f =>
                  /\ regs.FE /\ new[i].fixed
                  /\ i \in DOMAIN FixedRanges
                  /\ new[i] = Entry(TRUE, regs.fixed[i], FixedRanges[i].base, FixedRanges[i].size)
             /\ \A i \in DOMAIN new : i > f =>
                  /\ ~new[i].fixed
                  /\ i - f \in 1 .. Len(VariableEntries(regs))
                  /\ new[i] = VariableEntries(regs)[i - f]
<1> DEFINE f   == Len(FixedEntries(regs))
           v   == Len(VariableEntries(regs))
           new == NewEntries(regs)
<1>1. /\ f \in Nat /\ v \in Nat /\ Len(new) = f + v
      /\ DOMAIN new = 1 .. Len(new)
      /\ \A i \in 1 .. f : new[i] = FixedEntries(regs)[i]
      /\ \A i \in 1 .. v : new[f + i] = VariableEntries(regs)[i]
  BY NewEntriesParts
<1>2. ASSUME NEW i \in DOMAIN new, i <= f
      PROVE  /\ regs.FE /\ i \in DOMAIN FixedRanges
             /\ new[i] = Entry(TRUE, regs.fixed[i], FixedRanges[i].base, FixedRanges[i].size)
  <2>1. i \in 1 .. f
    BY <1>1, <1>2
  <2>2. regs.FE /\ i \in DOMAIN FixedRanges
    <3>1. regs.FE \/ Len(FixedEntries(regs)) = 0
      BY FixedEntriesFacts, Zenon
    <3>2. f # 0
      BY <2>1
    <3>3. regs.FE
      BY <3>1, <3>2, Zenon
    <3>4. f = Len(FixedRanges)
      BY <3>3, FixedEntriesFacts, Zenon
    <3>5. QED
      BY <2>1, <3>3, <3>4, FixedRangesType
  <2>3. QED
    BY <1>1, <2>1, <2>2, FixedEntriesFacts
<1>3. ASSUME NEW i \in DOMAIN new, i > f
      PROVE  /\ i - f \in 1 .. v
             /\ new[i] = VariableEntries(regs)[i - f]
  <2>1. i - f \in 1 .. v /\ f + (i - f) = i
    BY <1>1, <1>3
  <2> HIDE DEF f, v, new
  <2>2. QED
    BY <1>1, <2>1
<1>4. \A i \in 1 .. v : \E j \in DOMAIN regs.variable :
        VariableEntries(regs)[i] = EntryOf(regs.variable[j])
  <2>1. \A i \in 1 .. v : \E j \in 1 .. Len(regs.variable) :
          VariableEntries(regs)[i] = EntryOf(regs.variable[j])
    <3> DEFINE made == VariableEntries(regs)
               n    == Len(regs.variable)
    <3>1. MadeOf(made, regs, n)
      BY VariableEntriesMade
    <3> HIDE DEF made, n
    <3>2. \A i \in 1 .. Len(made) : \E j \in 1 .. n :
            regs.variable[j].valid /\ made[i] = EntryOf(regs.variable[j])
      BY <3>1, Zenon DEF MadeOf
    <3>3. QED
      BY <3>2, Zenon DEF made, n
  <2>2. DOMAIN regs.variable = 1 .. Len(regs.variable)
    BY RegistersFacts, Zenon
  <2>3. QED
    BY <2>1, <2>2, Zenon
<1>5. \A i \in 1 .. v : VariableEntries(regs)[i].enabled /\ ~VariableEntries(regs)[i].fixed
  <2>1. \A r : EntryOf(r).enabled /\ ~EntryOf(r).fixed
    BY DEF EntryOf, Entry
  <2> HIDE DEF v
  <2>2. QED
    BY <1>4, <2>1
<1>6. \A i \in DOMAIN new : i <= f => new[i].enabled /\ new[i].fixed
  BY <1>2 DEF Entry
<1>7. \A i \in DOMAIN new : i > f => new[i].enabled /\ ~new[i].fixed
  <2> HIDE DEF f, v, new
  <2>1. QED
    BY <1>3, <1>5
<1>8. \A i \in DOMAIN new : i <= f \/ i > f
  BY <1>1
<1> HIDE DEF f, v, new
<1>9. QED
  BY <1>1, <1>2, <1>3, <1>6, <1>7, <1>8 DEF f, v, new

\* What an entry says is what the range it was made of says.
LEMMA InEntry ==
  /\ \A a, t, base, size, x :
       /\ In(a, Entry(x, t, base, size)) <=> a \in base .. base + size - 1
       /\ Entry(x, t, base, size).type = t
  /\ \A a, v :
       /\ In(a, EntryOf(v)) /\ v.valid <=> Covers(v, a)
       /\ EntryOf(v).type = v.type
<1>1. \A a, t, base, size, x :
        /\ In(a, Entry(x, t, base, size)) <=> a \in base .. base + size - 1
        /\ Entry(x, t, base, size).type = t
  BY DEF In, Entry
<1>2. ASSUME NEW a, NEW v
      PROVE  (In(a, EntryOf(v)) /\ v.valid <=> Covers(v, a)) /\ EntryOf(v).type = v.type
  <2>1. In(a, EntryOf(v)) <=> a \in v.base .. v.base + v.size - 1
    BY DEF EntryOf, Entry, In
  <2>2. EntryOf(v).type = v.type
    BY DEF EntryOf, Entry
  <2>3. QED
    BY <2>1, <2>2, Zenon DEF Covers
<1>3. QED
  BY <1>1, <1>2

\* The copied fixed entries match the fixed registers.
LEMMA FixedMatches ==
  ASSUME NEW regs \in RegistersType, NEW a
  PROVE  FixedMatch(regs, NewEntries(regs), a)
<1> DEFINE f   == Len(FixedEntries(regs))
           new == NewEntries(regs)
           at  == {j \in DOMAIN FixedRanges :
                     a \in FixedRanges[j].base .. FixedRanges[j].base + FixedRanges[j].size - 1}
<1>1. /\ f \in Nat /\ DOMAIN new = 1 .. Len(new) /\ Len(new) \in Nat
      /\ f <= Len(new)
  BY NewEntriesParts, FixedFirst
<1>2. /\ \A i \in DOMAIN new : i <= f =>
           /\ regs.FE /\ new[i].fixed
           /\ i \in DOMAIN FixedRanges
           /\ new[i] = Entry(TRUE, regs.fixed[i], FixedRanges[i].base, FixedRanges[i].size)
      /\ \A i \in DOMAIN new : i > f => ~new[i].fixed
  BY FixedFirst
<1>3. FixedAt(regs, a) = {regs.fixed[i] : i \in at}
  BY DEF FixedAt
<1>4. \A i \in DOMAIN new : i <= f =>
        (In(a, new[i]) <=> i \in at) /\ new[i].type = regs.fixed[i]
  <2>1. ASSUME NEW i \in DOMAIN new, i <= f
        PROVE  (In(a, new[i]) <=> i \in at) /\ new[i].type = regs.fixed[i]
    <3>1. /\ i \in DOMAIN FixedRanges
          /\ new[i] = Entry(TRUE, regs.fixed[i], FixedRanges[i].base, FixedRanges[i].size)
      BY <1>2, <2>1
    <3>2. i \in at <=> a \in FixedRanges[i].base .. FixedRanges[i].base + FixedRanges[i].size - 1
      BY <3>1
    <3> HIDE DEF new, at
    <3>3. /\ In(a, new[i]) <=>
               a \in FixedRanges[i].base .. FixedRanges[i].base + FixedRanges[i].size - 1
          /\ new[i].type = regs.fixed[i]
      <4> DEFINE e == Entry(TRUE, regs.fixed[i], FixedRanges[i].base, FixedRanges[i].size)
      <4>1. /\ In(a, e) <=>
                 a \in FixedRanges[i].base .. FixedRanges[i].base + FixedRanges[i].size - 1
            /\ e.type = regs.fixed[i]
        BY DEF In, Entry
      <4>2. new[i] = e
        BY <3>1
      <4> HIDE DEF e
      <4>3. QED
        BY <4>1, <4>2
    <3>4. QED
      BY <3>2, <3>3
  <2>2. QED
    BY <2>1
<1> HIDE DEF new, f, at
<1>5. \A i \in DOMAIN new : new[i].fixed => i <= f
  BY <1>1, <1>2
<1>6. \A i \in DOMAIN new : new[i].fixed /\ In(a, new[i]) =>
        regs.FE /\ new[i].type \in FixedAt(regs, a)
  BY <1>2, <1>3, <1>4, <1>5
<1>7. ASSUME regs.FE, FixedAt(regs, a) # {}
      PROVE  \E i \in DOMAIN new : new[i].fixed /\ In(a, new[i])
  <2>1. PICK i : i \in at
    BY <1>3, <1>7
  <2>2. f = Len(FixedRanges)
    BY <1>7, FixedEntriesFacts, Zenon DEF f
  <2>3. i \in 1 .. Len(FixedRanges)
    BY <2>1, FixedRangesType DEF at
  <2>4. i \in DOMAIN new /\ i <= f
    BY <1>1, <2>2, <2>3
  <2>5. QED
    BY <1>2, <1>4, <2>1, <2>4
<1>8. \A i, j \in DOMAIN new : i < j /\ new[j].fixed => new[i].fixed
  <2>1. ASSUME NEW i \in DOMAIN new, NEW j \in DOMAIN new, i < j, new[j].fixed
        PROVE  new[i].fixed
    <3>1. j <= f
      BY <1>5, <2>1
    <3>2. i <= f
      BY <1>1, <2>1, <3>1
    <3>3. QED
      BY <1>2, <3>2
  <2>2. QED
    BY <2>1
<1>9. QED
  BY <1>6, <1>7, <1>8 DEF FixedMatch, new

\* The copied variable entries match the valid variable registers, in their order.
LEMMA VariableMatches ==
  ASSUME NEW regs \in RegistersType, NEW a
  PROVE  /\ VariableMatch(regs, NewEntries(regs), a)
         /\ OrderMatch(regs, NewEntries(regs), a)
<1> DEFINE f   == Len(FixedEntries(regs))
           var == VariableEntries(regs)
           new == NewEntries(regs)
           reg == regs.variable
           n   == Len(regs.variable)
<1>1. /\ f \in Nat /\ Len(var) \in Nat /\ Len(new) = f + Len(var)
      /\ DOMAIN new = 1 .. Len(new) /\ DOMAIN reg = 1 .. n /\ n \in Nat
  BY NewEntriesParts, FixedFirst, RegistersFacts
<1>2. /\ \A i \in DOMAIN new : i <= f => new[i].fixed
      /\ \A i \in DOMAIN new : i > f =>
           ~new[i].fixed /\ i - f \in 1 .. Len(var) /\ new[i] = var[i - f]
  BY FixedFirst
<1>3. /\ \A p \in 1 .. Len(var) : \E j \in 1 .. n : reg[j].valid /\ var[p] = EntryOf(reg[j])
      /\ \A j \in 1 .. n : reg[j].valid => \E p \in 1 .. Len(var) : var[p] = EntryOf(reg[j])
      /\ \A p, q \in 1 .. Len(var) : p < q =>
           \E j, k \in 1 .. n :
             /\ j < k
             /\ reg[j].valid /\ var[p] = EntryOf(reg[j])
             /\ reg[k].valid /\ var[q] = EntryOf(reg[k])
  BY VariableEntriesMade DEF MadeOf
<1>4. VariableAt(regs, a) = {reg[i].type : i \in {j \in DOMAIN reg : Covers(reg[j], a)}}
  BY DEF VariableAt
<1>5. \A i \in DOMAIN new : ~new[i].fixed => i > f
  <2> HIDE DEF new, f, var
  <2>1. QED
    BY <1>1, <1>2
<1> HIDE DEF new, f, var, reg, n
<1>6. ASSUME NEW i \in DOMAIN new, ~new[i].fixed, In(a, new[i])
      PROVE  new[i].type \in VariableAt(regs, a)
  <2>1. i > f
    BY <1>5, <1>6
  <2>2. i - f \in 1 .. Len(var) /\ new[i] = var[i - f]
    BY <1>2, <2>1
  <2>3. PICK j \in 1 .. n : reg[j].valid /\ var[i - f] = EntryOf(reg[j])
    BY <1>3, <2>2
  <2>4. Covers(reg[j], a) /\ new[i].type = reg[j].type
    BY <1>6, <2>2, <2>3, InEntry
  <2>5. QED
    BY <1>1, <1>4, <2>4
<1>7. ASSUME NEW t \in VariableAt(regs, a)
      PROVE  \E i \in DOMAIN new : ~new[i].fixed /\ In(a, new[i]) /\ new[i].type = t
  <2>1. PICK j \in 1 .. n : Covers(reg[j], a) /\ reg[j].type = t
    BY <1>1, <1>4
  <2>2. reg[j].valid
    BY <2>1 DEF Covers
  <2>3. PICK p \in 1 .. Len(var) : var[p] = EntryOf(reg[j])
    BY <1>3, <2>2
  <2>4. f + p \in DOMAIN new /\ f + p > f /\ (f + p) - f = p
    BY <1>1
  <2>5. ~new[f + p].fixed /\ new[f + p] = EntryOf(reg[j])
    BY <1>2, <2>3, <2>4
  <2>6. In(a, new[f + p]) /\ new[f + p].type = t
    BY <2>1, <2>2, <2>5, InEntry
  <2>7. QED
    BY <2>4, <2>5, <2>6
<1>8. ASSUME NEW i \in DOMAIN new, NEW j \in DOMAIN new, i < j,
             ~new[i].fixed, In(a, new[i]), ~new[j].fixed, In(a, new[j])
      PROVE  \E k, l \in DOMAIN reg :
               /\ k < l
               /\ Covers(reg[k], a) /\ reg[k].type = new[i].type
               /\ Covers(reg[l], a) /\ reg[l].type = new[j].type
  <2>1. i > f /\ j > f
    BY <1>5, <1>8
  <2>2. /\ i - f \in 1 .. Len(var) /\ new[i] = var[i - f]
        /\ j - f \in 1 .. Len(var) /\ new[j] = var[j - f]
    BY <1>2, <2>1
  <2>3. i - f < j - f
    BY <1>1, <1>8
  <2>4. PICK k \in 1 .. n, l \in 1 .. n :
          /\ k < l
          /\ reg[k].valid /\ var[i - f] = EntryOf(reg[k])
          /\ reg[l].valid /\ var[j - f] = EntryOf(reg[l])
    BY <1>3, <2>2, <2>3
  <2>5. /\ Covers(reg[k], a) /\ reg[k].type = new[i].type
        /\ Covers(reg[l], a) /\ reg[l].type = new[j].type
    BY <1>8, <2>2, <2>4, InEntry
  <2>6. QED
    BY <1>1, <2>4, <2>5
<1>9. VariableMatch(regs, new, a)
  BY <1>6, <1>7 DEF VariableMatch
<1>10. OrderMatch(regs, new, a)
  BY <1>8 DEF OrderMatch, reg
<1>11. QED
  BY <1>9, <1>10 DEF new

-----------------------------------------------------------------------------
(* The search                                                              *)

Result == [type : MemoryTypes \union {"none"}, left : BOOLEAN]

\* The results after each index of a search for page a in the entries e.
IsSearch(g, e, a) ==
  /\ g[0] = Keep("none")
  /\ \A i \in 1 .. EntriesSize : g[i] = Visit(a, g[i - 1], e[i])

\* A visit gives a result.
LEMMA VisitType ==
  ASSUME NEW a, NEW r \in Result, NEW x \in EntryType
  PROVE  Visit(a, r, x) \in Result
<1>1. x.type \in MemoryTypes /\ "WT" \in MemoryTypes /\ r.type \in MemoryTypes \union {"none"}
  BY DEF EntryType, Result, MemoryTypes
<1>2. /\ Found(r.type) \in Result /\ Found(x.type) \in Result
      /\ Keep("WT") \in Result /\ Keep(x.type) \in Result
  BY <1>1 DEF Found, Keep, Result
<1> HIDE DEF Found, Keep
<1>3. QED
  BY <1>2 DEF Visit

\* The fold over the entries has a result for each index.
LEMMA SearchUnfold ==
  ASSUME NEW a, entries \in [1 .. EntriesSize -> EntryType]
  PROVE  \E g :
           /\ IsSearch(g, entries, a)
           /\ EptGetMemoryType(a) =
                IF g[EntriesSize].type = "none" THEN defaultType ELSE g[EntriesSize].type
<1> DEFINE e == entries
           n == EntriesSize
           step == [p \in (1 .. n) \X Result |-> Visit(a, p[2], e[p[1]])]
           Equation(f) == f = [s \in SUBSET DOMAIN e |->
             IF s = {} THEN Keep("none") ELSE Visit(a, f[s \ {Max(s)}], e[Max(s)])]
           iter == CHOOSE f : Equation(f)
<1>1. n \in Nat /\ DOMAIN e = 1 .. n
  BY MtrrAssumption DEF MtrrAssumption
<1>2. EptGetMemoryType(a) =
        IF iter[DOMAIN e].type = "none" THEN defaultType ELSE iter[DOMAIN e].type
  BY DEF EptGetMemoryType, FoldLeft, MapThenFoldSet
<1>3. step \in [(1 .. n) \X Result -> Result]
  <2>1. \A i \in 1 .. n, r \in Result : Visit(a, r, e[i]) \in Result
    BY VisitType
  <2>2. QED
    BY <2>1
<1>4. PICK h : h \in Folds(n, Result, Keep("none"), step)
  <2>1. Keep("none") \in Result
    BY DEF Keep, Result
  <2> HIDE DEF step, n
  <2>2. Folds(n, Result, Keep("none"), step) # {}
    BY <1>1, <1>3, <2>1, FoldExists
  <2>3. QED
    BY <2>2
<1>5. /\ h \in [SUBSET (1 .. n) -> Result]
      /\ \A s \in SUBSET (1 .. n) :
           h[s] = IF s = {} THEN Keep("none") ELSE step[<<Max(s), h[s \ {Max(s)}]>>]
  <2> HIDE DEF step, n
  <2>1. QED
    BY <1>4 DEF Folds
<1>6. ASSUME NEW s \in SUBSET (1 .. n), s # {}
      PROVE  h[s] = Visit(a, h[s \ {Max(s)}], e[Max(s)])
  <2>1. Max(s) \in 1 .. n
    BY <1>1, <1>6, MaxIn
  <2>2. <<Max(s), h[s \ {Max(s)}]>> \in (1 .. n) \X Result
    <3> HIDE DEF n
    <3>1. QED
      BY <1>5, <2>1
  <2>3. h[s] = step[<<Max(s), h[s \ {Max(s)}]>>]
    <3> HIDE DEF step, n
    <3>1. QED
      BY <1>5, <1>6
  <2> HIDE DEF n, e
  <2>4. QED
    BY <2>2, <2>3
<1>7. Equation(h)
  <2> HIDE DEF step, n, e
  <2>1. \A s \in SUBSET (1 .. n) :
          h[s] = IF s = {} THEN Keep("none") ELSE Visit(a, h[s \ {Max(s)}], e[Max(s)])
    BY <1>5, <1>6
  <2>2. h = [s \in SUBSET (1 .. n) |-> h[s]]
    BY <1>5
  <2>3. QED
    BY <1>1, <2>1, <2>2
<1>8. Equation(iter)
  <2> HIDE DEF Equation
  <2>1. QED
    BY <1>7
<1> HIDE DEF iter
<1>9. iter[{}] = Keep("none")
  BY <1>8
<1>10. ASSUME NEW i \in 1 .. n PROVE iter[1 .. i] = Visit(a, iter[1 .. i - 1], e[i])
  <2>1. 1 .. i \in SUBSET DOMAIN e /\ 1 .. i # {}
    BY <1>1
  <2>2. iter[1 .. i] = Visit(a, iter[(1 .. i) \ {Max(1 .. i)}], e[Max(1 .. i)])
    <3> HIDE DEF e
    <3>1. QED
      BY <1>8, <2>1
  <2>3. Max(1 .. i) = i /\ (1 .. i) \ {Max(1 .. i)} = 1 .. i - 1
    BY LastIndex
  <2>4. QED
    BY <2>2, <2>3
<1> DEFINE g == [i \in 0 .. n |-> iter[1 .. i]]
<1>11. g[0] = Keep("none")
  <2>1. 1 .. 0 = {}
    OBVIOUS
  <2>2. QED
    BY <1>1, <1>9, <2>1
<1>12. \A i \in 1 .. n : g[i] = Visit(a, g[i - 1], e[i])
  <2>1. ASSUME NEW i \in 1 .. n PROVE g[i] = Visit(a, g[i - 1], e[i])
    <3>1. i \in 0 .. n /\ i - 1 \in 0 .. n
      BY <1>1
    <3>2. QED
      BY <1>10, <3>1
  <2>2. QED
    BY <2>1
<1>13. g[n] = iter[DOMAIN e]
  BY <1>1
<1> HIDE DEF g
<1>14. QED
  BY <1>2, <1>11, <1>12, <1>13 DEF IsSearch

\* An entry that ends the search for page a; the types of the entries seen up to i.
Ends(a, x) == In(a, x) /\ (x.fixed \/ x.type = "UC")

Seen(e, a, i) == {e[k].type : k \in {m \in 1 .. i : In(a, e[m])}}

\* Two entries that cover page a, the one that is WT first.
Inverted(e, a, i) ==
  \E k, l \in 1 .. i :
    /\ k < l
    /\ In(a, e[k]) /\ e[k].type = "WT"
    /\ In(a, e[l]) /\ e[l].type = "WB"

\* What the result r of a search that visited the first i entries says of them:
\* the search was left at the first entry that ends it, or there was none so far.
AtEnd(r, e, a, i) ==
  /\ r.left
  /\ \E k \in 1 .. i :
       /\ Ends(a, e[k]) /\ r.type = e[k].type
       /\ \A m \in 1 .. k - 1 : ~Ends(a, e[m])

OnTheWay(r, e, a, i) ==
  /\ ~r.left
  /\ \A m \in 1 .. i : ~Ends(a, e[m])
  /\ r.type = "none" => Seen(e, a, i) = {}
  /\ r.type # "none" => r.type \in Seen(e, a, i)
  /\ "WT" \in Seen(e, a, i) /\ Seen(e, a, i) \subseteq {"WT", "WB"} =>
       r.type = "WT" \/ Inverted(e, a, i)

\* One entry more is seen.
LEMMA SeenStep ==
  ASSUME NEW e, NEW a, NEW i \in Nat, i > 0
  PROVE  /\ In(a, e[i]) => Seen(e, a, i) = Seen(e, a, i - 1) \union {e[i].type}
         /\ ~In(a, e[i]) => Seen(e, a, i) = Seen(e, a, i - 1)
         /\ Inverted(e, a, i - 1) => Inverted(e, a, i)
         /\ "WT" \in Seen(e, a, i - 1) /\ In(a, e[i]) /\ e[i].type = "WB" => Inverted(e, a, i)
<1>1. 1 .. i = (1 .. i - 1) \union {i}
  OBVIOUS
<1>2. i \in 1 .. i /\ \A k \in 1 .. i - 1 : k \in 1 .. i /\ k < i
  OBVIOUS
<1>3. In(a, e[i]) => Seen(e, a, i) = Seen(e, a, i - 1) \union {e[i].type}
  BY <1>1 DEF Seen
<1>4. ~In(a, e[i]) => Seen(e, a, i) = Seen(e, a, i - 1)
  BY <1>1 DEF Seen
<1>5. Inverted(e, a, i - 1) => Inverted(e, a, i)
  BY <1>2 DEF Inverted
<1>6. ASSUME "WT" \in Seen(e, a, i - 1), In(a, e[i]), e[i].type = "WB"
      PROVE  Inverted(e, a, i)
  <2>1. PICK k \in 1 .. i - 1 : In(a, e[k]) /\ e[k].type = "WT"
    BY <1>6 DEF Seen
  <2>2. QED
    BY <1>2, <1>6, <2>1 DEF Inverted
<1>7. QED
  BY <1>3, <1>4, <1>5, <1>6

\* A visit of an entry that is in use carries what is known one entry further.
LEMMA VisitStep ==
  ASSUME NEW e, NEW a, NEW i \in Nat, i > 0, e[i] \in EntryType, e[i].enabled,
         NEW r \in Result, AtEnd(r, e, a, i - 1) \/ OnTheWay(r, e, a, i - 1)
  PROVE  LET v == Visit(a, r, e[i]) IN AtEnd(v, e, a, i) \/ OnTheWay(v, e, a, i)
<1> DEFINE v == Visit(a, r, e[i])
<1>1. /\ \A k \in 1 .. i - 1 : k \in 1 .. i
      /\ \A k \in 1 .. i : k \in 1 .. i - 1 \/ k = i
      /\ i \in 1 .. i
  OBVIOUS
<1>2. e[i].type # "none" /\ e[i].type \in MemoryTypes
  BY DEF EntryType, MemoryTypes
<1>3. CASE AtEnd(r, e, a, i - 1)
  <2>1. v = r
    BY <1>3 DEF AtEnd, Visit
  <2> HIDE DEF v
  <2>2. AtEnd(v, e, a, i)
    BY <1>1, <1>3, <2>1 DEF AtEnd
  <2>3. QED
    BY <2>2 DEF v
<1>4. CASE OnTheWay(r, e, a, i - 1)
  <2>1. ~r.left
    BY <1>4 DEF OnTheWay
  <2>2. CASE Ends(a, e[i])
    <3>1. v = Found(e[i].type)
      BY <2>1, <2>2 DEF Visit, Ends, In
    <3>2. v.left /\ v.type = e[i].type
      BY <3>1 DEF Found
    <3>3. \A m \in 1 .. i - 1 : ~Ends(a, e[m])
      BY <1>4 DEF OnTheWay
    <3> HIDE DEF v
    <3>4. AtEnd(v, e, a, i)
      BY <1>1, <2>2, <3>2, <3>3 DEF AtEnd
    <3>5. QED
      BY <3>4 DEF v
  <2>3. CASE ~In(a, e[i])
    <3>1. v = r
      BY <2>1, <2>3 DEF Visit, In
    <3>2. ~Ends(a, e[i])
      BY <2>3 DEF Ends
    <3>3. Seen(e, a, i) = Seen(e, a, i - 1)
      BY <2>3, SeenStep
    <3>4. Inverted(e, a, i - 1) => Inverted(e, a, i)
      BY SeenStep
    <3> HIDE DEF v
    <3>5. OnTheWay(v, e, a, i)
      BY <1>1, <1>4, <3>1, <3>2, <3>3, <3>4 DEF OnTheWay
    <3>6. QED
      BY <3>5 DEF v
  <2>4. CASE In(a, e[i]) /\ ~Ends(a, e[i])
    <3>1. v = IF e[i].type = "WT" /\ r.type = "WB" THEN Keep("WT") ELSE Keep(e[i].type)
      BY <2>1, <2>4 DEF Visit, Ends, In
    <3>2. ~v.left /\ v.type = e[i].type
      BY <3>1 DEF Keep
    <3>3. Seen(e, a, i) = Seen(e, a, i - 1) \union {e[i].type}
      BY <2>4, SeenStep
    <3>4. \A m \in 1 .. i : ~Ends(a, e[m])
      BY <1>1, <1>4, <2>4 DEF OnTheWay
    <3> HIDE DEF v
    <3>5. ASSUME "WT" \in Seen(e, a, i), Seen(e, a, i) \subseteq {"WT", "WB"}
          PROVE  v.type = "WT" \/ Inverted(e, a, i)
      <4>1. CASE e[i].type = "WT"
        BY <3>2, <4>1
      <4>2. CASE e[i].type = "WB"
        <5>1. "WT" \in Seen(e, a, i - 1)
          BY <3>3, <3>5, <4>2
        <5>2. QED
          BY <2>4, <4>2, <5>1, SeenStep
      <4>3. QED
        BY <3>3, <3>5, <4>1, <4>2
    <3>6. OnTheWay(v, e, a, i)
      BY <1>2, <3>2, <3>3, <3>4, <3>5 DEF OnTheWay
    <3>7. QED
      BY <3>6 DEF v
  <2>5. QED
    BY <2>2, <2>3, <2>4 DEF Ends
<1>5. QED
  BY <1>3, <1>4

\* The first n entries are in use, and the next ones are not.
InUse(e, n)  == \A i \in 1 .. n : e[i].enabled
Unused(e, n) == \A i \in n + 1 .. EntriesSize : ~e[i].enabled

\* After the first n entries, all of them in use, the result says what they are;
\* from there on it stays when the search was left or the next entry is not in use.
LEMMA SearchResult ==
  ASSUME NEW e \in [1 .. EntriesSize -> EntryType], NEW a, NEW g, IsSearch(g, e, a),
         NEW n \in 0 .. EntriesSize, InUse(e, n)
  PROVE  /\ g[n] \in Result
         /\ AtEnd(g[n], e, a, n) \/ OnTheWay(g[n], e, a, n)
         /\ AtEnd(g[n], e, a, n) => g[EntriesSize].type = g[n].type
         /\ Unused(e, n) => g[EntriesSize].type = g[n].type
<1>1. EntriesSize \in Nat /\ n \in Nat /\ n <= EntriesSize
  BY MtrrAssumption DEF MtrrAssumption
<1>2. \A i \in 1 .. EntriesSize : g[i] = Visit(a, g[i - 1], e[i])
  BY DEF IsSearch
<1>3. \A i \in 0 .. n :
        i \in {j \in 0 .. n : g[j] \in Result /\ (AtEnd(g[j], e, a, j) \/ OnTheWay(g[j], e, a, j))}
  <2> DEFINE S == {j \in 0 .. n :
                     g[j] \in Result /\ (AtEnd(g[j], e, a, j) \/ OnTheWay(g[j], e, a, j))}
  <2>1. 0 \in S
    <3>1. g[0] = Keep("none") /\ Keep("none") \in Result /\ ~Keep("none").left
          /\ Keep("none").type = "none"
      BY DEF IsSearch, Keep, Result
    <3>2. 1 .. 0 = {} /\ Seen(e, a, 0) = {}
      BY DEF Seen
    <3>3. OnTheWay(g[0], e, a, 0)
      BY <3>1, <3>2 DEF OnTheWay
    <3>4. QED
      BY <1>1, <3>1, <3>3
  <2>2. ASSUME NEW i \in 1 .. n, i - 1 \in S PROVE i \in S
    <3>1. i \in Nat /\ i > 0 /\ i \in 1 .. EntriesSize /\ e[i] \in EntryType /\ e[i].enabled
      BY <1>1 DEF InUse
    <3>2. g[i] = Visit(a, g[i - 1], e[i])
      BY <1>2, <3>1
    <3>3. /\ g[i - 1] \in Result
          /\ AtEnd(g[i - 1], e, a, i - 1) \/ OnTheWay(g[i - 1], e, a, i - 1)
      BY <2>2
    <3>4. g[i] \in Result
      BY <3>1, <3>2, <3>3, VisitType
    <3>5. AtEnd(g[i], e, a, i) \/ OnTheWay(g[i], e, a, i)
      BY <3>1, <3>2, <3>3, VisitStep
    <3>6. QED
      BY <3>4, <3>5
  <2> HIDE DEF S
  <2>3. \A i \in 0 .. n : i \in S
    BY <1>1, <2>1, <2>2, RangeInduction
  <2>4. QED
    BY <2>3 DEF S
<1>4. g[n] \in Result /\ (AtEnd(g[n], e, a, n) \/ OnTheWay(g[n], e, a, n))
  BY <1>1, <1>3
<1>5. ASSUME \A i \in n + 1 .. EntriesSize :
               g[i - 1].type = g[n].type /\ (i - 1 = n \/ g[i - 1].left) =>
                 g[i].type = g[n].type /\ g[i].left
      PROVE  g[EntriesSize].type = g[n].type
  <2> DEFINE S == {j \in 0 .. EntriesSize :
                     j >= n => g[j].type = g[n].type /\ (j = n \/ g[j].left)}
  <2>1. 0 \in S
    BY <1>1
  <2>2. ASSUME NEW i \in 1 .. EntriesSize, i - 1 \in S PROVE i \in S
    <3>1. CASE i > n
      <4>1. i \in n + 1 .. EntriesSize /\ i - 1 >= n
        BY <1>1, <3>1
      <4>2. g[i - 1].type = g[n].type /\ (i - 1 = n \/ g[i - 1].left)
        BY <2>2, <4>1
      <4>3. g[i].type = g[n].type /\ g[i].left
        BY <1>5, <4>1, <4>2
      <4>4. QED
        BY <1>1, <4>3
    <3>2. CASE i <= n
      BY <1>1, <3>2
    <3>3. QED
      BY <1>1, <3>1, <3>2
  <2> HIDE DEF S
  <2>3. \A i \in 0 .. EntriesSize : i \in S
    BY <1>1, <2>1, <2>2, RangeInduction
  <2>4. EntriesSize \in S
    BY <1>1, <2>3
  <2>5. QED
    BY <1>1, <2>4 DEF S
<1>6. ASSUME AtEnd(g[n], e, a, n) PROVE g[EntriesSize].type = g[n].type
  <2>1. ASSUME NEW i \in n + 1 .. EntriesSize,
               g[i - 1].type = g[n].type /\ (i - 1 = n \/ g[i - 1].left)
        PROVE  g[i].type = g[n].type /\ g[i].left
    <3>1. g[i] = Visit(a, g[i - 1], e[i])
      BY <1>1, <1>2
    <3>2. g[i - 1].left
      BY <1>1, <1>6, <2>1 DEF AtEnd
    <3>3. g[i] = g[i - 1]
      BY <3>1, <3>2 DEF Visit
    <3>4. QED
      BY <2>1, <3>2, <3>3
  <2>2. QED
    BY <1>5, <2>1
<1>7. ASSUME \A i \in n + 1 .. EntriesSize : ~e[i].enabled
      PROVE  g[EntriesSize].type = g[n].type
  <2>1. ASSUME NEW i \in n + 1 .. EntriesSize,
               g[i - 1].type = g[n].type /\ (i - 1 = n \/ g[i - 1].left)
        PROVE  g[i].type = g[n].type /\ g[i].left
    <3>1. g[i] = Visit(a, g[i - 1], e[i])
      BY <1>1, <1>2
    <3>2. CASE g[i - 1].left
      BY <2>1, <3>1, <3>2 DEF Visit
    <3>3. CASE ~g[i - 1].left
      <4>1. g[i] = Found(g[i - 1].type)
        BY <1>7, <3>1, <3>3 DEF Visit
      <4>2. QED
        BY <2>1, <4>1 DEF Found
    <3>4. QED
      BY <3>2, <3>3
  <2>2. QED
    BY <1>5, <2>1
<1>8. QED
  BY <1>4, <1>6, <1>7 DEF Unused

-----------------------------------------------------------------------------
(* Theorems                                                                *)

\* While the registers are unchanged the entries begin with the copy of them.
Copied ==
  fresh =>
    /\ defaultType = msrs.default
    /\ \A i \in DOMAIN NewEntries(msrs) : entries[i] = NewEntries(msrs)[i]

IInv == TypeOK /\ Copied

\* Every content of the registers is one a processor can have.
LEMMA MsrsType == ASSUME TypeOK PROVE msrs \in RegistersType
  BY MtrrAssumption DEF MtrrAssumption, TypeOK

\* The state of a search through a copy that is up to date.
LEMMA SearchCopied ==
  ASSUME IInv, fresh, NEW a
  PROVE  LET n == Len(NewEntries(msrs))
         IN  \E g :
               /\ g[n] \in Result
               /\ AtEnd(g[n], NewEntries(msrs), a, n) \/ OnTheWay(g[n], NewEntries(msrs), a, n)
               /\ AtEnd(g[n], NewEntries(msrs), a, n) \/ ~Stale =>
                    EptGetMemoryType(a) = IF g[n].type = "none" THEN defaultType ELSE g[n].type
<1> DEFINE new == NewEntries(msrs)
           n   == Len(new)
<1>1. msrs \in RegistersType
  BY MsrsType DEF IInv
<1>2. n \in Nat /\ n <= EntriesSize /\ EntriesSize \in Nat /\ DOMAIN new = 1 .. n
  <2>1. EntriesSize \in Nat
    BY MtrrAssumption DEF MtrrAssumption
  <2>2. QED
    BY <1>1, <2>1, NewEntriesParts, FixedFirst
<1>3. entries \in [1 .. EntriesSize -> EntryType]
  BY DEF IInv, TypeOK
<1>4. \A i \in 1 .. n : entries[i] = new[i] /\ entries[i].enabled
  BY <1>1, <1>2, FixedFirst DEF IInv, Copied
<1>5. PICK g : /\ IsSearch(g, entries, a)
               /\ EptGetMemoryType(a) =
                    IF g[EntriesSize].type = "none" THEN defaultType ELSE g[EntriesSize].type
  BY <1>3, SearchUnfold
<1> HIDE DEF new, n
<1>6. n \in 0 .. EntriesSize
  BY <1>2
<1>7. /\ g[n] \in Result
      /\ AtEnd(g[n], entries, a, n) \/ OnTheWay(g[n], entries, a, n)
      /\ AtEnd(g[n], entries, a, n) => g[EntriesSize].type = g[n].type
      /\ Unused(entries, n) => g[EntriesSize].type = g[n].type
  <2>1. IsSearch(g, entries, a) /\ InUse(entries, n)
    BY <1>4, <1>5 DEF InUse
  <2>2. QED
    BY <1>3, <1>6, <2>1, SearchResult
<1>8. ~Stale => Unused(entries, n)
  <2>1. ASSUME NEW i \in n + 1 .. EntriesSize, entries[i].enabled PROVE Stale
    <3>1. i \in 1 .. EntriesSize /\ i > n
      BY <1>2
    <3>2. QED
      BY <2>1, <3>1 DEF Stale, n, new
  <2>2. QED
    BY <2>1 DEF Unused
<1>9. /\ AtEnd(g[n], entries, a, n) <=> AtEnd(g[n], new, a, n)
      /\ OnTheWay(g[n], entries, a, n) <=> OnTheWay(g[n], new, a, n)
  <2>1. \A k \in 1 .. n : \A m \in 1 .. k - 1 : m \in 1 .. n
    BY <1>2
  <2>2. AtEnd(g[n], entries, a, n) <=> AtEnd(g[n], new, a, n)
    BY <1>4, <2>1 DEF AtEnd
  <2>3. Seen(entries, a, n) = Seen(new, a, n)
    BY <1>4 DEF Seen
  <2>4. Inverted(entries, a, n) <=> Inverted(new, a, n)
    BY <1>4 DEF Inverted
  <2>5. (\A m \in 1 .. n : ~Ends(a, entries[m])) <=> (\A m \in 1 .. n : ~Ends(a, new[m]))
    BY <1>4
  <2>6. QED
    BY <2>2, <2>3, <2>4, <2>5 DEF OnTheWay
<1>10. AtEnd(g[n], new, a, n) \/ ~Stale => g[EntriesSize].type = g[n].type
  BY <1>7, <1>8, <1>9
<1>11. QED
  BY <1>5, <1>7, <1>9, <1>10 DEF n, new

\* A search that was left gives the type of the fixed range or UC.
LEMMA AtEndIsArchitectural ==
  ASSUME NEW regs \in RegistersType, regs.E, NEW a, NEW r,
         AtEnd(r, NewEntries(regs), a, Len(NewEntries(regs)))
  PROVE  r.type \in Architectural(regs, a) /\ r.type # "none"
<1> DEFINE new == NewEntries(regs)
           n   == Len(new)
<1>1. DOMAIN new = 1 .. n /\ n \in Nat /\ new \in Seq(EntryType)
  BY FixedFirst, NewEntriesParts
<1>2. FixedMatch(regs, new, a) /\ VariableMatch(regs, new, a)
  BY FixedMatches, VariableMatches
<1> HIDE DEF new, n
<1>3. PICK k \in 1 .. n : /\ Ends(a, new[k]) /\ r.type = new[k].type
                          /\ \A m \in 1 .. k - 1 : ~Ends(a, new[m])
  BY DEF AtEnd, new, n
<1>4. In(a, new[k]) /\ (new[k].fixed \/ new[k].type = "UC")
  BY <1>3 DEF Ends
<1>5. new[k].type # "none"
  <2>1. new[k] \in EntryType
    BY <1>1
  <2>2. QED
    BY <2>1 DEF EntryType, MemoryTypes
<1>6. CASE new[k].fixed
  <2>1. regs.FE /\ new[k].type \in FixedAt(regs, a)
    BY <1>1, <1>2, <1>4, <1>6 DEF FixedMatch
  <2>2. QED
    BY <1>3, <1>5, <2>1 DEF Architectural
<1>7. CASE ~new[k].fixed
  <2>1. new[k].type = "UC" /\ "UC" \in VariableAt(regs, a)
    BY <1>1, <1>2, <1>4, <1>7 DEF VariableMatch
  <2>2. ASSUME regs.FE, FixedAt(regs, a) # {} PROVE FALSE
    <3>1. PICK i \in 1 .. n : new[i].fixed /\ In(a, new[i])
      BY <1>1, <1>2, <2>2 DEF FixedMatch
    <3>2. Ends(a, new[i])
      BY <3>1 DEF Ends
    <3>3. i > k
      <4>1. i \notin 1 .. k - 1
        BY <1>3, <3>2
      <4>2. i # k
        BY <1>7, <3>1
      <4>3. QED
        BY <1>1, <4>1, <4>2
    <3>4. new[k].fixed
      BY <1>1, <1>2, <3>1, <3>3 DEF FixedMatch
    <3>5. QED
      BY <1>7, <3>4
  <2>3. QED
    BY <1>3, <1>5, <2>1, <2>2 DEF Architectural
<1>8. QED
  BY <1>6, <1>7

\* A search no entry ends gives what the variable ranges together ask for.
LEMMA OnTheWayIsArchitectural ==
  ASSUME NEW regs \in RegistersType, regs.E, NEW a, NEW r \in Result,
         OnTheWay(r, NewEntries(regs), a, Len(NewEntries(regs))),
         ~\E k, l \in DOMAIN regs.variable :
            /\ k < l
            /\ Covers(regs.variable[k], a) /\ regs.variable[k].type = "WT"
            /\ Covers(regs.variable[l], a) /\ regs.variable[l].type = "WB"
  PROVE  (IF r.type = "none" THEN regs.default ELSE r.type) \in Architectural(regs, a)
<1> DEFINE new == NewEntries(regs)
           n   == Len(new)
           var == VariableAt(regs, a)
<1>1. DOMAIN new = 1 .. n
  BY FixedFirst
<1>2. FixedMatch(regs, new, a) /\ VariableMatch(regs, new, a) /\ OrderMatch(regs, new, a)
  BY FixedMatches, VariableMatches
<1> HIDE DEF new, n
<1>3. /\ \A m \in 1 .. n : ~Ends(a, new[m])
      /\ r.type = "none" => Seen(new, a, n) = {}
      /\ r.type # "none" => r.type \in Seen(new, a, n)
      /\ "WT" \in Seen(new, a, n) /\ Seen(new, a, n) \subseteq {"WT", "WB"} =>
           r.type = "WT" \/ Inverted(new, a, n)
  BY DEF OnTheWay, new, n
<1>4. \A m \in 1 .. n : In(a, new[m]) => ~new[m].fixed /\ new[m].type # "UC"
  BY <1>3 DEF Ends
<1>5. ~(regs.FE /\ FixedAt(regs, a) # {})
  BY <1>1, <1>2, <1>4 DEF FixedMatch
<1>6. Seen(new, a, n) = var
  <2>1. \A t \in Seen(new, a, n) : t \in var
    BY <1>1, <1>2, <1>4 DEF Seen, VariableMatch
  <2>2. \A t \in var : t \in Seen(new, a, n)
    BY <1>1, <1>2 DEF Seen, VariableMatch
  <2>3. QED
    BY <2>1, <2>2
<1>7. "UC" \notin var
  BY <1>4, <1>6 DEF Seen
<1>8. ~Inverted(new, a, n)
  <2>1. ASSUME Inverted(new, a, n) PROVE FALSE
    <3>1. PICK k \in 1 .. n, l \in 1 .. n :
            /\ k < l
            /\ In(a, new[k]) /\ new[k].type = "WT"
            /\ In(a, new[l]) /\ new[l].type = "WB"
      BY <2>1 DEF Inverted
    <3>2. QED
      BY <1>1, <1>2, <1>4, <3>1 DEF OrderMatch
  <2>2. QED
    BY <2>1
<1> HIDE DEF var
<1>9. r.type \in MemoryTypes \union {"none"} /\ regs.default \in MemoryTypes
  BY DEF Result, RegistersType
<1>10. CASE var = {}
  <2>1. r.type = "none"
    BY <1>3, <1>6, <1>10
  <2>2. QED
    BY <1>5, <1>10, <2>1 DEF Architectural, var
<1>11. CASE var # {}
  <2>1. r.type \in var /\ r.type # "none" /\ r.type \in MemoryTypes
    BY <1>3, <1>6, <1>9, <1>11
  <2>2. var = {"WT", "WB"} => r.type = "WT"
    BY <1>3, <1>6, <1>8
  <2>3. QED
    BY <1>5, <1>7, <1>11, <2>1, <2>2 DEF Architectural, var
<1>12. QED
  BY <1>10, <1>11

\* The registers, the entries and the default keep their types, and g_EptMtrrEntries
\* is large enough for every copy EptInitializeMtrrEntries makes; what it wrote is
\* still there as long as the registers are.
THEOREM EptMtrrInvariant == Spec => []IInv
<1>1. Init => IInv
  <2>1. ASSUME Init PROVE TypeOK
    <3>1. NoEntry \in EntryType
      BY DEF NoEntry, EntryType, MemoryTypes
    <3>2. msrs \in Registers \union Rewritten /\ msrs \in RegistersType
      BY <2>1, MtrrAssumption DEF Init, MtrrAssumption
    <3>3. Len(NewEntries(msrs)) <= EntriesSize
      BY <3>2, NewEntriesParts
    <3>4. entries \in [1 .. EntriesSize -> EntryType]
      BY <2>1, <3>1 DEF Init
    <3>5. defaultType \in MemoryTypes /\ fresh \in BOOLEAN /\ changes \in 0 .. MaxChanges
      <4>1. MaxChanges \in Nat
        BY MtrrAssumption DEF MtrrAssumption
      <4>2. defaultType \in MemoryTypes /\ fresh \in BOOLEAN
        BY <2>1 DEF Init, MemoryTypes
      <4>3. changes = 0
        BY <2>1 DEF Init
      <4>4. QED
        BY <4>1, <4>2, <4>3
    <3>6. QED
      BY <3>2, <3>3, <3>4, <3>5 DEF TypeOK
  <2>2. ASSUME Init PROVE Copied
    BY <2>2 DEF Init, Copied
  <2>3. QED
    BY <2>1, <2>2 DEF IInv
<1>2. IInv /\ [Next]_vars => IInv'
  <2> SUFFICES ASSUME IInv, [Next]_vars PROVE IInv'
    OBVIOUS
  <2>1. msrs \in RegistersType
    BY MsrsType DEF IInv
  <2>2. CASE EptInitializeMtrrEntries
    <3> DEFINE new == NewEntries(msrs)
    <3>1. /\ new \in Seq(EntryType) /\ Len(new) \in Nat /\ Len(new) <= EntriesSize
          /\ DOMAIN new = 1 .. Len(new)
      BY <2>1, NewEntriesParts, FixedFirst
    <3>2. /\ msrs' = msrs /\ fresh' = TRUE /\ changes' = changes
          /\ defaultType' = msrs.default
          /\ entries' = [i \in 1 .. EntriesSize |-> IF i <= Len(new) THEN new[i] ELSE entries[i]]
      BY <2>2 DEF EptInitializeMtrrEntries
    <3>3. EntriesSize \in Nat
      BY MtrrAssumption DEF MtrrAssumption
    <3>4. NewEntries(msrs)' = new
      BY <3>2
    <3> HIDE DEF new
    <3>5. entries' \in [1 .. EntriesSize -> EntryType]
      <4>1. ASSUME NEW i \in 1 .. EntriesSize
            PROVE  (IF i <= Len(new) THEN new[i] ELSE entries[i]) \in EntryType
        <5>1. entries[i] \in EntryType
          BY DEF IInv, TypeOK
        <5>2. i <= Len(new) => new[i] \in EntryType
          BY <3>1
        <5>3. QED
          BY <5>1, <5>2
      <4>2. QED
        BY <3>2, <4>1
    <3>6. TypeOK'
      <4>1. defaultType' \in MemoryTypes
        BY <2>1, <3>2 DEF RegistersType
      <4>2. QED
        BY <3>1, <3>2, <3>4, <3>5, <4>1 DEF IInv, TypeOK
    <3>7. Copied'
      <4>1. \A i \in 1 .. Len(new) : entries'[i] = new[i]
        BY <3>1, <3>2, <3>3
      <4>2. QED
        BY <3>1, <3>2, <3>4, <4>1 DEF Copied
    <3>8. QED
      BY <3>6, <3>7 DEF IInv
  <2>3. CASE RegistersChange
    <3>1. /\ msrs' \in Rewritten /\ fresh' = FALSE /\ changes' = changes + 1
          /\ changes < MaxChanges /\ entries' = entries /\ defaultType' = defaultType
      BY <2>3 DEF RegistersChange
    <3>2. msrs' \in RegistersType
      BY <3>1, MtrrAssumption DEF MtrrAssumption
    <3>3. Len(NewEntries(msrs')) <= EntriesSize
      BY <3>2, NewEntriesParts
    <3>4. TypeOK'
      <4>1. changes' \in 0 .. MaxChanges
        BY <3>1, MtrrAssumption DEF IInv, TypeOK, MtrrAssumption
      <4>2. QED
        BY <3>1, <3>3, <4>1 DEF IInv, TypeOK
    <3>5. Copied'
      BY <3>1 DEF Copied
    <3>6. QED
      BY <3>4, <3>5 DEF IInv
  <2>4. CASE UNCHANGED vars
    BY <2>4 DEF IInv, TypeOK, Copied, vars
  <2>5. QED
    BY <2>2, <2>3, <2>4 DEF Next
<1>3. QED
  BY <1>1, <1>2, PTL DEF Spec

\* The type invariant of EptMtrr.
THEOREM EptMtrrTypeCorrect == Spec => []TypeOK
<1>1. IInv => TypeOK
  BY DEF IInv
<1>2. QED
  BY <1>1, EptMtrrInvariant, PTL

\* EptGetMemoryType gives every page the type the architecture gives it, for any
\* number of ranges that overlap in any way, but for what MemoryTypeCorrect excepts.
THEOREM EptGivesMemoryType == Spec => []MemoryTypeCorrect
<1>1. IInv => MemoryTypeCorrect
  <2> SUFFICES ASSUME IInv, fresh, ~Stale, msrs.E, NEW a \in Addresses, ~WtBeforeWb(a)
               PROVE  EptGetMemoryType(a) \in Architectural(msrs, a)
    BY DEF MemoryTypeCorrect
  <2> DEFINE new == NewEntries(msrs)
             n   == Len(new)
  <2>1. msrs \in RegistersType
    BY MsrsType DEF IInv
  <2>2. PICK g : /\ g[n] \in Result
                 /\ AtEnd(g[n], new, a, n) \/ OnTheWay(g[n], new, a, n)
                 /\ EptGetMemoryType(a) = IF g[n].type = "none" THEN defaultType ELSE g[n].type
    BY SearchCopied
  <2>3. defaultType = msrs.default
    BY DEF IInv, Copied
  <2>4. CASE AtEnd(g[n], new, a, n)
    <3>1. g[n].type \in Architectural(msrs, a) /\ g[n].type # "none"
      BY <2>1, <2>4, AtEndIsArchitectural
    <3>2. QED
      BY <2>2, <3>1
  <2>5. CASE OnTheWay(g[n], new, a, n)
    <3>1. ~\E k, l \in DOMAIN msrs.variable :
             /\ k < l
             /\ Covers(msrs.variable[k], a) /\ msrs.variable[k].type = "WT"
             /\ Covers(msrs.variable[l], a) /\ msrs.variable[l].type = "WB"
      BY DEF WtBeforeWb
    <3>2. (IF g[n].type = "none" THEN msrs.default ELSE g[n].type) \in Architectural(msrs, a)
      BY <2>1, <2>2, <2>5, <3>1, OnTheWayIsArchitectural
    <3>3. QED
      BY <2>2, <2>3, <3>2
  <2>6. QED
    BY <2>2, <2>4, <2>5
<1>2. QED
  BY <1>1, EptMtrrInvariant, PTL

\* Whatever an earlier copy left behind: a page in a fixed range or in a range that is
\* UC has the type the registers give it.
THEOREM EptKeepsStrongRanges == Spec => []StrongRangesPrevail
<1>1. IInv => StrongRangesPrevail
  <2> SUFFICES ASSUME IInv, fresh, msrs.E, NEW a \in Addresses,
                      (msrs.FE /\ FixedAt(msrs, a) # {}) \/ "UC" \in VariableAt(msrs, a)
               PROVE  EptGetMemoryType(a) \in Architectural(msrs, a)
    BY DEF StrongRangesPrevail
  <2> DEFINE new == NewEntries(msrs)
             n   == Len(new)
  <2>1. msrs \in RegistersType
    BY MsrsType DEF IInv
  <2>2. PICK g : /\ AtEnd(g[n], new, a, n) \/ OnTheWay(g[n], new, a, n)
                 /\ AtEnd(g[n], new, a, n) =>
                      EptGetMemoryType(a) = IF g[n].type = "none" THEN defaultType ELSE g[n].type
    BY SearchCopied
  <2>3. \E i \in 1 .. n : Ends(a, new[i])
    <3>1. DOMAIN new = 1 .. n
      BY <2>1, FixedFirst
    <3>2. FixedMatch(msrs, new, a) /\ VariableMatch(msrs, new, a)
      BY <2>1, FixedMatches, VariableMatches
    <3> HIDE DEF new, n
    <3>3. QED
      BY <3>1, <3>2 DEF Ends, FixedMatch, VariableMatch
  <2>4. AtEnd(g[n], new, a, n)
    BY <2>2, <2>3 DEF OnTheWay
  <2>5. g[n].type \in Architectural(msrs, a) /\ g[n].type # "none"
    BY <2>1, <2>4, AtEndIsArchitectural
  <2>6. QED
    BY <2>2, <2>4, <2>5
<1>2. QED
  BY <1>1, EptMtrrInvariant, PTL
=============================================================================
