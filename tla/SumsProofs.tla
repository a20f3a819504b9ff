----------------------------- MODULE SumsProofs -----------------------------
(***************************************************************************)
(* What the recursive functions of Sums compute.  Induction is derived     *)
(* from the library's theorem that strict inclusion is well-founded on     *)
(* finite sets, in a form that speaks of sets and not of operators.        *)
(***************************************************************************)
EXTENDS Sums, TLAPS, WellFoundedInduction, FiniteSetTheorems, SequenceTheorems

\* Every nonempty set of naturals has a least element.
LEMMA LeastElement ==
  ASSUME NEW T \in SUBSET Nat, T # {}
  PROVE  \E n \in T : \A m \in T : n <= m
<1>. DEFINE U == {0..(n - 1) : n \in T}
<1>1. U \subseteq FiniteSubsetsOf(Nat)
  <2>1. \A n \in T : IsFiniteSet(0..(n - 1))
    BY FS_Interval
  <2>. QED
    BY <2>1 DEF FiniteSubsetsOf
<1>2. PICK S \in U : \A R \in U : ~(<<R, S>> \in StrictSubsetOrdering(Nat))
  <2>. HIDE DEF U
  <2>1. IsWellFoundedOn(StrictSubsetOrdering(Nat), FiniteSubsetsOf(Nat))
    BY FS_StrictSubsetOrderingWellFounded
  <2>2. U # {}
    BY DEF U
  <2>. QED
    BY <2>1, <2>2, <1>1, WFMin
<1>3. PICK n \in T : S = 0..(n - 1)
  BY <1>2
<1>4. \A m \in T : ~(m < n)
  <2>. SUFFICES ASSUME NEW m \in T, m < n PROVE FALSE
    OBVIOUS
  <2>1. m \in S /\ m \notin 0..(m - 1)
    BY <1>3
  <2>2. 0..(m - 1) \in SUBSET S /\ 0..(m - 1) # S
    BY <2>1, <1>3
  <2>3. S \in SUBSET Nat
    BY <1>3
  <2>. QED
    BY <2>2, <2>3, <1>2 DEF StrictSubsetOrdering
<1>. QED
  BY <1>4

\* Induction along 0..n: a set that holds 0 and each number whose predecessor
\* it holds, holds all of them.
LEMMA RangeInduction ==
  ASSUME NEW n \in Nat, NEW S, 0 \in S,
         \A i \in 1..n : i - 1 \in S => i \in S
  PROVE  0..n \subseteq S
<1>. DEFINE T == (0..n) \ S
<1>. SUFFICES ASSUME T # {} PROVE FALSE
  OBVIOUS
<1>1. PICK i \in T : \A j \in T : i <= j
  <2>1. T \in SUBSET Nat
    OBVIOUS
  <2>. QED
    BY <2>1, LeastElement
<1>2. i \in 1..n
  BY <1>1
<1>3. i - 1 \in S
  BY <1>1, <1>2
<1>. QED
  BY <1>1, <1>2, <1>3

\* Counting up from 0 in a set that holds 0, there is a last number inside.
LEMMA LastInside ==
  ASSUME NEW n \in Nat, NEW S, 0 \in S
  PROVE  \E m \in 0..n : m \in S /\ (m < n => m + 1 \notin S)
<1>1. CASE 0..n \subseteq S
  <2>1. n \in 0..n
    OBVIOUS
  <2>. QED
    BY <1>1, <2>1
<1>2. CASE ~(0..n \subseteq S)
  <2>1. PICK i \in 1..n : i - 1 \in S /\ i \notin S
    BY <1>2, RangeInduction
  <2>2. i - 1 \in 0..n /\ (i - 1) + 1 = i
    OBVIOUS
  <2>. QED
    BY <2>1, <2>2
<1>. QED
  BY <1>1, <1>2

\* step[i] leads from T to T, for i up to n, and b is in T.
Stepping(T, b, step, n) ==
    b \in T /\ \A i \in 1..n : \A x \in T : step[i][x] \in T

\* f starts at b and goes on by step, up to n.
Follows(f, b, step, n) ==
    f[0] = b /\ \A i \in 1..n : f[i] = step[i][f[i - 1]]

\* A function of 0..n can be defined by its value at 0 and a step from each
\* value to the next.
LEMMA Recursion ==
  ASSUME NEW n \in Nat, NEW T, NEW b, NEW step, Stepping(T, b, step, n)
  PROVE  \E f : f \in [0..n -> T] /\ Follows(f, b, step, n)
<1>. DEFINE S == {m \in 0..n : \E f : f \in [0..n -> T] /\ Follows(f, b, step, m)}
<1>1. 0 \in S
  <2>. DEFINE f == [i \in 0..n |-> b]
  <2>1. f \in [0..n -> T] /\ Follows(f, b, step, 0)
    BY DEF Follows, Stepping
  <2>. HIDE DEF f
  <2>. QED
    BY <2>1
<1>2. \A i \in 1..n : i - 1 \in S => i \in S
  <2>. SUFFICES ASSUME NEW i \in 1..n, i - 1 \in S PROVE i \in S
    OBVIOUS
  <2>1. PICK f : f \in [0..n -> T] /\ Follows(f, b, step, i - 1)
    OBVIOUS
  <2>. DEFINE g == [f EXCEPT ![i] = step[i][f[i - 1]]]
  <2>2. g \in [0..n -> T] /\ g[0] = b
    BY <2>1 DEF Stepping, Follows
  <2>3. \A j \in 1..i : g[j] = step[j][g[j - 1]]
    BY <2>1 DEF Follows
  <2>4. g \in [0..n -> T] /\ Follows(g, b, step, i)
    <3>. HIDE DEF g
    <3>. QED
      BY <2>2, <2>3 DEF Follows
  <2>. HIDE DEF g
  <2>. QED
    BY <2>4
<1>3. 0..n \subseteq S
  <2>. HIDE DEF S
  <2>. QED
    BY <1>1, <1>2, RangeInduction
<1>. QED
  BY <1>3
-----------------------------------------------------------------------------
(* Sums                                                                    *)

\* first[i] is the sum of the first i elements of s, for i up to n.
PartialSums(first, s, n) ==
    /\ first \in [0..n -> Int]
    /\ first[0] = 0
    /\ \A i \in 1..n : first[i] = first[i - 1] + s[i]

LEMMA PartialSumsExist ==
  ASSUME NEW n \in Nat, NEW s, \A i \in 1..n : s[i] \in Int
  PROVE  \E first : PartialSums(first, s, n)
<1>. DEFINE step == [i \in 1..n |-> [x \in Int |-> x + s[i]]]
<1>1. Stepping(Int, 0, step, n)
  BY DEF Stepping
<1>2. PICK first : first \in [0..n -> Int] /\ Follows(first, 0, step, n)
  <2>. HIDE DEF step
  <2>. QED
    BY <1>1, Recursion
<1>3. \A i \in 1..n : first[i] = first[i - 1] + s[i]
  <2>. SUFFICES ASSUME NEW i \in 1..n PROVE first[i] = first[i - 1] + s[i]
    OBVIOUS
  <2>1. first[i - 1] \in Int
    BY <1>2
  <2>2. step[i] = [x \in Int |-> x + s[i]]
    OBVIOUS
  <2>3. step[i][first[i - 1]] = first[i - 1] + s[i]
    BY <2>1, <2>2
  <2>. QED
    BY <1>2, <2>3 DEF Follows
<1>. QED
  BY <1>2, <1>3 DEF PartialSums, Follows

\* Partial sums agree as long as the sequences do.
LEMMA PartialSumsAgree ==
  ASSUME NEW n \in Nat, NEW m \in Nat, n <= m, NEW s, NEW t, NEW f, NEW g,
         PartialSums(f, s, n), PartialSums(g, t, m),
         \A i \in 1..n : s[i] = t[i]
  PROVE  f[n] = g[n]
<1>. DEFINE S == {i \in 0..n : f[i] = g[i]}
<1>1. 0 \in S
  BY DEF PartialSums
<1>2. \A i \in 1..n : i - 1 \in S => i \in S
  BY DEF PartialSums
<1>3. 0..n \subseteq S
  <2>. HIDE DEF S
  <2>. QED
    BY <1>1, <1>2, RangeInduction
<1>. QED
  BY <1>3

\* t is what u has from its n-th element on.
Continues(u, t, n, m) == \A i \in 1..m : t[i] \in Int /\ t[i] = u[n + i]

\* What follows the first n elements adds its own partial sums to theirs.
LEMMA PartialSumsShift ==
  ASSUME NEW n \in Nat, NEW m \in Nat, NEW k, k = n + m,
         NEW t, NEW u, NEW g, NEW h,
         PartialSums(g, t, m), PartialSums(h, u, k),
         Continues(u, t, n, m)
  PROVE  h[k] = h[n] + g[m]
<1>. DEFINE S == {i \in 0..m : h[n + i] = h[n] + g[i]}
<1>1. h[n] \in Int
  BY DEF PartialSums
<1>2. 0 \in S
  BY <1>1 DEF PartialSums
<1>3. \A i \in 1..m : i - 1 \in S => i \in S
  <2>. SUFFICES ASSUME NEW i \in 1..m, i - 1 \in S PROVE i \in S
    OBVIOUS
  <2>1. h[n + (i - 1)] = h[n] + g[i - 1]
    OBVIOUS
  <2>2. g[i] = g[i - 1] + t[i] /\ g[i - 1] \in Int /\ t[i] \in Int
    BY DEF PartialSums, Continues
  <2>3. h[n + i] = h[(n + i) - 1] + u[n + i]
    <3>1. n + i \in 1..k
      OBVIOUS
    <3>. QED
      BY <3>1 DEF PartialSums
  <2>4. (n + i) - 1 = n + (i - 1) /\ u[n + i] = t[i]
    BY DEF Continues
  <2>. QED
    BY <1>1, <2>1, <2>2, <2>3, <2>4
<1>4. 0..m \subseteq S
  <2>. HIDE DEF S
  <2>. QED
    BY <1>2, <1>3, RangeInduction
<1>. QED
  BY <1>4

\* SumSeq is the last of the partial sums.
LEMMA SumIsLastPartialSum ==
  ASSUME NEW s \in Seq(Int)
  PROVE  \E first : PartialSums(first, s, Len(s)) /\ SumSeq(s) = first[Len(s)]
<1>. DEFINE Eqn(f) == f = [i \in 0..Len(s) |-> IF i = 0 THEN 0 ELSE f[i - 1] + s[i]]
            first == CHOOSE f : Eqn(f)
<1>1. Len(s) \in Nat /\ \A i \in 1..Len(s) : s[i] \in Int
  OBVIOUS
<1>2. \E f : Eqn(f)
  <2>1. PICK f : PartialSums(f, s, Len(s))
    BY <1>1, PartialSumsExist
  <2>2. Eqn(f)
    BY <1>1, <2>1 DEF PartialSums
  <2>. QED
    BY <2>2
<1>3. Eqn(first)
  BY <1>2
<1>4. SumSeq(s) = first[Len(s)]
  BY DEF SumSeq
<1>5. first[0] = 0 /\ \A i \in 1..Len(s) : first[i] = first[i - 1] + s[i]
  <2>. HIDE DEF first
  <2>. QED
    BY <1>1, <1>3
<1>6. \A i \in 0..Len(s) : first[i] \in Int
  <2>. DEFINE S == {i \in 0..Len(s) : first[i] \in Int}
  <2>. HIDE DEF first
  <2>1. 0 \in S
    BY <1>5, <1>1
  <2>2. \A i \in 1..Len(s) : i - 1 \in S => i \in S
    BY <1>5, <1>1
  <2>3. 0..Len(s) \subseteq S
    <3>. HIDE DEF S
    <3>. QED
      BY <1>1, <2>1, <2>2, RangeInduction
  <2>. QED
    BY <2>3
<1>7. PartialSums(first, s, Len(s))
  <2>. HIDE DEF first
  <2>1. first \in [0..Len(s) -> Int]
    BY <1>3, <1>6
  <2>. QED
    BY <2>1, <1>5 DEF PartialSums
<1>. QED
  BY <1>4, <1>7

\* A sum of integers is an integer, and a sum of naturals a natural.
LEMMA SumInt ==
  ASSUME NEW s \in Seq(Int)
  PROVE  SumSeq(s) \in Int
BY SumIsLastPartialSum DEF PartialSums

LEMMA SumNat ==
  ASSUME NEW s \in Seq(Nat)
  PROVE  SumSeq(s) \in Nat
<1>1. s \in Seq(Int) /\ Len(s) \in Nat /\ \A i \in 1..Len(s) : s[i] \in Nat
  <2>1. Nat \subseteq Int
    OBVIOUS
  <2>. QED
    BY <2>1, SeqMonotonic
<1>2. PICK first : PartialSums(first, s, Len(s)) /\ SumSeq(s) = first[Len(s)]
  BY <1>1, SumIsLastPartialSum
<1>. DEFINE S == {i \in 0..Len(s) : first[i] \in Nat}
<1>3. 0 \in S
  BY <1>1, <1>2 DEF PartialSums
<1>4. \A i \in 1..Len(s) : i - 1 \in S => i \in S
  BY <1>1, <1>2 DEF PartialSums
<1>5. 0..Len(s) \subseteq S
  <2>. HIDE DEF S
  <2>. QED
    BY <1>1, <1>3, <1>4, RangeInduction
<1>. QED
  BY <1>1, <1>2, <1>5

\* The sum of a sequence whose elements are no smaller is no smaller.
LEMMA SumLE ==
  ASSUME NEW s \in Seq(Int), NEW t \in Seq(Int), Len(s) = Len(t), \A i \in 1..Len(s) : s[i] <= t[i]
  PROVE  SumSeq(s) <= SumSeq(t)
<1>1. Len(s) \in Nat /\ \A i \in 1..Len(s) : s[i] \in Int /\ t[i] \in Int
  OBVIOUS
<1>2. PICK f : PartialSums(f, s, Len(s)) /\ SumSeq(s) = f[Len(s)]
  BY SumIsLastPartialSum
<1>3. PICK g : PartialSums(g, t, Len(s)) /\ SumSeq(t) = g[Len(s)]
  BY SumIsLastPartialSum
<1>. DEFINE S == {i \in 0..Len(s) : f[i] <= g[i]}
<1>4. 0 \in S
  BY <1>1, <1>2, <1>3 DEF PartialSums
<1>5. ASSUME NEW i \in 1..Len(s), i - 1 \in S PROVE i \in S
  <2>1. i - 1 \in 0..Len(s) /\ i \in 1..Len(s)
    BY <1>1
  <2>2. f[i] = f[i - 1] + s[i] /\ f[i - 1] \in Int
    BY <1>2, <2>1 DEF PartialSums
  <2>3. g[i] = g[i - 1] + t[i] /\ g[i - 1] \in Int
    BY <1>3, <2>1 DEF PartialSums
  <2>4. f[i - 1] <= g[i - 1] /\ s[i] \in Int /\ t[i] \in Int /\ s[i] <= t[i]
    BY <1>1, <1>5
  <2>. QED
    BY <1>1, <2>3, <2>4, <2>2
<1>6. 0..Len(s) \subseteq S
  <2>. HIDE DEF S
  <2>. QED
    BY <1>1, <1>4, <1>5, RangeInduction
<1>. QED
  BY <1>1, <1>2, <1>3, <1>6

LEMMA SumEmpty == SumSeq(<<>>) = 0
<1>1. <<>> \in Seq(Int)
  OBVIOUS
<1>. QED
  BY <1>1, SumIsLastPartialSum DEF PartialSums

\* The sum of two sequences one after the other is the sum of their sums.
LEMMA SumConcat ==
  ASSUME NEW s \in Seq(Int), NEW t \in Seq(Int)
  PROVE  SumSeq(s \o t) = SumSeq(s) + SumSeq(t)
<1>. DEFINE u == s \o t
<1>1. /\ u \in Seq(Int) /\ Len(s) \in Nat /\ Len(t) \in Nat
      /\ Len(u) = Len(s) + Len(t)
      /\ \A i \in 1..Len(s) : s[i] = u[i]
      /\ \A i \in 1..Len(t) : t[i] \in Int /\ t[i] = u[Len(s) + i]
  BY ConcatProperties
<1>. HIDE DEF u
<1>2. PICK f : PartialSums(f, s, Len(s)) /\ SumSeq(s) = f[Len(s)]
  BY SumIsLastPartialSum
<1>3. PICK g : PartialSums(g, t, Len(t)) /\ SumSeq(t) = g[Len(t)]
  BY SumIsLastPartialSum
<1>4. PICK h : PartialSums(h, u, Len(s) + Len(t)) /\ SumSeq(u) = h[Len(s) + Len(t)]
  BY <1>1, SumIsLastPartialSum
<1>5. f[Len(s)] = h[Len(s)]
  <2>1. ASSUME NEW n \in Nat, NEW m \in Nat, n <= m,
               PartialSums(f, s, n), PartialSums(h, u, m),
               \A i \in 1..n : s[i] = u[i]
        PROVE  f[n] = h[n]
    BY <2>1, PartialSumsAgree
  <2>2. Len(s) <= Len(s) + Len(t) /\ Len(s) + Len(t) \in Nat
    BY <1>1
  <2>. QED
    BY <1>1, <1>2, <1>4, <2>1, <2>2, Zenon
<1>6. h[Len(s) + Len(t)] = h[Len(s)] + g[Len(t)]
  <2>1. ASSUME NEW n \in Nat, NEW m \in Nat, NEW k, k = n + m,
               PartialSums(g, t, m), PartialSums(h, u, k),
               Continues(u, t, n, m)
        PROVE  h[k] = h[n] + g[m]
    BY <2>1, PartialSumsShift
  <2>2. Continues(u, t, Len(s), Len(t))
    BY <1>1 DEF Continues
  <2>. QED
    BY <1>1, <1>3, <1>4, <2>1, <2>2, Zenon
<1>. QED
  BY <1>2, <1>3, <1>4, <1>5, <1>6 DEF u

\* Appending an element adds it.
LEMMA SumAppend ==
  ASSUME NEW s \in Seq(Int), NEW x \in Int
  PROVE  SumSeq(Append(s, x)) = SumSeq(s) + x
<1>1. <<x>> \in Seq(Int) /\ Len(<<x>>) = 1 /\ <<x>>[1] = x
  OBVIOUS
<1>2. PICK first : PartialSums(first, <<x>>, 1) /\ SumSeq(<<x>>) = first[1]
  BY <1>1, SumIsLastPartialSum
<1>3. SumSeq(<<x>>) = x
  BY <1>1, <1>2 DEF PartialSums
<1>4. Append(s, x) = s \o <<x>>
  OBVIOUS
<1>. QED
  BY <1>1, <1>3, <1>4, SumConcat

\* The same for a sequence that is longer by one element.
LEMMA SumLonger ==
  ASSUME NEW s \in Seq(Int), NEW t \in Seq(Int), Len(t) = Len(s) + 1,
         \A i \in 1..Len(s) : t[i] = s[i]
  PROVE  SumSeq(t) = SumSeq(s) + t[Len(t)]
<1>. DEFINE x == t[Len(t)]
<1>1. Len(s) \in Nat /\ Len(t) \in 1..Len(t) /\ x \in Int
  BY LenProperties, ElementOfSeq
<1>. HIDE DEF x
<1>2. /\ Append(s, x) \in Seq(Int) /\ Len(Append(s, x)) = Len(s) + 1
      /\ \A i \in 1..Len(s) : Append(s, x)[i] = s[i]
      /\ Append(s, x)[Len(s) + 1] = x
  BY <1>1, AppendProperties
<1>3. \A i \in 1..Len(t) : t[i] = Append(s, x)[i]
  BY <1>1, <1>2 DEF x
<1>4. t = Append(s, x)
  BY <1>2, <1>3, SeqEqual
<1>. QED
  BY <1>1, <1>4, SumAppend DEF x
-----------------------------------------------------------------------------
(* Powers and halving                                                      *)

\* A power of two is a positive integer.
LEMMA Pow2Positive ==
  ASSUME NEW k \in Nat
  PROVE  Pow2(k) \in Nat /\ Pow2(k) > 0
<1>. DEFINE Eqn(f) == f = [i \in 0..k |-> IF i = 0 THEN 1 ELSE 2 * f[i - 1]]
            pow == CHOOSE f : Eqn(f)
            step == [i \in 1..k |-> [x \in Int |-> 2 * x]]
<1>1. \E f : Eqn(f)
  <2>1. Stepping(Int, 1, step, k)
    BY DEF Stepping
  <2>2. PICK f : f \in [0..k -> Int] /\ Follows(f, 1, step, k)
    <3>. HIDE DEF step
    <3>. QED
      BY <2>1, Recursion
  <2>3. \A i \in 1..k : f[i] = 2 * f[i - 1]
    <3>. SUFFICES ASSUME NEW i \in 1..k PROVE f[i] = 2 * f[i - 1]
      OBVIOUS
    <3>1. f[i - 1] \in Int /\ step[i] = [x \in Int |-> 2 * x]
      BY <2>2
    <3>2. step[i][f[i - 1]] = 2 * f[i - 1]
      BY <3>1
    <3>. QED
      BY <2>2, <3>2 DEF Follows
  <2>4. Eqn(f)
    BY <2>2, <2>3 DEF Follows
  <2>. QED
    BY <2>4
<1>2. Eqn(pow)
  BY <1>1
<1>3. Pow2(k) = pow[k]
  BY DEF Pow2
<1>. HIDE DEF pow
<1>4. pow[0] = 1 /\ \A i \in 1..k : pow[i] = 2 * pow[i - 1]
  BY <1>2
<1>. DEFINE S == {i \in 0..k : pow[i] \in Nat /\ pow[i] > 0}
<1>5. 0 \in S /\ \A i \in 1..k : i - 1 \in S => i \in S
  BY <1>4
<1>6. 0..k \subseteq S
  <2>. HIDE DEF S
  <2>. QED
    BY <1>5, RangeInduction
<1>. QED
  BY <1>3, <1>6

\* Halving keeps a natural a natural.
LEMMA HalveNat ==
  ASSUME NEW n \in Nat, NEW k \in Nat
  PROVE  Halve(n, k) \in Nat
<1>. DEFINE Eqn(f) == f = [i \in 0..k |-> IF i = 0 THEN n ELSE f[i - 1] \div 2]
            half == CHOOSE f : Eqn(f)
            step == [i \in 1..k |-> [x \in Int |-> x \div 2]]
<1>1. \E f : Eqn(f)
  <2>1. Stepping(Int, n, step, k)
    BY DEF Stepping
  <2>2. PICK f : f \in [0..k -> Int] /\ Follows(f, n, step, k)
    <3>. HIDE DEF step
    <3>. QED
      BY <2>1, Recursion
  <2>3. \A i \in 1..k : f[i] = f[i - 1] \div 2
    <3>. SUFFICES ASSUME NEW i \in 1..k PROVE f[i] = f[i - 1] \div 2
      OBVIOUS
    <3>1. f[i - 1] \in Int /\ step[i] = [x \in Int |-> x \div 2]
      BY <2>2
    <3>2. step[i][f[i - 1]] = f[i - 1] \div 2
      BY <3>1
    <3>. QED
      BY <2>2, <3>2 DEF Follows
  <2>4. Eqn(f)
    BY <2>2, <2>3 DEF Follows
  <2>. QED
    BY <2>4
<1>2. Eqn(half)
  BY <1>1
<1>3. Halve(n, k) = half[k]
  BY DEF Halve
<1>. HIDE DEF half
<1>4. half[0] = n /\ \A i \in 1..k : half[i] = half[i - 1] \div 2
  BY <1>2
<1>. DEFINE S == {i \in 0..k : half[i] \in Nat}
<1>5. 0 \in S /\ \A i \in 1..k : i - 1 \in S => i \in S
  BY <1>4
<1>6. 0..k \subseteq S
  <2>. HIDE DEF S
  <2>. QED
    BY <1>5, RangeInduction
<1>. QED
  BY <1>3, <1>6

\* A prefix of a prefix is a prefix.
LEMMA PrefixOfPrefix ==
  ASSUME NEW S, NEW c \in Seq(S), NEW n \in 1..Len(c), NEW i \in 1..n
  PROVE  SubSeq(SubSeq(c, 1, n), 1, i) = SubSeq(c, 1, i)
<1>1. Len(c) \in Nat
  BY LenProperties
<1>2. /\ 1 \in 1..Len(c) /\ n \in 1..Len(c)
      /\ 1 \in 1..(n - 1 + 1) /\ i \in 1..(n - 1 + 1)
  BY <1>1
<1>3. SubSeq(SubSeq(c, 1, n), 1, i) = SubSeq(c, 1 + 1 - 1, 1 + i - 1)
  BY <1>2, SubSeqOfSubSeq
<1>. QED
  BY <1>1, <1>3

\* Sequences of lengths 1 to n, each of which continues the one before it, are
\* the prefixes of the last.
LEMMA GrowingPrefixes ==
  ASSUME NEW S, NEW n \in Nat, NEW d,
         \A i \in 1..n : /\ d[i] \in Seq(S) /\ Len(d[i]) = i
                         /\ i > 1 => SubSeq(d[i], 1, i - 1) = d[i - 1]
  PROVE  \A i \in 1..n : d[i] = SubSeq(d[n], 1, i)
<1>. SUFFICES ASSUME n > 0 PROVE \A i \in 1..n : d[i] = SubSeq(d[n], 1, i)
  OBVIOUS
<1>. DEFINE T == {j \in 0..(n - 1) : d[n - j] = SubSeq(d[n], 1, n - j)}
<1>1. 0 \in T
  <2>1. n \in 1..n /\ SubSeq(d[n], 1, Len(d[n])) = d[n]
    BY SubSeqFull
  <2>. QED
    BY <2>1
<1>2. ASSUME NEW j \in 1..(n - 1), j - 1 \in T PROVE j \in T
  <2>. DEFINE k == n - (j - 1)
  <2>1. k \in 1..n /\ k > 1 /\ k - 1 \in 1..k /\ k - 1 = n - j /\ k \in 1..Len(d[n])
    OBVIOUS
  <2>2. d[k] = SubSeq(d[n], 1, k)
    BY <1>2
  <2>. HIDE DEF k
  <2>3. SubSeq(SubSeq(d[n], 1, k), 1, k - 1) = SubSeq(d[n], 1, k - 1)
    BY <2>1, PrefixOfPrefix
  <2>4. d[k - 1] = SubSeq(d[n], 1, k - 1)
    BY <2>1, <2>2, <2>3
  <2>5. j \in 0..(n - 1)
    OBVIOUS
  <2>. QED
    BY <2>1, <2>4, <2>5
<1>3. 0..(n - 1) \subseteq T
  <2>1. n - 1 \in Nat
    OBVIOUS
  <2>. HIDE DEF T
  <2>. QED
    BY <1>1, <1>2, <2>1, RangeInduction
<1>4. ASSUME NEW i \in 1..n PROVE d[i] = SubSeq(d[n], 1, i)
  <2>1. n - i \in 0..(n - 1) /\ n - (n - i) = i
    OBVIOUS
  <2>. QED
    BY <1>3, <2>1
<1>. QED
  BY <1>4

\* The prefixes of a sequence stay when an element is appended.
LEMMA PrefixOfAppend ==
  ASSUME NEW S, NEW s \in Seq(S), NEW x \in S, NEW n \in 0..Len(s)
  PROVE  SubSeq(Append(s, x), 1, n) = SubSeq(s, 1, n)
<1>1. /\ Len(s) \in Nat /\ Append(s, x) \in Seq(S) /\ Len(Append(s, x)) = Len(s) + 1
      /\ \A i \in 1..Len(s) : Append(s, x)[i] = s[i] /\ s[i] \in S
  BY LenProperties, AppendProperties
<1>2. /\ SubSeq(s, 1, n) \in Seq(S) /\ Len(SubSeq(s, 1, n)) = n
      /\ \A i \in 1..n : SubSeq(s, 1, n)[i] = s[i]
  BY <1>1, SubSeqProperties
<1>3. /\ SubSeq(Append(s, x), 1, n) \in Seq(S) /\ Len(SubSeq(Append(s, x), 1, n)) = n
      /\ \A i \in 1..n : SubSeq(Append(s, x), 1, n)[i] = Append(s, x)[i]
  BY <1>1, SubSeqProperties
<1>4. \A i \in 1..n : SubSeq(Append(s, x), 1, n)[i] = SubSeq(s, 1, n)[i]
  BY <1>1, <1>2, <1>3
<1>. QED
  BY <1>2, <1>3, <1>4, SeqEqual

\* Induction over sequences: a set that holds the empty one, and each that
\* appends an element to one it holds, holds all.
LEMMA AppendInduction ==
  ASSUME NEW S, NEW G, <<>> \in G,
         \A s \in Seq(S) : \A x \in S : s \in G => Append(s, x) \in G
  PROVE  Seq(S) \subseteq G
<1>. SUFFICES ASSUME NEW s \in Seq(S) PROVE s \in G
  OBVIOUS
<1>. DEFINE P == {n \in 0..Len(s) : SubSeq(s, 1, n) \in G}
<1>1. Len(s) \in Nat /\ \A i \in 1..Len(s) : s[i] \in S
  BY LenProperties
<1>2. 0 \in P
  <2>1. SubSeq(s, 1, 0) = <<>>
    BY SubSeqEmpty
  <2>2. SubSeq(s, 1, 0) \in G
    BY <2>1, Zenon
  <2>. QED
    BY <1>1, <2>2
<1>3. ASSUME NEW n \in 1..Len(s), n - 1 \in P PROVE n \in P
  <2>1. /\ SubSeq(s, 1, n - 1) \in Seq(S) /\ SubSeq(s, 1, n - 1) \in G
        /\ s[n] \in S
    BY <1>1, <1>3, SubSeqProperties
  <2>2. SubSeq(s, 1, n) = Append(SubSeq(s, 1, n - 1), s[n])
    <3>1. n \in 1..Len(s) /\ 1 \in 1..Len(s)
      BY <1>1
    <3>2. SubSeq(s, 1, n) = SubSeq(s, 1, n - 1) \o <<s[n]>>
      BY <3>1, SubSeqRecursiveSecond
    <3>. QED
      BY <2>1, <3>2, AppendIsConcat
  <2>3. SubSeq(s, 1, n) \in G
    BY <2>1, <2>2, Zenon
  <2>4. n \in 0..Len(s)
    BY <1>1
  <2>. QED
    BY <2>3, <2>4
<1>4. Len(s) \in P
  <2>1. 0..Len(s) \subseteq P
    <3>. HIDE DEF P
    <3>. QED
      BY <1>1, <1>2, <1>3, RangeInduction
  <2>. QED
    BY <1>1, <2>1
<1>. QED
  BY <1>4, SubSeqFull

-----------------------------------------------------------------------------
(* Sums of the values of a function of a finite set                        *)

\* Induction over the subsets of a finite set: a set Q that holds a subset
\* whenever it holds all smaller ones holds them all.
LEMMA SubsetInduction ==
  ASSUME NEW S, IsFiniteSet(S), NEW Q,
         \A A \in SUBSET S : (\A B \in SUBSET A : B # A => B \in Q) => A \in Q
  PROVE  SUBSET S \subseteq Q
<1>. DEFINE T == (SUBSET S) \ Q
<1>. SUFFICES ASSUME T # {} PROVE FALSE
  OBVIOUS
<1>1. PICK A \in T : \A B \in T : ~(<<B, A>> \in StrictSubsetOrdering(S))
  <2>. HIDE DEF T
  <2>1. IsWellFoundedOn(StrictSubsetOrdering(S), FiniteSubsetsOf(S))
    BY FS_StrictSubsetOrderingWellFounded
  <2>2. FiniteSubsetsOf(S) = SUBSET S
    BY FS_FiniteSubsetsOfFinite
  <2>3. T \subseteq SUBSET S
    BY DEF T
  <2>. QED
    BY <2>1, <2>2, <2>3, WFMin
<1>2. \A B \in SUBSET A : B # A => B \in Q
  BY <1>1 DEF StrictSubsetOrdering
<1>. QED
  BY <1>1, <1>2

\* sum[A] is the sum of f over the subset A of S, whatever element one begins with.
SubsetSums(sum, f, S) ==
    /\ sum \in [SUBSET S -> Int]
    /\ sum[{}] = 0
    /\ \A A \in SUBSET S : \A x \in A : sum[A] = f[x] + sum[A \ {x}]

\* The same for the element that the definition begins with.
ChosenSums(sum, f, S) ==
    sum = [A \in SUBSET S |->
             IF A = {} THEN 0
             ELSE f[CHOOSE x \in A : TRUE] + sum[A \ {CHOOSE x \in A : TRUE}]]

LEMMA ChosenSumsExist ==
  ASSUME NEW S, IsFiniteSet(S), NEW f \in [S -> Int]
  PROVE  \E sum : ChosenSums(sum, f, S)
<1>. DEFINE n == Cardinality(S)
            T == [SUBSET S -> Int]
            zero == [A \in SUBSET S |-> 0]
            c(A) == CHOOSE x \in A : TRUE
            step == [i \in 1..n |-> [g \in T |->
                      [A \in SUBSET S |-> IF A = {} THEN 0 ELSE f[c(A)] + g[A \ {c(A)}]]]]
<1>1. n \in Nat
  BY FS_CardinalityType
<1>2. \A A \in SUBSET S : A # {} => c(A) \in A /\ f[c(A)] \in Int /\ A \ {c(A)} \in SUBSET S
  OBVIOUS
<1>3. Stepping(T, zero, step, n)
  <2>. HIDE DEF c
  <2>1. \A i \in 1..n : \A g \in T : step[i][g] \in T
    BY <1>2
  <2>2. zero \in T
    OBVIOUS
  <2>. HIDE DEF T, zero, step
  <2>. QED
    BY <2>1, <2>2 DEF Stepping
<1>4. PICK g : g \in [0..n -> T] /\ Follows(g, zero, step, n)
  <2>. HIDE DEF T, zero, step, n
  <2>. QED
    BY <1>1, <1>3, Recursion
<1>. DEFINE sum == [A \in SUBSET S |-> g[Cardinality(A)][A]]
<1>5. ASSUME NEW A \in SUBSET S
      PROVE  sum[A] = IF A = {} THEN 0 ELSE f[c(A)] + sum[A \ {c(A)}]
  <2>. HIDE DEF c
  <2>1. CASE A = {}
    <3>1. Cardinality(A) = 0
      BY <2>1, FS_EmptySet
    <3>. QED
      BY <1>4, <2>1, <3>1 DEF Follows
  <2>2. CASE A # {}
    <3>1. /\ IsFiniteSet(A) /\ Cardinality(A) \in 1..n
          /\ Cardinality(A \ {c(A)}) = Cardinality(A) - 1
      <4>1. IsFiniteSet(A) /\ Cardinality(A) <= n
        BY FS_Subset
      <4>2. Cardinality(A) \in Nat /\ Cardinality(A) # 0
        BY <2>2, <4>1, FS_CardinalityType, FS_EmptySet
      <4>3. Cardinality(A \ {c(A)}) = Cardinality(A) - 1
        BY <1>2, <2>2, <4>1, FS_RemoveElement
      <4>. QED
        BY <1>1, <4>1, <4>2, <4>3
    <3>. DEFINE k == Cardinality(A)
    <3>2. g[k] = step[k][g[k - 1]] /\ g[k - 1] \in T
      <4>. HIDE DEF step, T
      <4>. QED
        BY <1>1, <1>4, <3>1 DEF Follows
    <3>3. g[k][A] = f[c(A)] + g[k - 1][A \ {c(A)}]
      <4>. HIDE DEF n, k
      <4>. QED
        BY <2>2, <3>1, <3>2 DEF k
    <3>. QED
      BY <1>2, <2>2, <3>1, <3>3
  <2>. QED
    BY <2>1, <2>2
<1>6. ChosenSums(sum, f, S)
  <2>. HIDE DEF c
  <2>1. sum = [A \in SUBSET S |-> IF A = {} THEN 0 ELSE f[c(A)] + sum[A \ {c(A)}]]
    <3>. DEFINE h == [A \in SUBSET S |-> IF A = {} THEN 0 ELSE f[c(A)] + sum[A \ {c(A)}]]
    <3>1. \A A \in SUBSET S : sum[A] = h[A]
      BY <1>5
    <3>. QED
      BY <3>1
  <2>. QED
    BY <2>1 DEF ChosenSums, c
<1>. QED
  BY <1>6

LEMMA ChosenIsSubsetSums ==
  ASSUME NEW S, IsFiniteSet(S), NEW f \in [S -> Int], NEW sum, ChosenSums(sum, f, S)
  PROVE  SubsetSums(sum, f, S)
<1>. DEFINE c(A) == CHOOSE x \in A : TRUE
<1>1. /\ sum = [A \in SUBSET S |-> sum[A]]
      /\ sum[{}] = 0
      /\ \A A \in SUBSET S : A # {} => sum[A] = f[c(A)] + sum[A \ {c(A)}]
  BY DEF ChosenSums
<1>2. \A A \in SUBSET S : A # {} => c(A) \in A
  OBVIOUS
<1>. HIDE DEF c
<1>. DEFINE Q == {A \in SUBSET S : /\ sum[A] \in Int
                                   /\ \A x \in A : sum[A] = f[x] + sum[A \ {x}]}
<1>3. ASSUME NEW A \in SUBSET S, \A B \in SUBSET A : B # A => B \in Q PROVE A \in Q
  <2>1. CASE A = {}
    BY <1>1, <2>1
  <2>2. CASE A # {}
    <3>1. /\ c(A) \in A /\ A \ {c(A)} \in Q
          /\ sum[A] = f[c(A)] + sum[A \ {c(A)}]
      BY <1>1, <1>2, <1>3, <2>2
    <3>2. sum[A] \in Int
      BY <3>1
    <3>3. ASSUME NEW x \in A, x # c(A) PROVE sum[A] = f[x] + sum[A \ {x}]
      <4>1. A \ {x} \in Q /\ c(A) \in A \ {x} /\ x \in A \ {c(A)}
        BY <1>3, <3>1, <3>3
      <4>2. sum[A \ {c(A)}] = f[x] + sum[(A \ {c(A)}) \ {x}]
        BY <3>1, <4>1
      <4>3. sum[A \ {x}] = f[c(A)] + sum[(A \ {x}) \ {c(A)}]
        BY <4>1
      <4>4. (A \ {x}) \ {c(A)} = (A \ {c(A)}) \ {x} /\ (A \ {c(A)}) \ {x} \in Q
        BY <1>3, <3>1, <3>3
      <4>. DEFINE rest == sum[(A \ {c(A)}) \ {x}]
      <4>5. f[x] \in Int /\ f[c(A)] \in Int /\ rest \in Int
        BY <3>1, <4>4
      <4>6. sum[A \ {x}] = f[c(A)] + rest /\ sum[A \ {c(A)}] = f[x] + rest
        BY <4>2, <4>3, <4>4
      <4>. HIDE DEF Q, rest
      <4>. QED
        BY <3>1, <4>5, <4>6
    <3>. QED
      BY <3>1, <3>2, <3>3
  <2>. QED
    BY <2>1, <2>2
<1>4. SUBSET S \subseteq Q
  <2>. HIDE DEF Q
  <2>. QED
    BY <1>3, SubsetInduction
<1>. QED
  BY <1>1, <1>4 DEF SubsetSums

LEMMA SumIsSubsetSum ==
  ASSUME NEW S, IsFiniteSet(S), NEW f \in [S -> Int]
  PROVE  \E sum : SubsetSums(sum, f, S) /\ SumFunction(f) = sum[S]
<1>. DEFINE Eqn(sum) == sum = [A \in SUBSET S |->
               IF A = {} THEN 0
               ELSE f[CHOOSE x \in A : TRUE] + sum[A \ {CHOOSE x \in A : TRUE}]]
            sum == CHOOSE sum : Eqn(sum)
<1>1. DOMAIN f = S
  OBVIOUS
<1>2. SumFunction(f) = sum[S]
  BY <1>1 DEF SumFunction, SumFunctionOnSet, FoldFunctionOnSet, MapThenFoldSet
<1>3. Eqn(sum)
  <2>1. PICK g : ChosenSums(g, f, S)
    BY ChosenSumsExist
  <2>2. Eqn(g)
    BY <2>1 DEF ChosenSums
  <2>. HIDE DEF Eqn
  <2>. QED
    BY <2>2
<1>. HIDE DEF sum
<1>4. SubsetSums(sum, f, S)
  BY <1>3, ChosenIsSubsetSums DEF ChosenSums
<1>. QED
  BY <1>2, <1>4

LEMMA SumFunctionInt ==
  ASSUME NEW S, IsFiniteSet(S), NEW f \in [S -> Int]
  PROVE  SumFunction(f) \in Int
<1>1. PICK sum : SubsetSums(sum, f, S) /\ SumFunction(f) = sum[S]
  BY SumIsSubsetSum
<1>. QED
  BY <1>1 DEF SubsetSums

LEMMA SumFunctionPlus ==
  ASSUME NEW S, IsFiniteSet(S), NEW f \in [S -> Int], NEW g \in [S -> Int], NEW h \in [S -> Int],
         \A x \in S : h[x] = f[x] + g[x]
  PROVE  SumFunction(h) = SumFunction(f) + SumFunction(g)
<1>1. PICK F : SubsetSums(F, f, S) /\ SumFunction(f) = F[S]
  BY SumIsSubsetSum
<1>2. PICK G : SubsetSums(G, g, S) /\ SumFunction(g) = G[S]
  BY SumIsSubsetSum
<1>3. PICK H : SubsetSums(H, h, S) /\ SumFunction(h) = H[S]
  BY SumIsSubsetSum
<1>. DEFINE Q == {A \in SUBSET S : H[A] = F[A] + G[A]}
<1>4. ASSUME NEW A \in SUBSET S, \A B \in SUBSET A : B # A => B \in Q PROVE A \in Q
  <2>1. CASE A = {}
    BY <1>1, <1>2, <1>3, <2>1 DEF SubsetSums
  <2>2. CASE A # {}
    <3>1. PICK x \in A : TRUE
      BY <2>2
    <3>2. A \ {x} \in Q
      BY <1>4, <3>1
    <3>3. /\ F[A] = f[x] + F[A \ {x}] /\ G[A] = g[x] + G[A \ {x}] /\ H[A] = h[x] + H[A \ {x}]
          /\ F[A \ {x}] \in Int /\ G[A \ {x}] \in Int
      BY <1>1, <1>2, <1>3, <3>1 DEF SubsetSums
    <3>4. f[x] \in Int /\ g[x] \in Int /\ h[x] = f[x] + g[x]
      BY <3>1
    <3>. QED
      BY <3>2, <3>3, <3>4
  <2>. QED
    BY <2>1, <2>2
<1>5. S \in Q
  <2>1. SUBSET S \subseteq Q
    <3>. HIDE DEF Q
    <3>. QED
      BY <1>4, SubsetInduction
  <2>. QED
    BY <2>1
<1>. QED
  BY <1>1, <1>2, <1>3, <1>5

LEMMA SumFunctionLE ==
  ASSUME NEW S, IsFiniteSet(S), NEW f \in [S -> Int], NEW g \in [S -> Int],
         \A x \in S : f[x] <= g[x]
  PROVE  SumFunction(f) <= SumFunction(g)
<1>1. PICK F : SubsetSums(F, f, S) /\ SumFunction(f) = F[S]
  BY SumIsSubsetSum
<1>2. PICK G : SubsetSums(G, g, S) /\ SumFunction(g) = G[S]
  BY SumIsSubsetSum
<1>. DEFINE Q == {A \in SUBSET S : F[A] <= G[A]}
<1>3. ASSUME NEW A \in SUBSET S, \A B \in SUBSET A : B # A => B \in Q PROVE A \in Q
  <2>1. CASE A = {}
    BY <1>1, <1>2, <2>1 DEF SubsetSums
  <2>2. CASE A # {}
    <3>1. PICK x \in A : TRUE
      BY <2>2
    <3>2. A \ {x} \in Q
      BY <1>3, <3>1
    <3>3. /\ F[A] = f[x] + F[A \ {x}] /\ G[A] = g[x] + G[A \ {x}]
          /\ F[A \ {x}] \in Int /\ G[A \ {x}] \in Int
      BY <1>1, <1>2, <3>1 DEF SubsetSums
    <3>4. f[x] \in Int /\ g[x] \in Int /\ f[x] <= g[x]
      BY <3>1
    <3>. QED
      BY <3>2, <3>3, <3>4
  <2>. QED
    BY <2>1, <2>2
<1>4. S \in Q
  <2>1. SUBSET S \subseteq Q
    <3>. HIDE DEF Q
    <3>. QED
      BY <1>3, SubsetInduction
  <2>. QED
    BY <2>1
<1>. QED
  BY <1>1, <1>2, <1>4

LEMMA SumFunctionTimes ==
  ASSUME NEW S, IsFiniteSet(S), NEW f \in [S -> Int], NEW g \in [S -> Int], NEW d \in Int,
         \A x \in S : g[x] = d * f[x]
  PROVE  SumFunction(g) = d * SumFunction(f)
<1>1. PICK F : SubsetSums(F, f, S) /\ SumFunction(f) = F[S]
  BY SumIsSubsetSum
<1>2. PICK G : SubsetSums(G, g, S) /\ SumFunction(g) = G[S]
  BY SumIsSubsetSum
<1>. DEFINE Q == {A \in SUBSET S : G[A] = d * F[A]}
<1>3. ASSUME NEW A \in SUBSET S, \A B \in SUBSET A : B # A => B \in Q PROVE A \in Q
  <2>1. CASE A = {}
    BY <1>1, <1>2, <2>1 DEF SubsetSums
  <2>2. CASE A # {}
    <3>1. PICK x \in A : TRUE
      BY <2>2
    <3>2. A \ {x} \in Q
      BY <1>3, <3>1
    <3>3. /\ F[A] = f[x] + F[A \ {x}] /\ G[A] = g[x] + G[A \ {x}]
          /\ F[A \ {x}] \in Int /\ G[A \ {x}] \in Int
      BY <1>1, <1>2, <3>1 DEF SubsetSums
    <3>4. f[x] \in Int /\ g[x] = d * f[x]
      BY <3>1
    <3>5. d * (f[x] + F[A \ {x}]) = d * f[x] + d * F[A \ {x}]
      BY <3>3, <3>4
    <3>. QED
      BY <3>2, <3>3, <3>4, <3>5
  <2>. QED
    BY <2>1, <2>2
<1>4. S \in Q
  <2>1. SUBSET S \subseteq Q
    <3>. HIDE DEF Q
    <3>. QED
      BY <1>3, SubsetInduction
  <2>. QED
    BY <2>1
<1>. QED
  BY <1>1, <1>2, <1>4

\* What is k everywhere.
LEMMA SumFunctionConst ==
  ASSUME NEW S, IsFiniteSet(S), NEW k \in Int
  PROVE  SumFunction([x \in S |-> k]) = k * Cardinality(S)
<1>. DEFINE f == [x \in S |-> k]
<1>1. PICK F : SubsetSums(F, f, S) /\ SumFunction(f) = F[S]
  BY SumIsSubsetSum
<1>2. \A x \in S : f[x] = k
  OBVIOUS
<1>. HIDE DEF f
<1>. DEFINE Q == {A \in SUBSET S : F[A] = k * Cardinality(A)}
<1>3. ASSUME NEW A \in SUBSET S, \A B \in SUBSET A : B # A => B \in Q PROVE A \in Q
  <2>1. CASE A = {}
    BY <1>1, <2>1, FS_EmptySet DEF SubsetSums
  <2>2. CASE A # {}
    <3>1. PICK x \in A : TRUE
      BY <2>2
    <3>2. A \ {x} \in Q
      BY <1>3, <3>1
    <3>3. F[A] = k + F[A \ {x}]
      BY <1>1, <1>2, <3>1 DEF SubsetSums
    <3>4. /\ Cardinality(A \ {x}) \in Nat
          /\ Cardinality(A) = Cardinality(A \ {x}) + 1
      <4>1. IsFiniteSet(A) /\ IsFiniteSet(A \ {x})
        BY FS_Subset
      <4>2. Cardinality(A \ {x}) = Cardinality(A) - 1
        BY <3>1, <4>1, FS_RemoveElement
      <4>. QED
        BY <4>1, <4>2, FS_CardinalityType
    <3>. DEFINE m == Cardinality(A \ {x})
    <3>5. F[A \ {x}] = k * m /\ Cardinality(A) = m + 1 /\ m \in Nat
      BY <3>2, <3>4
    <3>6. F[A] = k + k * m
      BY <3>3, <3>5
    <3>. HIDE DEF m
    <3>7. k * (m + 1) = k + k * m
      BY <3>5
    <3>. QED
      BY <3>5, <3>6, <3>7
  <2>. QED
    BY <2>1, <2>2
<1>4. S \in Q
  <2>1. SUBSET S \subseteq Q
    <3>. HIDE DEF Q
    <3>. QED
      BY <1>3, SubsetInduction
  <2>. QED
    BY <2>1
<1>. QED
  BY <1>1, <1>4 DEF f

LEMMA SumFunctionZero ==
  ASSUME NEW S, IsFiniteSet(S)
  PROVE  SumFunction([x \in S |-> 0]) = 0
<1>1. Cardinality(S) \in Nat
  BY FS_CardinalityType
<1>2. PICK k \in Int : k = 0
  OBVIOUS
<1>3. SumFunction([x \in S |-> k]) = k * Cardinality(S)
  BY SumFunctionConst
<1>. QED
  BY <1>1, <1>2, <1>3

LEMMA SumFunctionNat ==
  ASSUME NEW S, IsFiniteSet(S), NEW f \in [S -> Nat]
  PROVE  SumFunction(f) \in Nat
<1>. DEFINE zero == [x \in S |-> 0]
<1>1. f \in [S -> Int] /\ zero \in [S -> Int] /\ \A x \in S : zero[x] <= f[x]
  OBVIOUS
<1>2. SumFunction(zero) = 0
  BY SumFunctionZero
<1>. HIDE DEF zero
<1>3. SumFunction(f) >= 0 /\ SumFunction(f) \in Int
  BY <1>1, <1>2, SumFunctionLE, SumFunctionInt
<1>. QED
  BY <1>3

LEMMA SumFunctionScale ==
  ASSUME NEW S, IsFiniteSet(S), NEW f \in [S -> Int], NEW k \in Int
  PROVE  SumFunction([x \in S |-> k * f[x]]) = k * SumFunction(f)
<1>. DEFINE g == [x \in S |-> k * f[x]]
<1>1. PICK F : SubsetSums(F, f, S) /\ SumFunction(f) = F[S]
  BY SumIsSubsetSum
<1>2. PICK G : SubsetSums(G, g, S) /\ SumFunction(g) = G[S]
  BY SumIsSubsetSum
<1>3. \A x \in S : g[x] = k * f[x]
  OBVIOUS
<1>. HIDE DEF g
<1>. DEFINE Q == {A \in SUBSET S : G[A] = k * F[A]}
<1>4. ASSUME NEW A \in SUBSET S, \A B \in SUBSET A : B # A => B \in Q PROVE A \in Q
  <2>1. CASE A = {}
    BY <1>1, <1>2, <2>1 DEF SubsetSums
  <2>2. CASE A # {}
    <3>1. PICK x \in A : TRUE
      BY <2>2
    <3>2. A \ {x} \in Q
      BY <1>4, <3>1
    <3>3. /\ F[A] = f[x] + F[A \ {x}] /\ G[A] = k * f[x] + G[A \ {x}]
          /\ F[A \ {x}] \in Int
      BY <1>1, <1>2, <1>3, <3>1 DEF SubsetSums
    <3>. DEFINE a == f[x]
                b == F[A \ {x}]
    <3>4. a \in Int /\ b \in Int /\ F[A] = a + b /\ G[A] = k * a + k * b
      BY <3>1, <3>2, <3>3
    <3>. HIDE DEF a, b
    <3>5. k * (a + b) = k * a + k * b
      BY <3>4
    <3>. QED
      BY <3>4, <3>5
  <2>. QED
    BY <2>1, <2>2
<1>5. S \in Q
  <2>1. SUBSET S \subseteq Q
    <3>. HIDE DEF Q
    <3>. QED
      BY <1>4, SubsetInduction
  <2>. QED
    BY <2>1
<1>. QED
  BY <1>1, <1>2, <1>5 DEF g

\* A change of one value changes the sum by as much.
LEMMA SumFunctionChange ==
  ASSUME NEW S, IsFiniteSet(S), NEW f \in [S -> Int], NEW g \in [S -> Int], NEW a \in S,
         \A x \in S \ {a} : g[x] = f[x]
  PROVE  SumFunction(g) = SumFunction(f) + g[a] - f[a]
<1>1. PICK F : SubsetSums(F, f, S) /\ SumFunction(f) = F[S]
  BY SumIsSubsetSum
<1>2. PICK G : SubsetSums(G, g, S) /\ SumFunction(g) = G[S]
  BY SumIsSubsetSum
<1>. DEFINE Q == {A \in SUBSET S : a \notin A => F[A] = G[A]}
<1>3. ASSUME NEW A \in SUBSET S, \A B \in SUBSET A : B # A => B \in Q PROVE A \in Q
  <2>1. CASE A = {}
    BY <1>1, <1>2, <2>1 DEF SubsetSums
  <2>2. CASE A # {} /\ a \notin A
    <3>1. PICK x \in A : TRUE
      BY <2>2
    <3>2. A \ {x} \in Q /\ a \notin A \ {x} /\ g[x] = f[x]
      BY <1>3, <2>2, <3>1
    <3>3. F[A] = f[x] + F[A \ {x}] /\ G[A] = g[x] + G[A \ {x}]
      BY <1>1, <1>2, <3>1 DEF SubsetSums
    <3>. QED
      BY <3>2, <3>3
  <2>. QED
    BY <2>1, <2>2
<1>4. S \ {a} \in Q
  <2>1. SUBSET S \subseteq Q
    <3>. HIDE DEF Q
    <3>. QED
      BY <1>3, SubsetInduction
  <2>. QED
    BY <2>1
<1>5. /\ F[S] = f[a] + F[S \ {a}] /\ G[S] = g[a] + G[S \ {a}]
      /\ F[S \ {a}] \in Int /\ F[S \ {a}] = G[S \ {a}]
      /\ f[a] \in Int /\ g[a] \in Int
  BY <1>1, <1>2, <1>4 DEF SubsetSums
<1>. QED
  BY <1>1, <1>2, <1>5

\* What is v at a and 0 elsewhere.
LEMMA SumFunctionPoint ==
  ASSUME NEW S, IsFiniteSet(S), NEW a \in S, NEW v \in Int
  PROVE  SumFunction([x \in S |-> IF x = a THEN v ELSE 0]) = v
<1>. DEFINE f == [x \in S |-> 0]
            g == [x \in S |-> IF x = a THEN v ELSE 0]
<1>1. /\ f \in [S -> Int] /\ g \in [S -> Int] /\ \A x \in S \ {a} : g[x] = f[x]
      /\ g[a] = v /\ f[a] = 0
  OBVIOUS
<1>2. SumFunction(f) = 0
  BY SumFunctionZero
<1>. HIDE DEF f, g
<1>3. SumFunction(g) = SumFunction(f) + g[a] - f[a]
  BY <1>1, SumFunctionChange
<1>. QED
  BY <1>1, <1>2, <1>3 DEF g
-----------------------------------------------------------------------------
(* Parts of a sum, rounded down                                            *)

\* Division rounds down, by less than one.
LEMMA Rounding ==
  ASSUME NEW x \in Nat, NEW n \in Nat, n > 0
  PROVE  /\ x \div n \in Nat
         /\ n * (x \div n) <= x
         /\ x <= n * (x \div n) + (n - 1)
BY SMT

\* What l shares of a sum leave when each is rounded down for n workers.
LEMMA SharedOut ==
  ASSUME NEW l \in Nat, l > 0, NEW n \in Nat, n > 0, NEW c \in Nat, NEW D \in Nat,
         l * c <= D * l, D * l <= l * c + (l - 1) * n
  PROVE  c <= D /\ c >= D - (n - 1)
<1>1. ASSUME c > D PROVE FALSE
  <2>1. l * (c - D) > 0
    BY <1>1, SMT
  <2>2. l * (c - D) = l * c - D * l
    BY SMT
  <2>3. l * c \in Nat /\ D * l \in Nat
    OBVIOUS
  <2>. QED
    BY <2>1, <2>2, <2>3
<1>2. ASSUME D - c >= n PROVE FALSE
  <2>. DEFINE e == (D - c) - n
  <2>1. e \in Nat /\ D = c + n + e
    BY <1>2
  <2>. HIDE DEF e
  <2>2. D * l = l * c + l * n + l * e
    BY <2>1, SMT
  <2>3. (l - 1) * n = l * n - n
    BY SMT
  <2>4. l * c \in Nat /\ l * n \in Nat /\ l * e \in Nat
    BY <2>1
  <2>. QED
    BY <2>2, <2>3, <2>4
<1>. QED
  BY <1>1, <1>2

\* A sum that is shared out in proportion to s, and each share rounded down.
LEMMA SharesRounded ==
  ASSUME NEW S, IsFiniteSet(S), NEW s \in [S -> Nat], NEW f \in [S -> Nat],
         NEW D \in Nat, NEW l \in Nat, l > 0, \A w \in S : f[w] = (D * s[w]) \div l
  PROVE  /\ l * SumFunction(f) <= D * SumFunction(s)
         /\ D * SumFunction(s) <= l * SumFunction(f) + (l - 1) * Cardinality(S)
<1>. DEFINE low == [w \in S |-> l * f[w]]
            mid == [w \in S |-> D * s[w]]
            all == [w \in S |-> l - 1]
            high == [w \in S |-> l * f[w] + (l - 1)]
<1>1. \A w \in S : D * s[w] \in Nat /\ l * f[w] \in Nat
  OBVIOUS
<1>2. /\ low \in [S -> Int] /\ mid \in [S -> Int] /\ all \in [S -> Int] /\ high \in [S -> Int]
      /\ s \in [S -> Int] /\ f \in [S -> Int]
  BY <1>1
<1>3. \A w \in S : low[w] <= mid[w] /\ mid[w] <= high[w]
  <2>. SUFFICES ASSUME NEW w \in S PROVE low[w] <= mid[w] /\ mid[w] <= high[w]
    OBVIOUS
  <2>1. PICK x \in Nat : x = D * s[w]
    BY <1>1
  <2>2. l * (x \div l) <= x /\ x <= l * (x \div l) + (l - 1)
    BY Rounding
  <2>. QED
    BY <2>1, <2>2
<1>4. SumFunction(low) = l * SumFunction(f) /\ SumFunction(mid) = D * SumFunction(s)
  BY <1>2, SumFunctionScale
<1>5. SumFunction(all) = (l - 1) * Cardinality(S)
  <2>1. l - 1 \in Int
    OBVIOUS
  <2>. QED
    BY <2>1, SumFunctionConst
<1>6. \A w \in S : high[w] = low[w] + all[w]
  OBVIOUS
<1>. HIDE DEF low, mid, all, high
<1>7. SumFunction(low) <= SumFunction(mid) /\ SumFunction(mid) <= SumFunction(high)
  BY <1>2, <1>3, SumFunctionLE
<1>8. SumFunction(high) = SumFunction(low) + SumFunction(all)
  BY <1>2, <1>6, SumFunctionPlus
<1>. QED
  BY <1>4, <1>5, <1>7, <1>8
=============================================================================
