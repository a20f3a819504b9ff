-------------------------- MODULE DifficultyProofs --------------------------
(***************************************************************************)
(* For every value of the constants: the incremental difficulty of a node  *)
(* agrees with the rule, as a function of its chain, in the situations     *)
(* that SettledAgrees and LegacyRecalcAgrees name, and is never more than  *)
(* one bit from it; and a slower block never makes the next one harder.    *)
(* The inductive invariant says what difficultyBits is the difficulty of:  *)
(* the next block if the cache is for this height, else the last block,    *)
(* except after a recalculation above the fork height.                     *)
(***************************************************************************)
EXTENDS Difficulty, SumsProofs

-----------------------------------------------------------------------------
(* Multiples                                                               *)

LEMMA DivMod ==
  ASSUME NEW n \in Nat, NEW p \in Nat \ {0}
  PROVE  /\ n \div p \in Nat
         /\ n % p \in 0..(p - 1)
         /\ n = p * (n \div p) + (n % p)
OBVIOUS

LEMMA Remainder ==
  ASSUME NEW p \in Nat \ {0}, NEW q \in Nat, NEW k \in Nat, k < p
  PROVE  (p * q + k) % p = k
OBVIOUS

LEMMA NoRemainder ==
  ASSUME NEW p \in Nat \ {0}, NEW q \in Nat
  PROVE  (p * q) % p = 0
OBVIOUS

\* The last multiple of p up to n.
LEMMA LastMultiple ==
  ASSUME NEW n \in Nat, NEW p \in Nat \ {0}, NEW m, m = (n \div p) * p
  PROVE  /\ m \in 0..n
         /\ m % p = 0
         /\ n < m + p
         /\ \A h \in (m + 1)..n : h % p # 0
<1>. DEFINE q == n \div p
<1>1. q \in Nat /\ n % p \in 0..(p - 1) /\ n = p * q + (n % p)
  BY DivMod
<1>2. m = p * q
  BY <1>1
<1>. HIDE DEF q
<1>3. m \in Nat /\ m <= n /\ n < m + p
  BY <1>1, <1>2
<1>4. m % p = 0
  BY <1>1, <1>2, NoRemainder
<1>5. ASSUME NEW h \in (m + 1)..n
      PROVE  h % p # 0
  <2>1. h - m \in Nat /\ h - m < p /\ h - m # 0 /\ h = p * q + (h - m)
    BY <1>2, <1>3
  <2>2. (p * q + (h - m)) % p = h - m
    BY <1>1, <2>1, Remainder
  <2>. QED
    BY <2>1, <2>2
<1>. QED
  BY <1>1, <1>2, <1>3, <1>4, <1>5
-----------------------------------------------------------------------------
(* The operators                                                           *)

\* A clamped integer is a difficulty.
LEMMA ClampBits ==
  ASSUME NEW n \in Int
  PROVE  Clamp(MinDifficultyBits, MaxDifficultyBits, n) \in Bits
BY BitsAssumption DEF Clamp, Bits

\* Clamping does not take a difficulty further away, and leaves one as it is.
LEMMA ClampNear ==
  ASSUME NEW b \in Bits, NEW d \in -1..1
  PROVE  /\ Clamp(MinDifficultyBits, MaxDifficultyBits, b + d) \in Bits
         /\ Clamp(MinDifficultyBits, MaxDifficultyBits, b + d) - b \in -1..1
         /\ d = 0 => Clamp(MinDifficultyBits, MaxDifficultyBits, b + d) = b
BY BitsAssumption DEF Clamp, Bits

LEMMA LWMABitsNear ==
  ASSUME NEW c, NEW b \in Bits
  PROVE  /\ LWMABits(c, b) \in Bits
         /\ LWMABits(c, b) - b \in -1..1
         /\ Window(c) = {} => LWMABits(c, b) = b
<1>1. LWMAAdjustment(c, b) \in {-1, 0, 1}
  BY Zenon DEF LWMAAdjustment
<1>2. Window(c) = {} => LWMAAdjustment(c, b) = 0
  BY Zenon DEF LWMAAdjustment
<1>3. LWMAAdjustment(c, b) \in -1..1
  BY <1>1
<1>. QED
  BY <1>2, <1>3, ClampNear DEF LWMABits

LEMMA LegacyBitsType ==
  ASSUME NEW c, NEW boundary, NEW b \in Bits
  PROVE  LegacyBits(c, boundary, b) \in Bits
<1>1. LegacyAdjustment(ActualTime(c, boundary)) \in Int
  BY DEF LegacyAdjustment
<1>. QED
  BY <1>1, ClampBits, BitsAssumption DEF LegacyBits, Bits

LEMMA AdjustedType ==
  ASSUME NEW c, NEW b \in Bits
  PROVE  Adjusted(c, b) \in Bits
BY LWMABitsNear, LegacyBitsType DEF Adjusted

LEMMA EffectiveBitsType ==
  ASSUME NEW c \in Seq(Block), NEW i \in 0..Len(c)
  PROVE  EffectiveBits(c, i) \in Bits
<1>1. GenesisBits \in Bits
  BY BitsAssumption DEF Bits
<1>2. i # 0 => c[i] \in Block
  OBVIOUS
<1>. QED
  BY <1>1, <1>2 DEF EffectiveBits, Block

LEMMA ExpectedType ==
  ASSUME NEW c \in Seq(Block)
  PROVE  Expected(c) \in Bits
BY EffectiveBitsType, AdjustedType DEF Expected
-----------------------------------------------------------------------------
(* Chains                                                                  *)

\* The first n blocks of a chain are a chain with the same difficulties.
LEMMA PrefixFacts ==
  ASSUME NEW c \in Seq(Block), NEW n \in 0..Len(c)
  PROVE  /\ SubSeq(c, 1, n) \in Seq(Block)
         /\ Len(SubSeq(c, 1, n)) = n
         /\ HeightOf(SubSeq(c, 1, n)) = n + 1
         /\ \A i \in 1..n : SubSeq(c, 1, n)[i] = c[i]
         /\ \A i \in 0..n : EffectiveBits(SubSeq(c, 1, n), i) = EffectiveBits(c, i)
BY DEF HeightOf, EffectiveBits

\* So are they of the chain with one more block.
LEMMA AppendFacts ==
  ASSUME NEW c \in Seq(Block), NEW b \in Block
  PROVE  /\ Append(c, b) \in Seq(Block)
         /\ Len(Append(c, b)) = Len(c) + 1
         /\ Append(c, b)[Len(c) + 1] = b
         /\ EffectiveBits(Append(c, b), Len(c) + 1) = b.bits
         /\ \A i \in DOMAIN c : Append(c, b)[i] = c[i]
         /\ \A i \in 0..Len(c) : SubSeq(Append(c, b), 1, i) = SubSeq(c, 1, i)
         /\ SubSeq(c, 1, Len(c)) = c
<1>1. Append(c, b) \in Seq(Block) /\ Len(Append(c, b)) = Len(c) + 1 /\ Len(c) \in Nat
  OBVIOUS
<1>2. Append(c, b)[Len(c) + 1] = b /\ \A i \in DOMAIN c : Append(c, b)[i] = c[i]
  OBVIOUS
<1>3. EffectiveBits(Append(c, b), Len(c) + 1) = b.bits
  BY <1>1, <1>2 DEF EffectiveBits
<1>4. \A i \in 0..Len(c) : SubSeq(Append(c, b), 1, i) = SubSeq(c, 1, i)
  OBVIOUS
<1>5. SubSeq(c, 1, Len(c)) = c
  OBVIOUS
<1>. QED
  BY <1>1, <1>2, <1>3, <1>4, <1>5
-----------------------------------------------------------------------------
(* Chains that follow the rule                                             *)

\* Block i of c has the difficulty the blocks before it require.
Ruled(c, i) == c[i].bits = Expected(SubSeq(c, 1, i - 1))

\* The blocks up to the fork height do.
LegacyFollowed(c) == \A i \in DOMAIN c : i <= DAAForkHeight => Ruled(c, i)

LEMMA RuledFollowsLegacy ==
  ASSUME NEW c, FollowsRule(c)
  PROVE  LegacyFollowed(c)
BY DEF FollowsRule, LegacyFollowed, Ruled

\* What the rule says of block i, in terms of the block before it.
LEMMA RuledBits ==
  ASSUME NEW c \in Seq(Block), NEW i \in 1..Len(c), Ruled(c, i)
  PROVE  EffectiveBits(c, i) = Adjusted(SubSeq(c, 1, i - 1), EffectiveBits(c, i - 1))
<1>. DEFINE p == SubSeq(c, 1, i - 1)
<1>1. i - 1 \in 0..Len(c)
  OBVIOUS
<1>2. Len(p) = i - 1 /\ EffectiveBits(p, i - 1) = EffectiveBits(c, i - 1)
  BY <1>1, PrefixFacts
<1>3. EffectiveBits(c, i) = c[i].bits
  BY DEF EffectiveBits
<1>. QED
  BY <1>2, <1>3 DEF Ruled, Expected

\* A block below the fork height and not at a boundary has its parent's.
LEMMA BetweenBoundaries ==
  ASSUME NEW c \in Seq(Block), NEW i \in 1..Len(c), Ruled(c, i),
         i < DAAForkHeight, ~AdjustsAt(i)
  PROVE  EffectiveBits(c, i) = EffectiveBits(c, i - 1)
<1>1. i - 1 \in 0..Len(c) /\ (i - 1) + 1 = i
  OBVIOUS
<1>2. HeightOf(SubSeq(c, 1, i - 1)) = i
  BY <1>1, PrefixFacts
<1>. QED
  BY <1>2, RuledBits DEF Adjusted

\* At a boundary it has that parent's after the adjustment, for which the
\* blocks above the boundary do not matter.
LEMMA AtBoundary ==
  ASSUME NEW c \in Seq(Block), NEW i \in 1..Len(c), Ruled(c, i),
         i < DAAForkHeight, i >= BlocksPerAdjustment, i % BlocksPerAdjustment = 0
  PROVE  EffectiveBits(c, i) = LegacyBits(c, i, EffectiveBits(c, i - 1))
<1>. DEFINE p == SubSeq(c, 1, i - 1)
<1>1. i - 1 \in 0..Len(c) /\ (i - 1) + 1 = i
  OBVIOUS
<1>2. /\ HeightOf(p) = i
      /\ \A k \in 1..(i - 1) : p[k] = c[k]
  BY <1>1, PrefixFacts
<1>3. EffectiveBits(c, i) = LegacyBits(p, i, EffectiveBits(c, i - 1))
  BY <1>2, RuledBits DEF Adjusted, AdjustsAt, Legacy
<1>4. ActualTime(p, i) = ActualTime(c, i)
  <2>. DEFINE first == i - BlocksPerAdjustment
  <2>1. \A k \in 1..(BlocksPerAdjustment - 1) : p[first + k] = c[first + k]
    BY <1>2, PeriodAssumption
  <2>2. [k \in 1..(BlocksPerAdjustment - 1) |-> p[first + k].gap]
          = [k \in 1..(BlocksPerAdjustment - 1) |-> c[first + k].gap]
    BY <2>1
  <2>. QED
    BY <2>2 DEF ActualTime
<1>. QED
  BY <1>3, <1>4 DEF LegacyBits

\* Before the first boundary all difficulties are the one genesis started.
LEMMA EarlyBits ==
  ASSUME NEW c \in Seq(Block), LegacyFollowed(c), Len(c) < BlocksPerAdjustment
  PROVE  \A i \in 0..Len(c) : EffectiveBits(c, i) = GenesisBits
<1>. DEFINE S == {i \in 0..Len(c) : EffectiveBits(c, i) = GenesisBits}
<1>1. 0 \in S /\ Len(c) \in Nat
  BY DEF EffectiveBits
<1>2. \A i \in 1..Len(c) : i - 1 \in S => i \in S
  <2>. SUFFICES ASSUME NEW i \in 1..Len(c), i - 1 \in S PROVE i \in S
    OBVIOUS
  <2>1. i < BlocksPerAdjustment /\ i < DAAForkHeight
    BY <1>1, PeriodAssumption, ForkAssumption
  <2>2. Ruled(c, i)
    BY <2>1, PeriodAssumption DEF LegacyFollowed
  <2>3. ~AdjustsAt(i)
    BY <2>1, PeriodAssumption DEF AdjustsAt, Legacy
  <2>. QED
    BY <2>1, <2>2, <2>3, BetweenBoundaries
<1>3. 0..Len(c) \subseteq S
  <2>. HIDE DEF S
  <2>. QED
    BY <1>1, <1>2, RangeInduction
<1>. QED
  BY <1>3

\* recalcLegacyDifficulty finds the difficulty of the last block: the last
\* boundary's adjustment, made again, has the outcome it had.
LEMMA RecalcLegacyIsTip ==
  ASSUME NEW c \in Seq(Block), LegacyFollowed(c), HeightOf(c) < DAAForkHeight
  PROVE  RecalcLegacy(c) = EffectiveBits(c, Len(c))
<1>. DEFINE B == LastBoundary(c)
<1>1. Len(c) \in Nat /\ BlocksPerAdjustment \in Nat \ {0} /\ Len(c) < DAAForkHeight
  BY PeriodAssumption DEF HeightOf
<1>2. /\ B \in 0..Len(c)
      /\ B % BlocksPerAdjustment = 0
      /\ \A h \in (B + 1)..Len(c) : h % BlocksPerAdjustment # 0
  BY <1>1, LastMultiple DEF LastBoundary
<1>. HIDE DEF B
<1>3. CASE B < BlocksPerAdjustment
  BY <1>3 DEF RecalcLegacy, B
<1>4. CASE B >= BlocksPerAdjustment
  <2>. DEFINE n == Len(c) - B
              S == {j \in 0..n : EffectiveBits(c, B + j) = EffectiveBits(c, B)}
  <2>1. 0 \in S /\ n \in Nat
    BY <1>1, <1>2
  <2>2. \A j \in 1..n : j - 1 \in S => j \in S
    <3>. SUFFICES ASSUME NEW j \in 1..n, j - 1 \in S PROVE j \in S
      OBVIOUS
    <3>1. B + j \in 1..Len(c) /\ B + j \in (B + 1)..Len(c) /\ (B + j) - 1 = B + (j - 1)
      BY <1>1, <1>2
    <3>2. B + j < DAAForkHeight
      BY <1>1, <3>1, PeriodAssumption
    <3>3. Ruled(c, B + j)
      BY <3>1, <3>2, PeriodAssumption DEF LegacyFollowed
    <3>4. ~AdjustsAt(B + j)
      BY <1>2, <3>1, <3>2 DEF AdjustsAt, Legacy
    <3>5. EffectiveBits(c, B + j) = EffectiveBits(c, B + (j - 1))
      BY <3>1, <3>2, <3>3, <3>4, BetweenBoundaries
    <3>. QED
      BY <3>5
  <2>3. 0..n \subseteq S
    <3>. HIDE DEF S
    <3>. QED
      BY <2>1, <2>2, RangeInduction
  <2>4. n \in S /\ B + n = Len(c)
    <3>1. B + n = Len(c)
      BY <1>1, <1>2
    <3>. HIDE DEF S, n
    <3>2. n \in S
      BY <2>1, <2>3
    <3>. QED
      BY <3>1, <3>2
  <2>5. EffectiveBits(c, Len(c)) = EffectiveBits(c, B)
    BY <2>4
  <2>6. B \in 1..Len(c) /\ B < DAAForkHeight
    BY <1>1, <1>2, <1>4, PeriodAssumption
  <2>7. Ruled(c, B)
    BY <2>6, PeriodAssumption DEF LegacyFollowed
  <2>8. EffectiveBits(c, B) = LegacyBits(c, B, EffectiveBits(c, B - 1))
    BY <1>2, <1>4, <2>6, <2>7, AtBoundary
  <2>9. RecalcLegacy(c) = LegacyBits(c, B, EffectiveBits(c, B - 1))
    <3>1. ~(B < BlocksPerAdjustment)
      BY <1>1, <1>2, <1>4
    <3>. QED
      BY <3>1 DEF RecalcLegacy, B
  <2>. QED
    BY <2>5, <2>8, <2>9
<1>. QED
  BY <1>1, <1>2, <1>3, <1>4

\* So a recalculation up to the fork height leaves the last block's difficulty,
\* and above it the one that is expected of the next block.
LEMMA RecalcFacts ==
  ASSUME NEW c \in Seq(Block), LegacyFollowed(c)
  PROVE  /\ RecalcBits(c) \in Bits
         /\ HeightOf(c) <= DAAForkHeight => RecalcBits(c) = EffectiveBits(c, Len(c))
         /\ HeightOf(c) > DAAForkHeight => RecalcBits(c) = Expected(c)
<1>1. Len(c) \in Nat /\ DAAForkHeight \in Nat /\ HeightOf(c) = Len(c) + 1
  BY PeriodAssumption DEF HeightOf
<1>2. EffectiveBits(c, Len(c)) \in Bits
  BY <1>1, EffectiveBitsType
<1>3. CASE HeightOf(c) < DAAForkHeight
  <2>1. RecalcBits(c) = EffectiveBits(c, Len(c))
    BY <1>3, RecalcLegacyIsTip DEF RecalcBits, Legacy
  <2>. QED
    BY <1>1, <1>2, <1>3, <2>1
<1>4. CASE HeightOf(c) = DAAForkHeight
  <2>1. Window(c) = {}
    BY <1>1, <1>4, PeriodAssumption DEF Window
  <2>2. LWMABits(c, EffectiveBits(c, Len(c))) = EffectiveBits(c, Len(c))
    BY <1>2, <2>1, LWMABitsNear
  <2>3. RecalcBits(c) = EffectiveBits(c, Len(c))
    BY <1>1, <1>4, <2>2 DEF RecalcBits, RecalcLWMA, Legacy
  <2>. QED
    BY <1>1, <1>2, <1>4, <2>3
<1>5. CASE HeightOf(c) > DAAForkHeight
  <2>1. ~Legacy(HeightOf(c)) /\ ~(HeightOf(c) < DAAWindow) /\ AdjustsAt(HeightOf(c))
    BY <1>1, <1>5, PeriodAssumption, ForkAssumption DEF Legacy, AdjustsAt
  <2>2. RecalcBits(c) = Expected(c)
    BY <2>1 DEF RecalcBits, RecalcLWMA, Expected, Adjusted
  <2>. QED
    BY <1>1, <1>5, <2>2, ExpectedType
<1>. QED
  BY <1>1, <1>3, <1>4, <1>5
-----------------------------------------------------------------------------
(* Forks                                                                   *)

\* One more block with the difficulty the rule requires.
LEMMA RuleContinued ==
  ASSUME NEW c \in Seq(Block), FollowsRule(c), NEW gap \in Gaps
  PROVE  LET d == Append(c, [gap |-> gap, bits |-> Expected(c)])
         IN d \in Seq(Block) /\ FollowsRule(d)
<1>. DEFINE b == [gap |-> gap, bits |-> Expected(c)]
            d == Append(c, b)
<1>1. b \in Block
  BY ExpectedType DEF Block
<1>. HIDE DEF b
<1>2. /\ d \in Seq(Block) /\ Len(d) = Len(c) + 1 /\ Len(c) \in Nat
      /\ d[Len(c) + 1] = b
      /\ \A i \in DOMAIN c : d[i] = c[i]
      /\ \A i \in 0..Len(c) : SubSeq(d, 1, i) = SubSeq(c, 1, i)
      /\ SubSeq(c, 1, Len(c)) = c
  BY <1>1, AppendFacts
<1>. HIDE DEF d
<1>3. ASSUME NEW i \in 1..Len(d)
      PROVE  d[i].bits = Expected(SubSeq(d, 1, i - 1))
  <2>1. i - 1 \in 0..Len(c)
    BY <1>2
  <2>2. CASE i \in 1..Len(c)
    <3>1. i \in DOMAIN c
      BY <2>2
    <3>. QED
      BY <1>2, <2>1, <3>1 DEF FollowsRule
  <2>3. CASE i = Len(c) + 1
    <3>1. SubSeq(d, 1, i - 1) = c
      BY <1>2, <2>1, <2>3
    <3>2. b.bits = Expected(c) /\ d[i] = b
      BY <1>2, <2>3 DEF b
    <3>. QED
      BY <3>1, <3>2
  <2>. QED
    BY <1>2, <2>2, <2>3
<1>4. FollowsRule(d)
  BY <1>2, <1>3 DEF FollowsRule
<1>. QED
  BY <1>2, <1>4 DEF b, d

\* A fork grown by the rule from a chain that follows it follows it.
LEMMA GrownFollowsRule ==
  ASSUME NEW c \in Seq(Block), FollowsRule(c), NEW gaps \in Seq(Gaps)
  PROVE  Grown(c, gaps) \in Seq(Block) /\ FollowsRule(Grown(c, gaps))
<1>. DEFINE T == {d \in Seq(Block) : FollowsRule(d)}
            More(d, gap) == Append(d, [gap |-> gap, bits |-> Expected(d)])
            n == Len(gaps)
            step == [i \in 1..n |-> [d \in T |-> More(d, gaps[i])]]
            Eqn(f) == f = [i \in 0..n |-> IF i = 0 THEN c ELSE More(f[i - 1], gaps[i])]
            grown == CHOOSE f : Eqn(f)
<1>1. n \in Nat /\ \A i \in 1..n : gaps[i] \in Gaps
  OBVIOUS
<1>2. \A d \in T : \A gap \in Gaps : More(d, gap) \in T
  BY RuleContinued
<1>. HIDE DEF T, More, n
<1>3. \E f : Eqn(f)
  <2>1. Stepping(T, c, step, n)
    <3>1. c \in T
      BY DEF T
    <3>. QED
      BY <1>1, <1>2, <3>1 DEF Stepping
  <2>2. PICK f : f \in [0..n -> T] /\ Follows(f, c, step, n)
    <3>. HIDE DEF step
    <3>. QED
      BY <1>1, <2>1, Recursion
  <2>3. \A i \in 1..n : f[i] = More(f[i - 1], gaps[i])
    <3>. SUFFICES ASSUME NEW i \in 1..n PROVE f[i] = More(f[i - 1], gaps[i])
      OBVIOUS
    <3>1. f[i - 1] \in T
      BY <1>1, <2>2
    <3>2. step[i] = [d \in T |-> More(d, gaps[i])]
      OBVIOUS
    <3>3. step[i][f[i - 1]] = More(f[i - 1], gaps[i])
      BY <3>1, <3>2
    <3>. QED
      BY <2>2, <3>3 DEF Follows
  <2>4. Eqn(f)
    BY <1>1, <2>2, <2>3 DEF Follows
  <2>. QED
    BY <2>4
<1>4. Eqn(grown)
  BY <1>3
<1>5. Grown(c, gaps) = grown[n]
  BY DEF Grown, More, n
<1>. HIDE DEF grown
<1>6. grown[0] = c /\ \A i \in 1..n : grown[i] = More(grown[i - 1], gaps[i])
  BY <1>1, <1>4
<1>. DEFINE S == {i \in 0..n : grown[i] \in T}
<1>7. 0 \in S /\ \A i \in 1..n : i - 1 \in S => i \in S
  BY <1>1, <1>2, <1>6 DEF T
<1>8. n \in S
  <2>. HIDE DEF S
  <2>1. 0..n \subseteq S
    BY <1>1, <1>7, RangeInduction
  <2>. QED
    BY <1>1, <2>1
<1>. QED
  BY <1>5, <1>8 DEF T

Works(c) == [i \in DOMAIN c |-> Pow2(c[i].bits)]

LEMMA WorksType ==
  ASSUME NEW c \in Seq(Block)
  PROVE  Works(c) \in Seq(Nat) /\ Works(c) \in Seq(Int) /\ Len(Works(c)) = Len(c)
<1>1. \A i \in 1..Len(c) : c[i].bits \in Nat
  <2>1. \A i \in 1..Len(c) : c[i] \in Block
    OBVIOUS
  <2>2. \A b \in Block : b.bits \in Nat
    BY BitsAssumption DEF Block, Bits
  <2>. QED
    BY <2>1, <2>2
<1>2. \A i \in 1..Len(c) : Pow2(c[i].bits) \in Nat
  BY <1>1, Pow2Positive
<1>. QED
  BY <1>2 DEF Works

\* The first naturals of a sequence add up to no more than all of them.
LEMMA SumPrefix ==
  ASSUME NEW s \in Seq(Nat), NEW n \in 0..Len(s)
  PROVE  SumSeq(SubSeq(s, 1, n)) <= SumSeq(s)
<1>. DEFINE t == SubSeq(s, 1, n)
            u == SubSeq(s, n + 1, Len(s))
<1>1. t \in Seq(Nat) /\ u \in Seq(Nat)
  OBVIOUS
<1>2. t \in Seq(Int) /\ u \in Seq(Int)
  OBVIOUS
<1>3. /\ Len(t) = n /\ \A i \in 1..n : t[i] = s[i]
      /\ Len(u) = Len(s) - n /\ \A i \in 1..(Len(s) - n) : u[i] = s[n + i]
      /\ n \in Nat /\ Len(s) \in Nat /\ n <= Len(s)
  OBVIOUS
<1>. HIDE DEF t, u
<1>6. s = t \o u
  <2>1. /\ t \o u \in Seq(Nat) /\ Len(t \o u) = Len(t) + Len(u)
        /\ \A i \in 1..(Len(t) + Len(u)) :
             (t \o u)[i] = IF i <= Len(t) THEN t[i] ELSE u[i - Len(t)]
    BY <1>1, ConcatProperties
  <2>2. Len(t \o u) = Len(s)
    BY <1>3, <2>1
  <2>3. \A i \in 1..Len(s) : (t \o u)[i] = s[i]
    <3>. SUFFICES ASSUME NEW i \in 1..Len(s) PROVE (t \o u)[i] = s[i]
      OBVIOUS
    <3>1. CASE i <= n
      BY <1>3, <2>1, <3>1
    <3>2. CASE i > n
      <4>1. i - n \in 1..(Len(s) - n) /\ n + (i - n) = i
        BY <1>3, <3>2
      <4>2. u[i - n] = s[i]
        BY <1>3, <4>1
      <4>3. (t \o u)[i] = u[i - n]
        <5>1. i \in 1..(Len(t) + Len(u)) /\ ~(i <= Len(t)) /\ Len(t) = n
          BY <1>3, <3>2
        <5>. QED
          BY <2>1, <5>1
      <4>. QED
        BY <4>2, <4>3
    <3>. QED
      BY <1>3, <3>1, <3>2
  <2>. QED
    BY <2>1, <2>2, <2>3, SeqEqual
<1>4. SumSeq(s) = SumSeq(t) + SumSeq(u)
  BY <1>2, <1>6, SumConcat
<1>5. SumSeq(t) \in Int /\ SumSeq(u) \in Nat
  BY <1>1, <1>2, SumInt, SumNat
<1>. QED
  BY <1>4, <1>5 DEF t

\* Before the first boundary more work is more blocks.
LEMMA EarlyWorkIsLength ==
  ASSUME NEW c \in Seq(Block), LegacyFollowed(c),
         NEW d \in Seq(Block), LegacyFollowed(d),
         Len(d) < BlocksPerAdjustment, Work(d) > Work(c)
  PROVE  Len(d) > Len(c)
<1>. SUFFICES ASSUME Len(d) <= Len(c) PROVE FALSE
  OBVIOUS
<1>. DEFINE n == Len(d)
            p == SubSeq(c, 1, n)
<1>1. n \in 0..Len(c) /\ Len(c) \in Nat
  OBVIOUS
<1>2. p \in Seq(Block) /\ Len(p) = n /\ \A i \in 1..n : p[i] = c[i]
  BY <1>1, PrefixFacts
<1>3. LegacyFollowed(p)
  <2>1. \A i \in 1..n : SubSeq(p, 1, i - 1) = SubSeq(c, 1, i - 1)
    BY <1>1
  <2>2. DOMAIN p = 1..n /\ \A i \in 1..n : i \in DOMAIN c
    BY <1>1, <1>2
  <2>. HIDE DEF p, n
  <2>. QED
    BY <1>2, <2>1, <2>2 DEF LegacyFollowed, Ruled
<1>4. \A i \in 1..n : d[i].bits = GenesisBits /\ c[i].bits = GenesisBits
  <2>1. \A i \in 1..n : EffectiveBits(d, i) = GenesisBits /\ EffectiveBits(p, i) = GenesisBits
    <3>. HIDE DEF p
    <3>. QED
      BY <1>1, <1>2, <1>3, EarlyBits
  <2>. QED
    BY <1>2, <2>1 DEF EffectiveBits
<1>5. /\ Works(c) \in Seq(Nat) /\ Works(d) \in Seq(Int) /\ Len(Works(c)) = Len(c)
      /\ Len(Works(d)) = n
  BY WorksType
<1>6. Works(d) = SubSeq(Works(c), 1, n)
  <2>1. \A i \in 1..n : Works(c)[i] = Works(d)[i]
    BY <1>1, <1>4 DEF Works
  <2>. QED
    BY <1>1, <1>5, <2>1
<1>7. SumSeq(Works(d)) <= SumSeq(Works(c))
  BY <1>1, <1>5, <1>6, SumPrefix
<1>8. SumSeq(Works(c)) \in Int /\ SumSeq(Works(d)) \in Int
  BY <1>5, SumInt, WorksType
<1>9. Work(c) = SumSeq(Works(c)) /\ Work(d) = SumSeq(Works(d))
  BY DEF Work, Works
<1>. QED
  BY <1>7, <1>8, <1>9
-----------------------------------------------------------------------------
(* The inductive invariant                                                 *)

\* The cache is never of a height above the chain's, and at the chain's height
\* it holds what difficultyBits holds.
CacheInv ==
    /\ lastAdjustmentHeight <= Height
    /\ lastAdjustmentHeight = Height => lastAdjustmentBits = difficultyBits

\* A node that was not recalculated above the fork height since its last block
\* holds the difficulty of the next block if it has read it, else its last's.
InStep ==
    settled \/ Height <= DAAForkHeight =>
        difficultyBits = IF lastAdjustmentHeight = Height THEN Expected(chain)
                         ELSE EffectiveBits(chain, Len(chain))

\* One that was holds the next block's before it has read it, and is at most
\* one bit off after.
Ahead ==
    ~settled /\ Height > DAAForkHeight =>
        IF lastAdjustmentHeight = Height THEN difficultyBits - Expected(chain) \in -1..1
        ELSE difficultyBits = Expected(chain)

IInv == TypeOK /\ LegacyFollowed(chain) /\ CacheInv /\ InStep /\ Ahead

LEMMA HeightFacts ==
  ASSUME chain \in Seq(Block)
  PROVE  Len(chain) \in Nat /\ Height = Len(chain) + 1 /\ Len(chain) \in 0..Len(chain)
BY DEF Height, HeightOf

LEMMA NextBitsType ==
  ASSUME TypeOK
  PROVE  NextBits \in Bits
<1>1. CASE lastAdjustmentHeight = Height
  <2>1. lastAdjustmentHeight > 0
    BY <1>1, HeightFacts DEF TypeOK
  <2>. QED
    BY <1>1, <2>1 DEF NextBits, TypeOK
<1>2. CASE lastAdjustmentHeight # Height
  BY <1>2, AdjustedType DEF NextBits, TypeOK
<1>. QED
  BY <1>1, <1>2

\* In step, the node demands of the next block what the rule does.
LEMMA InStepAgrees ==
  ASSUME IInv, settled \/ Height <= DAAForkHeight
  PROVE  NextBits = Expected(chain)
BY DEF IInv, CacheInv, InStep, NextBits, Expected

\* In any case it is within a bit.
LEMMA AlwaysNear ==
  ASSUME IInv
  PROVE  NextBits - Expected(chain) \in -1..1
<1>1. chain \in Seq(Block) /\ Expected(chain) \in Bits /\ Expected(chain) \in Int
  BY ExpectedType, BitsAssumption DEF IInv, TypeOK, Bits
<1>2. CASE settled \/ Height <= DAAForkHeight
  BY <1>1, <1>2, InStepAgrees
<1>3. CASE ~(settled \/ Height <= DAAForkHeight)
  <2>1. ~settled /\ Height > DAAForkHeight
    BY <1>1, <1>3, HeightFacts, PeriodAssumption
  <2>2. CASE lastAdjustmentHeight = Height
    BY <2>1, <2>2 DEF IInv, CacheInv, Ahead, NextBits
  <2>3. CASE lastAdjustmentHeight # Height
    <3>1. ~Legacy(HeightOf(chain)) /\ AdjustsAt(HeightOf(chain))
      BY <1>1, <2>1, HeightFacts, PeriodAssumption, ForkAssumption DEF Height, Legacy, AdjustsAt
    <3>2. NextBits = LWMABits(chain, Expected(chain))
      BY <2>1, <2>3, <3>1 DEF IInv, Ahead, NextBits, Adjusted
    <3>. QED
      BY <1>1, <3>2, LWMABitsNear
  <2>. QED
    BY <2>2, <2>3
<1>. QED
  BY <1>2, <1>3

LEMMA InitIInv ==
  ASSUME Init
  PROVE  IInv
<1>1. chain \in Seq(Block) /\ Len(chain) = 0 /\ DOMAIN chain = {}
  BY DEF Init
<1>2. GenesisBits \in Bits
  BY BitsAssumption DEF Bits
<1>3. EffectiveBits(chain, Len(chain)) = GenesisBits
  BY <1>1 DEF EffectiveBits
<1>4. Height = 1
  BY <1>1 DEF Height, HeightOf
<1>. QED
  BY <1>1, <1>2, <1>3, <1>4
     DEF Init, IInv, TypeOK, LegacyFollowed, CacheInv, InStep, Ahead

\* A recalculated node, whatever its chain, if its cache is of a lower height.
LEMMA RecalcStep ==
  ASSUME TypeOK', LegacyFollowed(chain)', ~settled',
         difficultyBits' = RecalcBits(chain'), lastAdjustmentHeight' < Height'
  PROVE  IInv'
<1>1. chain' \in Seq(Block) /\ Len(chain') \in Nat /\ Height' = Len(chain') + 1
  BY DEF TypeOK, Height, HeightOf
<1>2. LegacyFollowed(chain')
  BY DEF LegacyFollowed, Ruled, Expected
<1>3. /\ Height' <= DAAForkHeight => difficultyBits' = EffectiveBits(chain', Len(chain'))
      /\ Height' > DAAForkHeight => difficultyBits' = Expected(chain')
  BY <1>1, <1>2, RecalcFacts DEF HeightOf
<1>4. lastAdjustmentHeight' \in Nat /\ lastAdjustmentHeight' # Height'
  BY <1>1 DEF TypeOK
<1>5. CacheInv'
  BY <1>1, <1>4 DEF CacheInv
<1>6. InStep'
  BY <1>3, <1>4 DEF InStep
<1>7. Ahead'
  BY <1>3, <1>4 DEF Ahead
<1>. QED
  BY <1>5, <1>6, <1>7 DEF IInv
-----------------------------------------------------------------------------
(* The steps                                                               *)

\* What a read leaves: the type, and a cache of this height or as it was.
LEMMA ReadFacts ==
  ASSUME IInv, Read
  PROVE  /\ difficultyBits' \in Bits
         /\ lastAdjustmentHeight' \in {Height, lastAdjustmentHeight}
         /\ lastAdjustmentHeight' <= Height
         /\ lastAdjustmentBits' \in Bits \cup {0}
         /\ lastAdjustmentHeight' > 0 => lastAdjustmentBits' # 0
         /\ lastAdjustmentHeight' # Height => UNCHANGED difficultyBits /\ ~AdjustsAt(Height)
         /\ lastAdjustmentHeight' = Height =>
              lastAdjustmentBits' = difficultyBits' /\ difficultyBits' = NextBits
<1>1. TypeOK /\ CacheInv /\ NextBits \in Bits /\ Height \in Nat /\ Height > 0
  BY NextBitsType, HeightFacts DEF IInv, TypeOK
<1>2. NextBits # 0
  BY <1>1, BitsAssumption DEF Bits
<1>3. CASE AdjustsAt(Height) /\ lastAdjustmentHeight # Height
  BY <1>1, <1>2, <1>3 DEF Read
<1>4. CASE ~(AdjustsAt(Height) /\ lastAdjustmentHeight # Height)
  BY <1>1, <1>4 DEF Read, TypeOK, CacheInv, NextBits
<1>. QED
  BY <1>3, <1>4

LEMMA GetDifficultyStep ==
  ASSUME IInv, GetDifficulty
  PROVE  IInv'
<1>1. Read /\ chain' = chain /\ settled' = settled
  BY DEF GetDifficulty
<1>2. Height' = Height /\ Expected(chain)' = Expected(chain)
  BY <1>1 DEF Height, HeightOf, Expected, EffectiveBits, Adjusted
<1>3. chain \in Seq(Block) /\ Height \in Nat
  BY HeightFacts DEF IInv, TypeOK
<1>4. TypeOK'
  BY <1>1, <1>3, ReadFacts DEF IInv, TypeOK
<1>5. LegacyFollowed(chain)'
  BY <1>1 DEF IInv, LegacyFollowed, Ruled, Expected
<1>6. CacheInv'
  BY <1>1, <1>2, ReadFacts DEF CacheInv
<1>7. CASE lastAdjustmentHeight' = Height
  <2>1. difficultyBits' = NextBits
    BY <1>1, <1>7, ReadFacts
  <2>2. settled \/ Height <= DAAForkHeight => difficultyBits' = Expected(chain)
    BY <2>1, InStepAgrees
  <2>3. difficultyBits' - Expected(chain) \in -1..1
    BY <2>1, AlwaysNear
  <2>4. InStep' /\ Ahead'
    BY <1>1, <1>2, <1>7, <2>2, <2>3 DEF InStep, Ahead
  <2>. QED
    BY <1>4, <1>5, <1>6, <2>4 DEF IInv
<1>8. CASE lastAdjustmentHeight' # Height
  <2>1. UNCHANGED difficultyBits /\ lastAdjustmentHeight' = lastAdjustmentHeight
    BY <1>1, <1>8, ReadFacts
  <2>2. InStep' /\ Ahead'
    BY <1>1, <1>2, <1>8, <2>1 DEF IInv, InStep, Ahead, EffectiveBits
  <2>. QED
    BY <1>4, <1>5, <1>6, <2>2 DEF IInv
<1>. QED
  BY <1>7, <1>8

LEMMA AppendBlockStep ==
  ASSUME IInv, NEW gap \in Gaps, AppendBlock(gap)
  PROVE  IInv'
<1>. DEFINE b == [gap |-> gap, bits |-> NextBits]
<1>1. Read /\ chain' = Append(chain, b) /\ settled' = TRUE
  BY DEF AppendBlock
<1>2. chain \in Seq(Block) /\ Len(chain) \in Nat /\ Height = Len(chain) + 1
  BY HeightFacts DEF IInv, TypeOK
<1>3. b \in Block /\ b.bits = NextBits
  BY NextBitsType DEF IInv, Block
<1>. HIDE DEF b
<1>4. /\ chain' \in Seq(Block) /\ Len(chain') = Height /\ Height' = Height + 1
      /\ chain'[Height] = b
      /\ EffectiveBits(chain', Len(chain')) = NextBits
      /\ \A i \in DOMAIN chain : chain'[i] = chain[i]
      /\ \A i \in 0..Len(chain) : SubSeq(chain', 1, i) = SubSeq(chain, 1, i)
      /\ SubSeq(chain, 1, Len(chain)) = chain
  BY <1>1, <1>2, <1>3, AppendFacts DEF Height, HeightOf
<1>5. TypeOK'
  BY <1>1, <1>2, <1>4, ReadFacts DEF IInv, TypeOK
<1>6. LegacyFollowed(chain')
  <2>. SUFFICES ASSUME NEW i \in 1..Len(chain'), i <= DAAForkHeight
                PROVE  Ruled(chain', i)
    BY DEF LegacyFollowed
  <2>1. CASE i \in 1..Len(chain)
    <3>1. i \in DOMAIN chain /\ i - 1 \in 0..Len(chain)
      BY <2>1
    <3>. QED
      BY <1>4, <3>1 DEF IInv, LegacyFollowed, Ruled
  <2>2. CASE i = Height
    <3>1. i - 1 = Len(chain) /\ SubSeq(chain', 1, i - 1) = chain
      BY <1>2, <1>4, <2>2
    <3>2. NextBits = Expected(chain)
      BY <2>2, InStepAgrees
    <3>. QED
      BY <1>3, <1>4, <2>2, <3>1, <3>2 DEF Ruled
  <2>. QED
    BY <1>2, <1>4, <2>1, <2>2
<1>7. lastAdjustmentHeight' <= Height /\ lastAdjustmentHeight' # Height'
  BY <1>1, <1>2, <1>4, <1>5, ReadFacts DEF TypeOK
<1>8. difficultyBits' = NextBits
  <2>1. CASE lastAdjustmentHeight' = Height
    BY <1>1, <2>1, ReadFacts
  <2>2. CASE lastAdjustmentHeight' # Height
    <3>1. UNCHANGED difficultyBits /\ ~AdjustsAt(Height) /\ lastAdjustmentHeight # Height
      BY <1>1, <2>2, ReadFacts
    <3>. QED
      BY <3>1 DEF NextBits, Adjusted, Height
  <2>. QED
    BY <2>1, <2>2
<1>9. LegacyFollowed(chain)'
  BY <1>6 DEF LegacyFollowed, Ruled, Expected
<1>10. CacheInv'
  BY <1>2, <1>4, <1>5, <1>7 DEF CacheInv, TypeOK
<1>11. InStep' /\ Ahead'
  BY <1>1, <1>4, <1>7, <1>8 DEF InStep, Ahead
<1>. QED
  BY <1>5, <1>9, <1>10, <1>11 DEF IInv

LEMMA ReorgStep ==
  ASSUME IInv, NEW f \in 0..Len(chain), NEW gaps \in ForkGaps(f), Reorg(f, gaps)
  PROVE  IInv'
<1>. DEFINE common == SubSeq(chain, 1, f)
            new == Grown(common, gaps)
<1>1. /\ FollowsRule(common) /\ Work(new) > Work(chain) /\ chain' = new
      /\ difficultyBits' = RecalcBits(new)
      /\ lastAdjustmentHeight' = (IF ResetsCache(new) THEN 0 ELSE lastAdjustmentHeight)
      /\ settled' = FALSE /\ lastAdjustmentBits' = lastAdjustmentBits
  BY DEF Reorg
<1>2. chain \in Seq(Block) /\ Len(chain) \in Nat /\ Height = Len(chain) + 1
  BY HeightFacts DEF IInv, TypeOK
<1>3. gaps \in Seq(Gaps)
  BY DEF ForkGaps
<1>4. new \in Seq(Block) /\ FollowsRule(new)
  BY <1>1, <1>2, <1>3, PrefixFacts, GrownFollowsRule
<1>. HIDE DEF new, common
<1>5. LegacyFollowed(new)
  BY <1>4, RuledFollowsLegacy
<1>6. TypeOK'
  <2>1. RecalcBits(new) \in Bits
    BY <1>4, <1>5, RecalcFacts
  <2>2. chain' \in Seq(Block) /\ difficultyBits' \in Bits
    BY <1>1, <1>4, <2>1
  <2>3. lastAdjustmentHeight' \in {0, lastAdjustmentHeight}
    BY <1>1
  <2>4. /\ lastAdjustmentHeight' \in Nat
        /\ lastAdjustmentBits' \in Bits \cup {0}
        /\ lastAdjustmentHeight' > 0 => lastAdjustmentBits' # 0
    BY <1>1, <2>3 DEF IInv, TypeOK
  <2>5. settled' \in BOOLEAN
    BY <1>1
  <2>. QED
    BY <2>2, <2>4, <2>5 DEF TypeOK
<1>7. Height' = Len(new) + 1 /\ Len(new) \in Nat /\ HeightOf(new) = Len(new) + 1
  BY <1>1, <1>4 DEF Height, HeightOf
<1>8. lastAdjustmentHeight' < Height'
  <2>1. CASE ResetsCache(new)
    BY <1>1, <1>7, <2>1
  <2>2. CASE ~ResetsCache(new)
    <3>1. BlocksPerAdjustment \in Nat \ {0}
      BY PeriodAssumption
    <3>2. /\ LastBoundary(new) \in 0..Len(new)
          /\ Len(new) < LastBoundary(new) + BlocksPerAdjustment
          /\ LastBoundary(new) % BlocksPerAdjustment = 0
      BY <1>7, <3>1, LastMultiple DEF LastBoundary
    <3>3. LastBoundary(new) < BlocksPerAdjustment
      BY <1>7, <2>2, <3>1, <3>2, PeriodAssumption, ForkAssumption DEF ResetsCache, Legacy
    <3>4. Len(new) < BlocksPerAdjustment
      <4>1. LastBoundary(new) = 0
        BY <3>1, <3>2, <3>3
      <4>. QED
        BY <1>7, <3>1, <3>2, <4>1
    <3>5. Len(new) > Len(chain)
      BY <1>1, <1>2, <1>4, <1>5, <3>4, EarlyWorkIsLength DEF IInv
    <3>. QED
      BY <1>1, <1>2, <1>7, <2>2, <3>5 DEF IInv, TypeOK, CacheInv
  <2>. QED
    BY <2>1, <2>2
<1>9. LegacyFollowed(chain)'
  BY <1>1, <1>5 DEF LegacyFollowed, Ruled, Expected
<1>. QED
  BY <1>1, <1>6, <1>8, <1>9, RecalcStep

LEMMA RestartStep ==
  ASSUME IInv, Restart
  PROVE  IInv'
<1>1. /\ chain' = chain /\ difficultyBits' = RecalcBits(chain') /\ settled' = FALSE
      /\ lastAdjustmentHeight' = 0 /\ lastAdjustmentBits' = 0
  BY DEF Restart
<1>2. chain \in Seq(Block) /\ Len(chain) \in Nat /\ Height' = Len(chain) + 1
  BY <1>1, HeightFacts DEF IInv, TypeOK, Height, HeightOf
<1>3. TypeOK'
  <2>1. RecalcBits(chain) \in Bits
    BY <1>2, RecalcFacts DEF IInv
  <2>2. chain' \in Seq(Block) /\ difficultyBits' \in Bits
    BY <1>1, <1>2, <2>1
  <2>3. settled' \in BOOLEAN
    BY <1>1
  <2>. QED
    BY <1>1, <2>2, <2>3 DEF TypeOK
<1>4. LegacyFollowed(chain)'
  BY <1>1 DEF IInv, LegacyFollowed, Ruled, Expected
<1>5. lastAdjustmentHeight' < Height'
  BY <1>1, <1>2
<1>. QED
  BY <1>1, <1>3, <1>4, <1>5, RecalcStep

LEMMA StepIInv ==
  ASSUME IInv, [Next]_vars
  PROVE  IInv'
<1>1. CASE GetDifficulty
  BY <1>1, GetDifficultyStep
<1>2. CASE \E gap \in Gaps : AppendBlock(gap)
  BY <1>2, AppendBlockStep
<1>3. CASE \E f \in 0..Len(chain) : \E gaps \in ForkGaps(f) : Reorg(f, gaps)
  BY <1>3, ReorgStep
<1>4. CASE Restart
  BY <1>4, RestartStep
<1>5. CASE UNCHANGED vars
  <2>1. /\ chain' = chain /\ difficultyBits' = difficultyBits /\ settled' = settled
        /\ lastAdjustmentHeight' = lastAdjustmentHeight
        /\ lastAdjustmentBits' = lastAdjustmentBits
    BY <1>5 DEF vars
  <2>2. Height' = Height
    BY <2>1 DEF Height, HeightOf
  <2>3. TypeOK' /\ LegacyFollowed(chain)' /\ CacheInv' /\ InStep' /\ Ahead'
    BY <2>1, <2>2 DEF IInv, TypeOK, LegacyFollowed, Ruled, CacheInv, InStep, Ahead,
                      Expected, EffectiveBits
  <2>. QED
    BY <2>3 DEF IInv
<1>. QED
  BY <1>1, <1>2, <1>3, <1>4, <1>5 DEF Next

LEMMA SpecIInv == Spec => []IInv
<1>1. Init => IInv
  BY InitIInv
<1>2. IInv /\ [Next]_vars => IInv'
  BY StepIInv
<1>. QED
  BY <1>1, <1>2, PTL DEF Spec
-----------------------------------------------------------------------------
(* The theorems                                                            *)

\* The chain's blocks, the difficulty and its cache stay within the bounds on
\* difficulties, whichever of the two computations set them.
THEOREM TypeCorrect == Spec => []TypeOK
<1>1. IInv => TypeOK
  BY DEF IInv
<1>. QED
  BY <1>1, SpecIInv, PTL

\* After an appended block the incremental difficulty is that of the rule.
THEOREM SettledAgreesHolds == Spec => []SettledAgrees
<1>1. IInv => SettledAgrees
  BY InStepAgrees DEF SettledAgrees
<1>. QED
  BY <1>1, SpecIInv, PTL

\* Up to the fork height it always is, recalculated or not.
THEOREM LegacyRecalcAgreesHolds == Spec => []LegacyRecalcAgrees
<1>1. IInv => LegacyRecalcAgrees
  BY InStepAgrees DEF LegacyRecalcAgrees
<1>. QED
  BY <1>1, SpecIInv, PTL

\* It is never more than one bit off.
THEOREM RecalcOneBitOffHolds == Spec => []RecalcOneBitOff
<1>1. IInv => RecalcOneBitOff
  BY AlwaysNear DEF RecalcOneBitOff
<1>. QED
  BY <1>1, SpecIInv, PTL

\* A read does not change what the next read returns.
THEOREM ReadStableHolds == Spec => ReadStable
<1>1. IInv /\ [Next]_vars => [GetDifficulty => NextBits' = NextBits]_vars
  <2>. SUFFICES ASSUME IInv, GetDifficulty
                PROVE  NextBits' = NextBits
    OBVIOUS
  <2>1. Read /\ chain' = chain /\ Height' = Height
    BY DEF GetDifficulty, Height, HeightOf
  <2>2. CASE lastAdjustmentHeight' = Height
    BY <2>1, <2>2, ReadFacts DEF NextBits
  <2>3. CASE lastAdjustmentHeight' # Height
    <3>1. UNCHANGED difficultyBits /\ lastAdjustmentHeight # Height /\ ~AdjustsAt(Height)
      BY <2>1, <2>3, ReadFacts
    <3>. QED
      BY <2>1, <2>3, <3>1 DEF NextBits, Adjusted, Height
  <2>. QED
    BY <2>2, <2>3
<1>. QED
  BY <1>1, SpecIInv, PTL DEF Spec, ReadStable
-----------------------------------------------------------------------------
(* Slower blocks                                                           *)

\* d is c with blocks that took no less time each.
Slower(c, d) ==
    /\ Len(d) = Len(c)
    /\ \A i \in 1..Len(c) : d[i].bits = c[i].bits /\ c[i].gap <= d[i].gap

LEMMA ClampOrder ==
  ASSUME NEW low \in Int, NEW high \in Int, low <= high, NEW m \in Int, NEW n \in Int, m <= n
  PROVE  /\ Clamp(low, high, m) \in low..high
         /\ Clamp(low, high, m) <= Clamp(low, high, n)
BY DEF Clamp

LEMMA Product == ASSUME NEW a \in Nat, NEW b \in Nat PROVE a * b \in Nat
OBVIOUS

LEMMA ProductOrder ==
  ASSUME NEW a \in Nat, NEW b \in Nat, NEW k \in Nat, a <= b
  PROVE  /\ a * k \in Nat /\ b * k \in Nat /\ a * k <= b * k
<1>1. PICK d \in Nat : b = a + d
  <2>1. b - a \in Nat /\ b = a + (b - a)
    OBVIOUS
  <2>. QED
    BY <2>1
<1>2. d * k \in Nat /\ a * k \in Nat
  BY Product
<1>3. (a + d) * k = a * k + d * k
  OBVIOUS
<1>4. b * k = a * k + d * k
  BY <1>1, <1>3
<1>. DEFINE x == a * k
            y == d * k
            z == b * k
<1>5. z = x + y /\ x \in Nat /\ y \in Nat
  BY <1>2, <1>4
<1>. HIDE DEF x, y, z
<1>6. z \in Nat /\ x <= z /\ x \in Nat
  BY <1>5
<1>. QED
  BY <1>6 DEF x, z

LEMMA SquareOrder ==
  ASSUME NEW a \in Nat, NEW b \in Nat, a <= b
  PROVE  a * a \in Nat /\ b * b \in Nat /\ a * a <= b * b
<1>1. a * a \in Nat /\ b * a \in Nat /\ a * a <= b * a
  BY ProductOrder
<1>2. a * b \in Nat /\ b * b \in Nat /\ a * b <= b * b
  BY ProductOrder
<1>3. a * b = b * a
  OBVIOUS
<1>. DEFINE x == a * a
            y == a * b
            z == b * b
<1>4. x \in Nat /\ y \in Nat /\ z \in Nat /\ x <= y /\ y <= z
  BY <1>1, <1>2, <1>3
<1>. HIDE DEF x, y, z
<1>5. x \in Nat /\ z \in Nat /\ x <= z
  BY <1>4
<1>. QED
  BY <1>5 DEF x, z

LEMMA SlowerTime ==
  ASSUME NEW c \in Seq(Block), NEW d \in Seq(Block), Slower(c, d), NEW boundary \in Nat,
         boundary <= HeightOf(c), BlocksPerAdjustment <= boundary
  PROVE  /\ ActualTime(c, boundary) \in Nat /\ ActualTime(d, boundary) \in Nat
         /\ ActualTime(c, boundary) <= ActualTime(d, boundary)
<1>. DEFINE first == boundary - BlocksPerAdjustment
            k == BlocksPerAdjustment - 1
            f == [i \in 1..k |-> c[first + i].gap]
            g == [i \in 1..k |-> d[first + i].gap]
<1>1. k \in Nat /\ Len(c) \in Nat /\ Len(d) = Len(c) /\ \A i \in 1..k : first + i \in 1..Len(c)
  BY PeriodAssumption DEF HeightOf, Slower
<1>2. \A i \in 1..Len(c) : c[i].gap \in Int /\ d[i].gap \in Int /\ c[i].gap <= d[i].gap
  <2>1. \A i \in 1..Len(c) : c[i] \in Block /\ d[i] \in Block
    BY <1>1
  <2>. QED
    BY <2>1, GapsAssumption DEF Block, Slower
<1>3. \A i \in 1..k : /\ c[first + i].gap \in Int /\ d[first + i].gap \in Int
                      /\ c[first + i].gap <= d[first + i].gap
  <2>. HIDE DEF first, k
  <2>. QED
    BY <1>1, <1>2
<1>4. f \in Seq(Int) /\ g \in Seq(Int) /\ Len(f) = k /\ Len(g) = k
  <2>1. f \in [1..k -> Int] /\ g \in [1..k -> Int]
    BY <1>3
  <2>. HIDE DEF f, g, k
  <2>. QED
    BY <1>1, <2>1
<1>5. \A i \in 1..k : f[i] <= g[i]
  BY <1>3
<1>6. /\ ActualTime(c, boundary) = IF SumSeq(f) <= 0 THEN 1 ELSE SumSeq(f)
      /\ ActualTime(d, boundary) = IF SumSeq(g) <= 0 THEN 1 ELSE SumSeq(g)
  BY DEF ActualTime
<1>. HIDE DEF first, k, f, g
<1>7. SumSeq(f) \in Int /\ SumSeq(g) \in Int /\ SumSeq(f) <= SumSeq(g)
  BY <1>4, <1>5, SumInt, SumLE
<1>. QED
  BY <1>6, <1>7

LEMMA SlowerLegacy ==
  ASSUME NEW a \in Nat, NEW b \in Nat, a <= b
  PROVE  /\ LegacyAdjustment(a) \in Int /\ LegacyAdjustment(b) \in Int
         /\ LegacyAdjustment(b) <= LegacyAdjustment(a)
<1>. DEFINE expected == BlocksPerAdjustment * TargetBlockTime
            e == expected * expected
            x == a * a
            y == b * b
<1>1. e \in Nat
  <2>1. expected \in Nat
    BY PeriodAssumption, Product
  <2>. HIDE DEF expected
  <2>. QED
    BY <2>1, Product
<1>2. x \in Nat /\ y \in Nat /\ x <= y
  BY SquareOrder
<1>3. /\ LegacyAdjustment(a) = IF e > 8 * x THEN 2
                               ELSE IF e > 2 * x THEN 1
                               ELSE IF x > 8 * e THEN -2
                               ELSE IF x > 2 * e THEN -1
                               ELSE 0
      /\ LegacyAdjustment(b) = IF e > 8 * y THEN 2
                               ELSE IF e > 2 * y THEN 1
                               ELSE IF y > 8 * e THEN -2
                               ELSE IF y > 2 * e THEN -1
                               ELSE 0
  BY Zenon DEF LegacyAdjustment
<1>. HIDE DEF e, x, y
<1>. QED
  BY <1>1, <1>2, <1>3

\* A block of the window that took longer counts for more.
LEMMA SlowerAdjusted ==
  ASSUME NEW b \in Block, NEW s \in Block, s.bits = b.bits, b.gap <= s.gap, NEW bits \in Bits
  PROVE  /\ AdjustedTime(b, bits) \in Nat /\ AdjustedTime(s, bits) \in Nat
         /\ AdjustedTime(b, bits) <= AdjustedTime(s, bits)
<1>. DEFINE t == SolveTime(b)
            u == SolveTime(s)
<1>1. b.gap \in Int /\ s.gap \in Int /\ b.bits \in Bits
  BY GapsAssumption DEF Block
<1>2. MaxSolveTime \in Nat /\ MaxSolveTime >= 1
  BY PeriodAssumption DEF MaxSolveTime
<1>3. t \in Nat /\ u \in Nat /\ t <= u
  <2>1. /\ Clamp(1, MaxSolveTime, b.gap) \in 1..MaxSolveTime
        /\ Clamp(1, MaxSolveTime, s.gap) \in 1..MaxSolveTime
        /\ Clamp(1, MaxSolveTime, b.gap) <= Clamp(1, MaxSolveTime, s.gap)
    BY <1>1, <1>2, ClampOrder
  <2>2. t \in 1..MaxSolveTime /\ u \in 1..MaxSolveTime /\ t <= u
    BY <2>1 DEF SolveTime
  <2>. HIDE DEF t, u
  <2>. QED
    BY <1>2, <2>2
<1>4. Scale \in Nat /\ Scale <= MaxSolveTime * Scale /\ MaxSolveTime * Scale \in Nat
  <2>1. MaxDifficultyBits - MinDifficultyBits \in Nat
    BY BitsAssumption
  <2>2. Scale \in Nat
    BY <2>1, Pow2Positive DEF Scale
  <2>3. 1 * Scale <= MaxSolveTime * Scale /\ MaxSolveTime * Scale \in Nat /\ 1 * Scale = Scale
    BY <1>2, <2>2, ProductOrder
  <2>. QED
    BY <2>2, <2>3
<1>5. PICK high \in Nat : high = MaxSolveTime * Scale
  BY <1>4
<1>6. CASE bits >= b.bits
  <2>. DEFINE p == Pow2(bits - b.bits)
  <2>1. p \in Nat
    <3>1. bits - b.bits \in Nat
      BY <1>1, <1>6 DEF Bits
    <3>. QED
      BY <3>1, Pow2Positive
  <2>2. /\ AdjustedTime(b, bits) = Clamp(Scale, high, t * Scale * p)
        /\ AdjustedTime(s, bits) = Clamp(Scale, high, u * Scale * p)
    BY <1>5, <1>6 DEF AdjustedTime
  <2>. HIDE DEF t, u, p
  <2>3. t * Scale \in Nat /\ u * Scale \in Nat /\ t * Scale <= u * Scale
    BY <1>3, <1>4, ProductOrder
  <2>4. /\ t * Scale * p \in Nat /\ u * Scale * p \in Nat
        /\ t * Scale * p <= u * Scale * p
    <3>. DEFINE v == t * Scale
                w == u * Scale
    <3>1. v \in Nat /\ w \in Nat /\ v <= w
      BY <2>3
    <3>. HIDE DEF v, w
    <3>2. v * p \in Nat /\ w * p \in Nat /\ v * p <= w * p
      BY <2>1, <3>1, ProductOrder
    <3>. QED
      BY <3>2 DEF v, w
  <2>. DEFINE m == t * Scale * p
              n == u * Scale * p
  <2>5. m \in Nat /\ n \in Nat /\ m <= n
    BY <2>4
  <2>. HIDE DEF m, n
  <2>6. /\ Clamp(Scale, high, m) \in Scale..high /\ Clamp(Scale, high, n) \in Scale..high
        /\ Clamp(Scale, high, m) <= Clamp(Scale, high, n)
    BY <1>4, <1>5, <2>5, ClampOrder
  <2>. QED
    BY <1>4, <1>5, <2>2, <2>6 DEF m, n
<1>7. CASE ~(bits >= b.bits)
  <2>. DEFINE q == Scale \div Pow2(b.bits - bits)
  <2>1. q \in Nat
    <3>1. b.bits - bits \in Nat
      BY <1>1, <1>7 DEF Bits
    <3>2. Pow2(b.bits - bits) \in Nat \ {0}
      BY <3>1, Pow2Positive
    <3>. QED
      BY <1>4, <3>2, DivMod
  <2>2. /\ AdjustedTime(b, bits) = Clamp(Scale, high, t * q)
        /\ AdjustedTime(s, bits) = Clamp(Scale, high, u * q)
    BY <1>5, <1>7 DEF AdjustedTime
  <2>. HIDE DEF t, u, q
  <2>. DEFINE m == t * q
              n == u * q
  <2>3. m \in Nat /\ n \in Nat /\ m <= n
    BY <1>3, <2>1, ProductOrder
  <2>. HIDE DEF m, n
  <2>4. /\ Clamp(Scale, high, m) \in Scale..high /\ Clamp(Scale, high, n) \in Scale..high
        /\ Clamp(Scale, high, m) <= Clamp(Scale, high, n)
    BY <1>4, <1>5, <2>3, ClampOrder
  <2>. QED
    BY <1>4, <1>5, <2>2, <2>4 DEF m, n
<1>. QED
  BY <1>6, <1>7

LEMMA SlowerLWMA ==
  ASSUME NEW c \in Seq(Block), NEW d \in Seq(Block), Slower(c, d), NEW bits \in Bits
  PROVE  LWMAAdjustment(d, bits) <= LWMAAdjustment(c, bits)
<1>. DEFINE W == Window(c)
            f == [i \in W |-> AdjustedTime(c[i], bits) * Weight(c, i)]
            g == [i \in W |-> AdjustedTime(d[i], bits) * Weight(c, i)]
            target == TargetBlockTime * Scale * SumFunction([i \in W |-> Weight(c, i)])
<1>1. Len(d) = Len(c) /\ Len(c) \in Nat /\ DAAWindow \in Nat
  BY PeriodAssumption DEF Slower
<1>2. Window(d) = W /\ \A i : Weight(d, i) = Weight(c, i)
  BY <1>1 DEF Window, Weight, HeightOf
<1>3. /\ LWMAAdjustment(c, bits) = IF W = {} THEN 0
                                   ELSE IF 10 * SumFunction(f) < 7 * target THEN 1
                                   ELSE IF 10 * SumFunction(f) > 13 * target THEN -1
                                   ELSE 0
      /\ LWMAAdjustment(d, bits) = IF W = {} THEN 0
                                   ELSE IF 10 * SumFunction(g) < 7 * target THEN 1
                                   ELSE IF 10 * SumFunction(g) > 13 * target THEN -1
                                   ELSE 0
  <2>1. /\ [i \in Window(d) |-> AdjustedTime(d[i], bits) * Weight(d, i)] = g
        /\ [i \in Window(d) |-> Weight(d, i)] = [i \in W |-> Weight(c, i)]
    BY <1>2, Zenon
  <2>2. LWMAAdjustment(c, bits) = IF W = {} THEN 0
                                  ELSE IF 10 * SumFunction(f) < 7 * target THEN 1
                                  ELSE IF 10 * SumFunction(f) > 13 * target THEN -1
                                  ELSE 0
    BY Zenon DEF LWMAAdjustment
  <2>. DEFINE h == [i \in Window(d) |-> AdjustedTime(d[i], bits) * Weight(d, i)]
              goal == TargetBlockTime * Scale * SumFunction([i \in Window(d) |-> Weight(d, i)])
  <2>3. LWMAAdjustment(d, bits) = IF Window(d) = {} THEN 0
                                  ELSE IF 10 * SumFunction(h) < 7 * goal THEN 1
                                  ELSE IF 10 * SumFunction(h) > 13 * goal THEN -1
                                  ELSE 0
    BY Zenon DEF LWMAAdjustment
  <2>4. h = g /\ goal = target /\ Window(d) = W
    BY <1>2, <2>1, Zenon
  <2>. HIDE DEF f, g, h, goal, target, W
  <2>. QED
    BY <2>2, <2>3, <2>4
<1>4. /\ \A i \in W : i \in 1..Len(c) /\ Weight(c, i) \in Nat
      /\ IsFiniteSet(W)
  <2>1. W \subseteq 1..Len(c)
    BY <1>1 DEF Window, HeightOf
  <2>2. \A i \in W : Weight(c, i) \in Nat
    BY <1>1 DEF Window, HeightOf, Weight
  <2>3. IsFiniteSet(1..Len(c))
    BY <1>1, FS_Interval
  <2>. QED
    BY <2>1, <2>2, <2>3, FS_Subset
<1>5. ASSUME NEW i \in W
      PROVE  /\ AdjustedTime(c[i], bits) * Weight(c, i) \in Nat
             /\ AdjustedTime(d[i], bits) * Weight(c, i) \in Nat
             /\ AdjustedTime(c[i], bits) * Weight(c, i) <= AdjustedTime(d[i], bits) * Weight(c, i)
  <2>1. c[i] \in Block /\ d[i] \in Block /\ d[i].bits = c[i].bits /\ c[i].gap <= d[i].gap
    BY <1>1, <1>4 DEF Slower
  <2>2. /\ AdjustedTime(c[i], bits) \in Nat /\ AdjustedTime(d[i], bits) \in Nat
        /\ AdjustedTime(c[i], bits) <= AdjustedTime(d[i], bits)
    BY <2>1, SlowerAdjusted
  <2>. QED
    BY <1>4, <2>2, ProductOrder
<1>6. f \in [W -> Int] /\ g \in [W -> Int] /\ \A i \in W : f[i] <= g[i]
  BY <1>5
<1>7. target \in Int
  <2>. DEFINE total == SumFunction([i \in W |-> Weight(c, i)])
  <2>1. total \in Int
    BY <1>4, SumFunctionInt
  <2>2. Scale \in Nat
    BY BitsAssumption, Pow2Positive DEF Scale
  <2>. HIDE DEF total
  <2>3. TargetBlockTime * Scale * total \in Int
    BY <2>1, <2>2, PeriodAssumption
  <2>. QED
    BY <2>3 DEF total
<1>. HIDE DEF W, f, g, target
<1>8. SumFunction(f) \in Int /\ SumFunction(g) \in Int /\ SumFunction(f) <= SumFunction(g)
  BY <1>4, <1>6, SumFunctionInt, SumFunctionLE
<1>. QED
  BY <1>3, <1>7, <1>8

\* A chain whose blocks took longer is not followed by a harder block.
LEMMA SlowerAdjustedBits ==
  ASSUME NEW c \in Seq(Block), NEW d \in Seq(Block), Slower(c, d), NEW bits \in Bits
  PROVE  Adjusted(d, bits) <= Adjusted(c, bits)
<1>. DEFINE h == HeightOf(c)
<1>1. HeightOf(d) = h /\ h \in Nat /\ h <= HeightOf(c)
  BY DEF HeightOf, Slower
<1>2. MinDifficultyBits \in Int /\ MaxDifficultyBits \in Int /\ MinDifficultyBits <= MaxDifficultyBits
      /\ bits \in Int
  BY BitsAssumption DEF Bits
<1>3. CASE ~AdjustsAt(h)
  BY <1>1, <1>2, <1>3 DEF Adjusted
<1>4. CASE AdjustsAt(h) /\ Legacy(h)
  <2>1. BlocksPerAdjustment <= h
    BY <1>1, <1>4, PeriodAssumption DEF AdjustsAt
  <2>. DEFINE m == LegacyAdjustment(ActualTime(c, h))
              n == LegacyAdjustment(ActualTime(d, h))
  <2>2. /\ ActualTime(c, h) \in Nat /\ ActualTime(d, h) \in Nat
        /\ ActualTime(c, h) <= ActualTime(d, h)
    <3>. HIDE DEF h
    <3>. QED
      BY <1>1, <2>1, SlowerTime
  <2>3. m \in Int /\ n \in Int /\ n <= m
    BY <2>2, SlowerLegacy
  <2>4. /\ Adjusted(c, bits) = Clamp(MinDifficultyBits, MaxDifficultyBits, bits + m)
        /\ Adjusted(d, bits) = Clamp(MinDifficultyBits, MaxDifficultyBits, bits + n)
    BY <1>1, <1>4 DEF Adjusted, LegacyBits
  <2>. HIDE DEF m, n
  <2>5. bits + m \in Int /\ bits + n \in Int /\ bits + n <= bits + m
    BY <1>2, <2>3
  <2>. QED
    BY <1>2, <2>4, <2>5, ClampOrder
<1>5. CASE AdjustsAt(h) /\ ~Legacy(h)
  <2>. DEFINE m == LWMAAdjustment(c, bits)
              n == LWMAAdjustment(d, bits)
  <2>1. m \in {-1, 0, 1} /\ n \in {-1, 0, 1}
    BY Zenon DEF LWMAAdjustment
  <2>2. n <= m
    BY SlowerLWMA
  <2>3. /\ Adjusted(c, bits) = Clamp(MinDifficultyBits, MaxDifficultyBits, bits + m)
        /\ Adjusted(d, bits) = Clamp(MinDifficultyBits, MaxDifficultyBits, bits + n)
    BY <1>1, <1>5 DEF Adjusted, LWMABits
  <2>. HIDE DEF m, n
  <2>4. bits + m \in Int /\ bits + n \in Int /\ bits + n <= bits + m
    BY <1>2, <2>1, <2>2
  <2>. QED
    BY <1>2, <2>3, <2>4, ClampOrder
<1>. QED
  BY <1>3, <1>4, <1>5

\* Had the last block taken longer, the next would not be harder; of all blocks.
THEOREM SlowerNeverHarderHolds == Spec => []SlowerNeverHarder
<1>1. TypeOK => SlowerNeverHarder
  <2>. SUFFICES ASSUME TypeOK, chain # <<>>,
                       NEW gap \in Gaps, gap > chain[Len(chain)].gap
                PROVE  Expected([chain EXCEPT ![Len(chain)] = [chain[Len(chain)] EXCEPT !.gap = gap]])
                       <= Expected(chain)
    BY DEF SlowerNeverHarder
  <2>. DEFINE n == Len(chain)
              last == chain[n]
              slow == [last EXCEPT !.gap = gap]
              d == [chain EXCEPT ![n] = slow]
  <2>1. chain \in Seq(Block) /\ n \in Nat \ {0} /\ n \in 1..Len(chain) /\ last \in Block
    BY DEF TypeOK
  <2>2. slow \in Block /\ slow.bits = last.bits /\ slow.gap = gap
    BY <2>1 DEF Block
  <2>. HIDE DEF slow, last
  <2>3. /\ last.gap \in Int /\ gap \in Int /\ last.gap < gap
        /\ \A i \in 1..Len(chain) : chain[i] \in Block
    <3>1. last.gap \in Gaps
      BY <2>1 DEF Block
    <3>2. last.gap \in Int /\ gap \in Int
      BY <3>1, GapsAssumption
    <3>3. last.gap < gap
      BY <3>2 DEF last
    <3>. QED
      BY <2>1, <3>2, <3>3
  <2>4. d \in Seq(Block) /\ Len(d) = n /\ d[n] = slow /\ \A i \in 1..n : i # n => d[i] = chain[i]
    BY <2>1, <2>2
  <2>5. \A i \in 1..n : chain[i].gap \in Int
    BY <2>3, GapsAssumption DEF Block
  <2>. HIDE DEF d
  <2>6. last = chain[n] /\ last.gap <= slow.gap
    BY <2>2, <2>3 DEF last
  <2>7. Slower(chain, d)
    <3>. SUFFICES ASSUME NEW i \in 1..n
                  PROVE  d[i].bits = chain[i].bits /\ chain[i].gap <= d[i].gap
      BY <2>4 DEF Slower
    <3>1. CASE i = n
      BY <2>2, <2>4, <2>6, <3>1
    <3>2. CASE i # n
      BY <2>4, <2>5, <3>2
    <3>. QED
      BY <3>1, <3>2
  <2>8. EffectiveBits(d, n) = EffectiveBits(chain, n) /\ EffectiveBits(chain, n) \in Bits
    <3>1. EffectiveBits(d, n) = EffectiveBits(chain, n)
      BY <2>1, <2>2, <2>4, <2>6 DEF EffectiveBits
    <3>. QED
      BY <2>1, <3>1, EffectiveBitsType
  <2>9. Expected(d) <= Expected(chain)
    BY <2>1, <2>4, <2>7, <2>8, SlowerAdjustedBits DEF Expected
  <2>. QED
    BY <2>9 DEF d, slow, last
<1>. QED
  BY <1>1, TypeCorrect, PTL
=============================================================================
