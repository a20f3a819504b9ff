----------------------------- MODULE Difficulty -----------------------------
(***************************************************************************)
(* The difficulty of the next block.  One node computes it two ways: the   *)
(* read GetCurrentDifficultyBitsLocked is incremental (it moves            *)
(* bc.DifficultyBits and remembers for which height it did), and           *)
(* recalcDifficultyFromChain starts over from the blocks when the chain    *)
(* was replaced by a reorganisation or loaded at a start.                  *)
(* computeExpectedDifficultyBits is the same rule as a function of a chain.*)
(*                                                                         *)
(* All of it runs under bc.mutex: an action is one critical section.  A    *)
(* block is its time since its parent and its difficulty.  DAAv2ForkHeight *)
(* equals DAAForkHeight, so the v1 branches of the code are never taken.   *)
(***************************************************************************)
EXTENDS Integers, Sequences, FiniteSetsExt, Sums

CONSTANTS
    Gaps,                 \* seconds a block's timestamp may differ from its parent's
    BlocksPerAdjustment,
    DAAWindow,
    TargetBlockTime,
    MinDifficultyBits,
    MaxDifficultyBits,
    GenesisBits,          \* what genesis and a new process start from
    DAAForkHeight,
    MaxLen,               \* bound: blocks after genesis
    MaxFork               \* bound: blocks of a fork above the common ancestor

ASSUME GapsAssumption == Gaps \subseteq Int
ASSUME PeriodAssumption == /\ BlocksPerAdjustment \in Nat \ {0, 1}
                           /\ DAAWindow \in Nat \ {0}
                           /\ TargetBlockTime \in Nat \ {0}
                           /\ DAAForkHeight \in Nat
                           /\ MaxLen \in Nat
                           /\ MaxFork \in Nat
\* 50, 20 and 600 in the code.
ASSUME ForkAssumption == /\ BlocksPerAdjustment <= DAAForkHeight
                         /\ DAAWindow <= DAAForkHeight
ASSUME BitsAssumption == /\ MinDifficultyBits \in Nat \ {0}
                         /\ MaxDifficultyBits \in Nat
                         /\ GenesisBits \in MinDifficultyBits..MaxDifficultyBits

VARIABLES
    chain,                \* bc.Blocks after genesis
    difficultyBits,       \* bc.DifficultyBits
    lastAdjustmentHeight, \* the height the cached bits are for
    lastAdjustmentBits,   \* the cached bits
    settled               \* history: the last change of the chain was not a recalculation's

vars == <<chain, difficultyBits, lastAdjustmentHeight, lastAdjustmentBits, settled>>

Bits == MinDifficultyBits..MaxDifficultyBits

Block == [gap : Gaps, bits : Bits]

TypeOK ==
    /\ chain \in Seq(Block)
    /\ difficultyBits \in Bits
    /\ lastAdjustmentHeight \in Nat
    /\ lastAdjustmentBits \in Bits \cup {0}
    /\ lastAdjustmentHeight > 0 => lastAdjustmentBits # 0
    /\ settled \in BOOLEAN
-----------------------------------------------------------------------------
(* The two algorithms                                                      *)

Clamp(low, high, n) == IF n < low THEN low ELSE IF n > high THEN high ELSE n

\* len(bc.Blocks), the index of the block after chain c.
HeightOf(c) == Len(c) + 1

\* The difficulty block i of c states, 0 being genesis.
EffectiveBits(c, i) == IF i = 0 THEN GenesisBits ELSE c[i].bits

\* Seconds from block boundary - BlocksPerAdjustment to block boundary - 1: one
\* interval fewer than the expected time counts.
ActualTime(c, boundary) ==
    LET first == boundary - BlocksPerAdjustment
        time == SumSeq([i \in 1..(BlocksPerAdjustment - 1) |-> c[first + i].gap])
    IN IF time <= 0 THEN 1 ELSE time

\* round(log2(expected / actual)), the ratio being held within 1/4 and 4.
LegacyAdjustment(actual) ==
    LET expected == BlocksPerAdjustment * TargetBlockTime
        e == expected * expected
        a == actual * actual
    IN IF e > 8 * a THEN 2
       ELSE IF e > 2 * a THEN 1
       ELSE IF a > 8 * e THEN -2
       ELSE IF a > 2 * e THEN -1
       ELSE 0

\* calculateLegacyDifficultyBits at a boundary, from the given difficulty.
LegacyBits(c, boundary, bits) ==
    Clamp(MinDifficultyBits, MaxDifficultyBits,
          bits + LegacyAdjustment(ActualTime(c, boundary)))

MaxSolveTime == 10 * TargetBlockTime

\* Faulty: an interval too long to be believed counts as none.
SolveTimeOutlierDropped(b) == IF b.gap \in 1..MaxSolveTime THEN b.gap ELSE 1

SolveTime(b) == Clamp(1, MaxSolveTime, b.gap)

\* The code divides floating point numbers by powers of two; here times are
\* multiples of 1 / Scale, which makes that exact.
Scale == Pow2(MaxDifficultyBits - MinDifficultyBits)

\* The time block b would have taken at the given difficulty, in 1 / Scale s.
AdjustedTime(b, bits) ==
    Clamp(Scale, MaxSolveTime * Scale,
          IF bits >= b.bits THEN SolveTime(b) * Scale * Pow2(bits - b.bits)
                            ELSE SolveTime(b) * (Scale \div Pow2(b.bits - bits)))

\* The blocks of the window that were mined under this algorithm.
Window(c) ==
    {i \in (HeightOf(c) - DAAWindow)..Len(c) : i > 0 /\ i >= DAAForkHeight}

\* 1 for the oldest place of the window, DAAWindow for the newest.
Weight(c, i) == i - (Len(c) - DAAWindow)

\* calculateNewDifficultyBits: one bit up if the weighted average of the
\* adjusted times is below 0.7 of the target, one down if it is above 1.3.
LWMAAdjustment(c, bits) ==
    LET sum == 10 * SumFunction([i \in Window(c) |-> AdjustedTime(c[i], bits) * Weight(c, i)])
        target == TargetBlockTime * Scale * SumFunction([i \in Window(c) |-> Weight(c, i)])
    IN IF Window(c) = {} THEN 0
       ELSE IF sum < 7 * target THEN 1
       ELSE IF sum > 13 * target THEN -1
       ELSE 0

LWMABits(c, bits) ==
    Clamp(MinDifficultyBits, MaxDifficultyBits, bits + LWMAAdjustment(c, bits))

\* The heights whose difficulty is computed; at others it is the block before's.
Legacy(height) == height < DAAForkHeight

AdjustsAt(height) ==
    IF Legacy(height) THEN height >= BlocksPerAdjustment /\ height % BlocksPerAdjustment = 0
                      ELSE height >= DAAWindow

\* computeExpectedDifficultyBits: the difficulty after c when it was bits before.
Adjusted(c, bits) ==
    IF ~AdjustsAt(HeightOf(c)) THEN bits
    ELSE IF Legacy(HeightOf(c)) THEN LegacyBits(c, HeightOf(c), bits)
    ELSE LWMABits(c, bits)

\* The rule: the difficulty after c, from the one its last block states.
Expected(c) == Adjusted(c, EffectiveBits(c, Len(c)))

\* Every block has the difficulty of the rule.  (isValidChain asks it of blocks a
\* window above the fork height only; lower ones count as they are.)
FollowsRule(c) ==
    \A i \in DOMAIN c : c[i].bits = Expected(SubSeq(c, 1, i - 1))
-----------------------------------------------------------------------------
(* What the node does                                                      *)

Height == HeightOf(chain)

\* What GetCurrentDifficultyBitsLocked returns.
NextBits ==
    IF lastAdjustmentHeight = Height THEN lastAdjustmentBits
    ELSE Adjusted(chain, difficultyBits)

Init ==
    /\ chain = <<>>
    /\ difficultyBits = GenesisBits
    /\ lastAdjustmentHeight = 0
    /\ lastAdjustmentBits = 0
    /\ settled = TRUE

\* Faulty: the result is remembered for its height only.
ReadForgetful ==
    IF AdjustsAt(Height)
    THEN /\ lastAdjustmentHeight' = Height
         /\ lastAdjustmentBits' = NextBits
         /\ UNCHANGED difficultyBits
    ELSE UNCHANGED <<difficultyBits, lastAdjustmentHeight, lastAdjustmentBits>>

\* What the call leaves behind.  (A hit of the cache leaves everything as it
\* was, the difficulty included.)
Read ==
    IF AdjustsAt(Height) /\ lastAdjustmentHeight # Height
    THEN /\ lastAdjustmentHeight' = Height
         /\ lastAdjustmentBits' = NextBits
         /\ difficultyBits' = NextBits
    ELSE UNCHANGED <<difficultyBits, lastAdjustmentHeight, lastAdjustmentBits>>

\* Any caller that only wants to know: the API, a mining template, a handler
\* that then refuses the block.
GetDifficulty ==
    /\ Read
    /\ UNCHANGED <<chain, settled>>

\* A block mined here, found by a peer or submitted: the difficulty is read,
\* and the block has it or is not appended.
AppendBlock(gap) ==
    /\ Len(chain) < MaxLen
    /\ Read
    /\ chain' = Append(chain, [gap |-> gap, bits |-> NextBits])
    /\ settled' = TRUE

\* The last boundary below the height.
LastBoundary(c) == (Len(c) \div BlocksPerAdjustment) * BlocksPerAdjustment

\* recalcLegacyDifficulty: the last boundary's adjustment made again, from the
\* difficulty of the block before it.
RecalcLegacy(c) ==
    IF LastBoundary(c) < BlocksPerAdjustment THEN EffectiveBits(c, Len(c))
    ELSE LegacyBits(c, LastBoundary(c), EffectiveBits(c, LastBoundary(c) - 1))

\* recalcLWMADifficulty: the difficulty of the next block, stored as though it
\* were that of the last one.
RecalcLWMA(c) == LWMABits(c, EffectiveBits(c, Len(c)))

\* recalcDifficultyFromChain.  The anchor it looks for is the last block: every
\* block after genesis states its bits.
RecalcBits(c) ==
    IF Legacy(HeightOf(c)) THEN RecalcLegacy(c)
    ELSE IF HeightOf(c) < DAAWindow THEN EffectiveBits(c, Len(c))
    ELSE RecalcLWMA(c)

\* Faulty: an adjustment cached for the old chain outlives it.
ResetsCacheNever(c) == FALSE

\* Whether it also forgets the cached adjustment: its early returns do not.
ResetsCache(c) ==
    IF Legacy(HeightOf(c)) THEN LastBoundary(c) >= BlocksPerAdjustment
                           ELSE HeightOf(c) >= DAAWindow

Work(c) == SumSeq([i \in DOMAIN c |-> Pow2(c[i].bits)])

\* Chain c and the blocks that miners who follow the rule add to it.
Grown(c, gaps) ==
    LET grown[n \in 0..Len(gaps)] ==
          IF n = 0 THEN c
          ELSE Append(grown[n - 1], [gap |-> gaps[n], bits |-> Expected(grown[n - 1])])
    IN grown[Len(gaps)]

\* The blocks a fork may have above height f, told by their gaps.
ForkGaps(f) == UNION {[1..n -> Gaps] : n \in 1..(MaxLen - f) \cap 1..MaxFork}

\* attemptReorg: the blocks above height f give way to more work.  (Bound: the
\* fork's blocks are of peers who follow the rule; attemptReorg does not check
\* that.)
Reorg(f, gaps) ==
    LET common == SubSeq(chain, 1, f)
        new == Grown(common, gaps)
    IN /\ FollowsRule(common)
       /\ Work(new) > Work(chain)
       /\ chain' = new
       /\ difficultyBits' = RecalcBits(new)
       /\ lastAdjustmentHeight' = (IF ResetsCache(new) THEN 0 ELSE lastAdjustmentHeight)
       /\ settled' = FALSE
       /\ UNCHANGED lastAdjustmentBits

\* NewBlockchain and SetStore, the chain on disk being the one in memory: a new
\* object's fields, then the recalculation.
Restart ==
    /\ difficultyBits' = RecalcBits(chain)
    /\ lastAdjustmentHeight' = 0
    /\ lastAdjustmentBits' = 0
    /\ settled' = FALSE
    /\ UNCHANGED chain

Next ==
    \/ GetDifficulty
    \/ \E gap \in Gaps : AppendBlock(gap)
    \/ \E f \in 0..Len(chain) : \E gaps \in ForkGaps(f) : Reorg(f, gaps)
    \/ Restart

Spec == Init /\ [][Next]_vars
-----------------------------------------------------------------------------
(* Properties                                                              *)

\* Once a block was appended after the last recalculation, or none was ever
\* made, the incremental computation (NextBits) demands of the next block what
\* the rule demands, whoever read the difficulty before and how often.
SettledAgrees == settled => NextBits = Expected(chain)

\* Below the fork height, and at it, a recalculated node demands it at once
\* (recalcLegacyDifficulty, recalcLWMADifficulty with an empty window).
LegacyRecalcAgrees == Height <= DAAForkHeight => NextBits = Expected(chain)

\* Above it, a recalculated node is at most one bit off (recalcLWMADifficulty
\* leaves an adjusted difficulty, and the next read adjusts it again).
RecalcOneBitOff == NextBits - Expected(chain) \in -1..1

\* Reading the difficulty does not change what the next read returns
\* (GetCurrentDifficultyBitsLocked writes what it read).
ReadStable == [][GetDifficulty => NextBits' = NextBits]_vars

\* Had the last block taken longer, the next would not be harder (the clamps
\* and weights of both algorithms).
SlowerNeverHarder ==
    chain # <<>> =>
      LET last == chain[Len(chain)]
      IN \A gap \in {g \in Gaps : g > last.gap} :
           Expected([chain EXCEPT ![Len(chain)] = [last EXCEPT !.gap = gap]]) <= Expected(chain)
=============================================================================
