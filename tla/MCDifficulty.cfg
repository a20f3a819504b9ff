SPECIFICATION Spec
CONSTANTS
    Gaps <- MCGaps
    BlocksPerAdjustment = 2
    DAAWindow = 2
    TargetBlockTime = 10
    MinDifficultyBits = 2
    MaxDifficultyBits = 6
    GenesisBits = 4
    DAAForkHeight = 5
    MaxLen = 6
    MaxFork = 2
INVARIANTS
    SettledAgrees
    RecalcOneBitOff
    SlowerNeverHarder
