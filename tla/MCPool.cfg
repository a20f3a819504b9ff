SPECIFICATION Spec
CONSTANTS
    a = a
    b = b
    Workers <- MCWorkers
    Rewards = {10}
    FeePercent = 10
    MinPayout = 5
    BlockBits = 5
    MinWindow = 1
    MaxWindow = 1
    MaxHeight = 2
    MaxShares = 2
    MaxAutosaves = 1
    MaxRestarts = 1
CHECK_DEADLOCK FALSE
SYMMETRY Symmetric
INVARIANTS
    BooksBalance
    CreditsBacked
    BlocksCredited
    PaidOnce
    CleanStopSaves
