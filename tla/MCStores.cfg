SPECIFICATION MCSpec
CONSTANTS
    a = a
    b = b
    Block = {a, b}
    Mined = {a}
    Fork <- MCFork
    MaxHeight = 3
    NoSave = NoSave
    Torn = Torn
    Savers = {"autosave", "payouts", "handler"}
    Data = {1, 2, 3}
    New = 1
    Size <- MCSize
CHECK_DEADLOCK FALSE
INVARIANTS
    NeverTorn
    PowerSafe
PROPERTIES
    ImplementsSafeStore
    ImplementsSafeDatabase
