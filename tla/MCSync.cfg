SPECIFICATION Spec
CONSTANTS
    a = a
    b = b
    Pair <- MCPair
    Bits = {1, 2}
    InitChains <- MCInitChains
    MaxHeaders = 4
    MaxBatch = 4
    ScanBack = 5
    SearchBack = 3
    SearchAhead = 4
    MayDisagree = TRUE
    BufferSize = 2
    MaxMined = 2
    MaxReconnects = 1
CHECK_DEADLOCK FALSE
INVARIANTS
    FlagHasCause
PROPERTIES
    WorkGrows
    SyncEnds
    CatchUp
