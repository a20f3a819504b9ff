SPECIFICATION Spec
CONSTANTS
    Txs = {"t"}
    Spawned = {"spawned"}
    Threads = {"thread"}
    MaxBlocks = 2
    MaxReorgs = 1
CHECK_DEADLOCK FALSE
INVARIANTS
    StaleRoundHasCause
    ConnectedIsUnmined
PROPERTIES
    PendingMined
    StaleTemplateEnds
