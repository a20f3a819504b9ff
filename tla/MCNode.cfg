SPECIFICATION Spec
CONSTANTS
    Addr <- MCAddr
    Tx <- MCTx
    Worker = {auto}
    MinerAddress = "m"
    OwnSig = "own"
    PeerOffer <- MCPeerOffer
    System = "SYSTEM"
    Int64Limit = 64
    MinFee = 1
    InitialReward = 8
    HalvingInterval = 2
    MinReward = 1
    NoJob = NoJob
    Bits = {1, 3}
    OwnStamp = {1}
    GenesisBits = 1
    MaxHeight = 3
INVARIANTS
    NoTxTwice
    IndexExact
    CacheNotStale
    DiskKeepsChain
    SupplyOnSchedule
    PeerSpendsCovered
PROPERTY WorkOnlyGrows
