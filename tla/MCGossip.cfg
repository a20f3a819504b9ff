SPECIFICATION Spec
CONSTANTS
    Nodes = {"seed", "late", "node"}
    Seeds = {"seed", "late"}
    AutoUpdate = {"node", "late"}
    Neighbours <- MCNeighbours
    FirstVersion <- MCFirstVersion
    MaxVersion = 2
    TTL = 8
    FanOut = 5
    MaxFaults = 2
    MaxRestarts = 1
    MaxAnnouncements = 1
    CensusTTL = 3
    CensusFanOut = 3
    MaxTime = 3
    MaxEmitted = 3
    MaxRequests = 1
CHECK_DEADLOCK FALSE
INVARIANTS
    Recoverable
PROPERTIES
    NeverRevived
    PeersUpdate
