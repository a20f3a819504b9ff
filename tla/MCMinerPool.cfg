SPECIFICATION MinerPoolSpec
CONSTANTS
    alice = alice
    bob = bob
    Clients <- MCClients
    Sessions = {1, 2}
    Distributable = 6
    MaxTip = 2
    MaxShares = 2
SYMMETRY AlikeClients
CHECK_DEADLOCK FALSE
INVARIANTS
    CreditsBounded
    GivenCurrentJob
