SPECIFICATION Spec
CONSTANTS
    a = a
    b = b
    a1 = a1
    b2 = b2
    Nodes <- MCNodes
    Nonce <- MCNonce
    Addrs = {a1, b2}
    NodeAt <- MCNodeAt
    Named = {b2}
    Dials <- MCDials
    Rogues = {b}
    Conns = {1, 2}
    MaxDialers <- MCDialers
    MaxOutbound = 1
    MaxInbound = 1
    BanThreshold = 1
    MaxTroubles = 1
CHECK_DEADLOCK FALSE
INVARIANTS
    InboundBounded
    OutboundBounded
    LostOnlyIfDialledTwice
PROPERTIES
    OneSidedEnds
