SPECIFICATION AddrBookSpec
CONSTANTS
    seed = seed
    peer = peer
    Addrs = {seed, peer}
    Seeds = {seed}
    Reachable = {seed, peer}
    Gossiped = {peer}
    Bannable = {peer}
    MaxAddrBook = 1
    MinPeers = 2
    MaxOutbound = 2
    MaxEvents = 3
INVARIANTS
    SavedBansHold
PROPERTIES
    FindsPeers
