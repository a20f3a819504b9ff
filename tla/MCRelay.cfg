SPECIFICATION RelaySpec
CONSTANTS
    Nodes = {"a", "b", "c"}
    Neighbours <- MCNeighbours
    Payments <- MCPayments
    GivenTo <- MCGivenTo
    Funds <- MCFunds
    SendBuffer = 2
    Strikes = 2
    MaxBlocks = 1
    MaxMeetings = 1
CHECK_DEADLOCK FALSE
PROPERTIES
    PenaltyHasCause
    PaymentsSpread
