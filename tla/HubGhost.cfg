SPECIFICATION FairSpec
CONSTANTS
    Clients = {c1}
    NoClient = NoClient
    Players = {p1}
    NoPlayer = NoPlayer
    Slots = 1
CHECK_DEADLOCK FALSE
PROPERTY ClosedLeaveTheRoom
