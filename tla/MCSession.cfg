SPECIFICATION MCSpec
CONSTANTS
    Codes = {c1}
    NoCode = NoCode
    Clues = {hint}
    NoClues = NoClues
    Size <- MCSize
    MaxRounds = 6
    Clients = {k1, k2, k3}
    NoClient = NoClient
    Players = {p1, p2}
    NoPlayer = NoPlayer
    Slots = 1
    MaxLines = 2
    MySeats <- AnySeat
    Matches <- LongOrTwo
    Wire = 1
    Warm = 1
CHECK_DEADLOCK FALSE
INVARIANTS
    TypeOK
    TokensRight
    SnapshotsAccepted
    TurnsRotate
    PlayersAreReached
    KeepsItsSeat
PROPERTIES
    GoneIsNoticed
    PageFollows
    PageSettles
    CanvasIsCurrent
