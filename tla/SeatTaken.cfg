SPECIFICATION Spec
CONSTANTS
    hudson = hudson
    volkov = volkov
    Humans = {h1, h2}
    AINames <- OneName
    NoOwner = NoOwner
    MaxTeam = 2
    MaxMembers = 2
    Conns = {s1, s2}
    NoConn = NoConn
    RoomTimer = RoomTimer
    NoRoom = NoRoom
    NoGame = NoGame
    NoState = NoState
    MaxGames = 0
    MaxTimers = 1
    MaxFailures = 0
    MaxCrashes = 0
CHECK_DEADLOCK FALSE
SYMMETRY Symmetric
PROPERTY LobbySeatKept
