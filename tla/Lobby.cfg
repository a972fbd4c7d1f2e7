SPECIFICATION Spec
CONSTANTS
    hudson = hudson
    volkov = volkov
    Humans = {h1, h2}
    AINames <- OneName
    NoOwner = NoOwner
    MaxTeam = 2
    MaxMembers = 2
    Conns = {s1, s2}
    NoConn = NoConn
    RoomTimer = RoomTimer
    NoRoom = NoRoom
    NoGame = NoGame
    NoState = NoState
    MaxGames = 2
    MaxTimers = 1
    MaxFailures = 0
    MaxCrashes = 1
CHECK_DEADLOCK FALSE
SYMMETRY Symmetric
INVARIANTS LobbyTypeOK OnlineIsConnected AbsentAreReleased EmptyRoomExpires RestartFindsAll RoomKeepsOrder
PROPERTY OnlyTheLastLeaves
