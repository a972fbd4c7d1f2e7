SPECIFICATION FairSpec
CONSTANTS
    hudson = hudson
    volkov = volkov
    Humans = {h1, h2}
    AINames <- OneName
    NoOwner = NoOwner
    MaxTeam = 2
    MaxMembers = 2
    Conns = {s1}
    NoConn = NoConn
    RoomTimer = RoomTimer
    NoRoom = NoRoom
    NoGame = NoGame
    NoState = NoState
    MaxGames = 1
    MaxTimers = 1
    MaxFailures = 1
    MaxCrashes = 1
CHECK_DEADLOCK FALSE
INVARIANTS CacheIsStored StoredIsRestorable
PROPERTIES HostHandedOver AbandonedRoomCloses
