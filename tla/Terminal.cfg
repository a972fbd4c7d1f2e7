SPECIFICATION TerminalSpec
CONSTANTS
    MaxTexts = 2
    MaxBeats = 3
    MaxRooms = 2
    MaxGames = 2
    MaxCuts = 1
    MaxAsks = 2
    MaxJoins = 2
    MaxLinks = 3
    Mids = {m1, m2}
    MaxCalls = 2
    MaxPlans = 3
    Gates = 2
    MaxEdits = 1
    MaxWire = 2
    MaxGestures = 3
    MaxUndo = 2
    Hinge = 2
    Paper = 5
    MaxNotes = 3
    Digits = {1, 2, 3}
    Places = 2
CHECK_DEADLOCK FALSE
INVARIANTS
    DeskIsKept
    VoiceByTheRules
    TableIsTrue
PROPERTIES
    EntriesStand
