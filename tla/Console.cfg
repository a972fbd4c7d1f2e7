SPECIFICATION ConsoleSpec
CONSTANTS
    Fibers = {f1, f2}
    MaxPrinted = 2
    MaxDisks = 2
    Palettes = {p1, p2, p3}
    Secrets = {k1, k2}
    MaxUpdates = 5
    MaxSounds = 1
    MaxVoices = 2
    MaxLoads = 2
    People = {"p1", "p2"}
    Rooms = {"r1", "r2"}
    MaxScores = 2
    MaxTurns = 5
    Duration = 2
    Notices = {"n1", "n2"}
    MaxChanges = 2
    Pointers = {"mouse", "pen"}
    MaxPulls = 6
    Modules = {m1, m2}
    Inks = {i1, i2}
    Words = {w1, w2}
    MaxFeeds = 3
CHECK_DEADLOCK FALSE
INVARIANTS
    SecretsStayDark
    EffectsAnswerEvents
    SoundsAreOfNow
PROPERTIES
    MovesAreWhole
    ConsoleSettles
