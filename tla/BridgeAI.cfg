SPECIFICATION RestoredFairSpec
CONSTANTS
    Codes = {c1, c2}
    NoCode = NoCode
    Clues = {hint, dashes}
    Dashes = dashes
    NoClues = NoClues
    Size <- MCSize
    MaxRounds = 3
    AI <- TeamAI
    CanCrash = FALSE
    CanStop = TRUE
CHECK_DEADLOCK FALSE
INVARIANTS GuessesStand ClosedIsSettled
PROPERTIES RestoredMatch GameComesToAnEnd
