SPECIFICATION Spec
CONSTANTS
    Codes = {c1, c2}
    NoCode = NoCode
    Clues = {hint, dashes}
    Dashes = dashes
    NoClues = NoClues
    Size <- MCSize
    MaxRounds = 1
    AI <- NoAI
    CanCrash = TRUE
    CanStop = FALSE
CHECK_DEADLOCK FALSE
INVARIANT GuessesStand
