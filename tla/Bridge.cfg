SPECIFICATION Spec
CONSTANTS
    Codes = {c1, c2}
    NoCode = NoCode
    Clues = {hint, dashes}
    Dashes = dashes
    NoClues = NoClues
    Size <- MCSize
    MaxRounds = 3
    AI <- OneAI
    CanCrash = TRUE
    CanStop = FALSE
CONSTRAINT ScoreIsLeft
CHECK_DEADLOCK FALSE
SYMMETRY Symmetric
INVARIANTS BridgeTypeOK SendNeverBlocks TakenInItsRound SavedTimeoutsSettled
PROPERTIES ImplementsMatch SavedStands
