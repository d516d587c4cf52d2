SPECIFICATION HSpec
CONSTANTS
    NoKey = NoKey
    ENTER = ENTER
    GRAVE = GRAVE
    Other = Other
    Keycodes <- MCKeycodes
    ResultsFrames = 4
    AnimStart = 230
    AnimStep = 2
    AnimFrames = 4
INVARIANT WinnerSurvived
