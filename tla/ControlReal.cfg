SPECIFICATION HSpec
CONSTANTS
    NoKey = NoKey
    ENTER = ENTER
    GRAVE = GRAVE
    Other = Other
    Keycodes <- MCKeycodes
    ResultsFrames = 300
    AnimStart = 230
    AnimStep = 2
    AnimFrames = 100
INVARIANT TypeOK
INVARIANT TimerFresh
INVARIANT ResultsHaveVerdict
INVARIANT CrashEndsGame
PROPERTY CleanStart
PROPERTY VerdictStable
PROPERTY OnePressOneScreen
PROPERTY ResultsEnd
PROPERTY AnimationEnds
PROPERTY CrashLeavesGame
PROPERTY ImplementsMatch
