SPECIFICATION Spec
CONSTANTS
    NoKey = NoKey
    ENTER = ENTER
    GRAVE = GRAVE
    Keycodes <- MCKeycodes
    KeyOf <- MCKeyOf
    ResultsFrames = 2
    AnimStart = 1
    AnimStep = 128
    AnimFrames = 2
    YMod = 256
    StartY = 1
    JumpLength = 3
    Gap = 2
    Threshold = 5
    CatchUp = 1
    ConeInit = 4
    Hop = 6
    ScreenBottom = 6
    RelMod = 16
    CarTop = 0
    CarBottom = 3
    ConeTop = 2
    ConeBottom = 0
    CountdownFrames = 2
    ConeRows <- MCConeRows
    Horizon = 7
    Bucket = 3
    Base = 2
    DigitMod = 3
PROPERTY Racing
PROPERTY Scoring
PROPERTY FreshGame
