SPECIFICATION Spec
CONSTANTS
    YMod = 16384
    StartY = 99
    JumpLength = 150
    Gap = 100
    Threshold = 470
    CatchUp = 50
    ConeInit = 200
    Hop = 400
    ScreenBottom = 479
    RelMod = 1024
    CarTop = 11
    CarBottom = 85
    ConeTop = 23
    ConeBottom = 5
    CountdownFrames = 100
    HeldKeys <- JumpsOf1
    ConeRows <- MiddleOrOuter
    Horizon = 1600
INVARIANT CrashIsTouch
