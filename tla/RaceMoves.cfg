SPECIFICATION Spec
CONSTANTS
    YMod = 256
    StartY = 1
    JumpLength = 3
    Gap = 2
    Threshold = 5
    CatchUp = 1
    ConeInit = 4
    Hop = 6
    ScreenBottom = 6
    RelMod = 16
    CarTop = 0
    CarBottom = 3
    ConeTop = 2
    ConeBottom = 0
    CountdownFrames = 2
    HeldKeys <- OneEach
    ConeRows <- LeftOnly
    Horizon = 15
INVARIANT TypeOK
INVARIANT TrailBound
INVARIANT ConesInReach
INVARIANT OneRow
PROPERTY ScrollBackBounded
PROPERTY NoCreep
INVARIANT CollisionMeaning
INVARIANT CountdownSafe
