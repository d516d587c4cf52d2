SPECIFICATION HSpec
CONSTANTS
    Bucket = 3
    Base = 2
    DigitMod = 3
    StartY = 5
    Moves <- MCMoves
    Horizon = 20
INVARIANT TypeOK
INVARIANT FirstScoreExact
INVARIANT SecondScoreBounded
INVARIANT DigitsDecimal
