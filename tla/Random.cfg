\* The program's register, counter and seed.
SPECIFICATION MCSpec
CONSTANTS
    Width = 13
    Taps <- RealTaps
    Seed <- RealSeed
    LastCount = 251
    MaxPicks = 5
INVARIANT NeverStuck
INVARIANT EveryLaneVaries
INVARIANT GamesAlike
