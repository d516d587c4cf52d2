------------------------------- MODULE Random -------------------------------
(***************************************************************************)
(* The rows of cones (random.sv, as Draw_game clocks it): a shift register *)
(* with linear feedback that moves once a frame and is held at its seed    *)
(* while no game is on, a counter that picks every 252nd of its values,    *)
(* and a latch for the value picked, which nothing resets.                 *)
(*                                                                         *)
(* The latch is open all through the frame of the pick, and closes on the  *)
(* clock edge on which the register shifts on.  Whether one of its bits    *)
(* still takes the shifted value depends on the delays of the build.       *)
(***************************************************************************)
EXTENDS Integers, FiniteSets

CONSTANTS
    Width,          \* 13
    Taps,           \* {12, 3, 2, 0}
    Seed,           \* 13'hF, the positions of its ones: {0, 1, 2, 3}
    LastCount       \* 251

Bits == 0 .. Width - 1
Lanes == 0 .. 2

ASSUME RandomAssumption ==
    /\ Width \in Nat /\ Width > 3
    /\ Taps \subseteq Bits /\ Width - 1 \in Taps
    /\ Seed \subseteq Bits /\ Seed # {}
    /\ LastCount \in Nat \ {0}
ASSUME CountFits == LastCount + 1 < 2^26    \* its 26 bits never wrap

VARIABLES
    DrawGame,       \* a game is on
    random,         \* the positions of the ones in the register
    count,
    random_done,    \* the latch, likewise
    late            \* the bits of the latch that close late, in this build
vars == <<DrawGame, random, count, random_done, late>>

\* Three bits remain of random % 8; lane 0 takes the highest of them.
Low(bits) == bits \cap Lanes
Row == {l \in Lanes : 2 - l \in random_done}

Odd(bits) == Cardinality(bits) % 2 = 1
\* Faulty variants: the highest bit is lost; the taps before it are off by one.
ShiftOut == {b + 1 : b \in random \ {Width - 1}}
ShiftOneTap ==
    {b + 1 : b \in random \ {Width - 1}}
        \cup (IF Odd(random \cap {Width - 1, 0, 1}) THEN {0} ELSE {})
Shift(bits) ==
    {b + 1 : b \in bits \ {Width - 1}} \cup (IF Odd(bits \cap Taps) THEN {0} ELSE {})
random_next == Shift(random)

Picking == count = LastCount

\* The latch closes on the value it was open for, but for the late bits; or it
\* opens, or is open for the next value; or it is closed.
Latch(next, opens) ==
    random_done' =
        IF opens THEN Low(next)
        ELSE IF Picking THEN (random_done \ late) \cup (Low(next) \cap late)
        ELSE random_done

TypeOK ==
    /\ DrawGame \in BOOLEAN
    /\ random \subseteq Bits
    /\ count \in 0 .. LastCount
    /\ random_done \subseteq Lanes /\ late \subseteq Lanes

-----------------------------------------------------------------------------
\* What the latch holds at power-up is anything.
Init ==
    /\ DrawGame = FALSE
    /\ random = Seed /\ count = 0
    /\ random_done \in SUBSET Lanes
    /\ late \in SUBSET Lanes

CountOn == count' = IF Picking THEN 0 ELSE count + 1

FrameEdge ==
    /\ DrawGame
    /\ random' = random_next
    /\ CountOn
    /\ Latch(random_next, count' = LastCount)
    /\ UNCHANGED <<DrawGame, late>>

StartGame ==
    /\ ~DrawGame /\ DrawGame' = TRUE
    /\ UNCHANGED <<random, count, random_done, late>>

\* Faulty variant: the count goes on where the last game left it.
LeaveGameCounting ==
    /\ DrawGame /\ DrawGame' = FALSE
    /\ random' = Seed
    /\ Latch(Seed, Picking)
    /\ UNCHANGED <<count, late>>
\* The reset, ~DrawGame, is asynchronous.
LeaveGame ==
    /\ DrawGame /\ DrawGame' = FALSE
    /\ random' = Seed /\ count' = 0
    /\ Latch(Seed, FALSE)
    /\ UNCHANGED late

Next == FrameEdge \/ StartGame \/ LeaveGame

Spec == Init /\ [][Next]_vars
-----------------------------------------------------------------------------
\* "An LFSR cannot have an all 0 state" (random.sv:17): the register never gets
\* into the state it would not get out of, after which there were no more cones.
NeverStuck == random # {}
=============================================================================
