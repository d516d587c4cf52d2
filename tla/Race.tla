-------------------------------- MODULE Race --------------------------------
(***************************************************************************)
(* The race (Draw_game.sv with Move_car, Draw_obstacle and Collision): two *)
(* cars on three lanes, a screen that scrolls after them, one row of cones *)
(* that hops ahead whenever the screen has passed it, and the test for     *)
(* crashes.  Every register moves on the frame clock, so one frame is one  *)
(* action, and every right-hand side reads the registers of the frame      *)
(* before.  Screens come and go between frames, as GameControl moves them. *)
(***************************************************************************)
EXTENDS MoveCar

CONSTANTS
    Threshold,      \* 470: how far up the screen a car may drive
    CatchUp,        \* 50: where the screen then puts the car behind
    ConeInit, Hop,  \* 200 and 400: the first row of cones, and the next ones
    ScreenBottom, RelMod,       \* 479 and 2^10: positions on the screen
    CarTop, CarBottom,          \* 11 and 85: the body of a car on the screen
    ConeTop, ConeBottom,        \* 23 and 5: the body of a cone, upwards
    CountdownFrames,            \* 100
    HeldKeys,       \* what the two players may hold in a frame
    ConeRows,       \* the rows of cones the random generator produces
    Horizon         \* bound on the runs: no frame once a car has passed it

Players == {1, 2}
Other(p) == 3 - p
StartLane(p) == IF p = 1 THEN 0 ELSE 2

ASSUME RaceAssumption ==
    /\ Threshold \in Nat /\ CatchUp \in Nat
    /\ ConeInit \in Nat /\ Hop \in Nat \ {0}
    /\ ScreenBottom \in Nat /\ RelMod \in Nat \ {0}
    /\ CarTop \in Nat /\ CarBottom \in Nat
    /\ ConeTop \in Nat /\ ConeBottom \in Nat
    /\ CountdownFrames \in Nat
    /\ HeldKeys \subseteq [Players -> SUBSET Commands]
    /\ ConeRows \subseteq SUBSET Lanes
    /\ ConeInit < YMod /\ Hop < YMod /\ YMod % RelMod = 0
    /\ Horizon \in Nat

\* How the code's numbers lie to each other, as far as the proofs need it, and
\* that no position overflows before the horizon.
ASSUME RoadAssumption ==
    /\ StartY <= Threshold /\ StartY <= Horizon
    /\ JumpLength <= Threshold + CatchUp
    /\ JumpLength + JumpLength <= Hop
    /\ CountdownFrames > 0
    /\ Horizon + JumpLength + JumpLength + CatchUp + Threshold + Hop + Gap < YMod

\* A car is at least as long as a cone, the screen far longer.
ASSUME BodyAssumption ==
    /\ ConeBottom <= ConeTop /\ CarTop + ConeTop <= CarBottom + ConeBottom
    /\ CarBottom + ConeTop < RelMod

VARIABLES
    screen,         \* "off", "game" (DrawGame) or "results" (DrawWinner)
    car,            \* Move_car, for each player
    speed, progress, count,     \* Draw_game
    obstacle_y, Exists,         \* Draw_obstacle, for each lane
    ded                         \* Collision, for each player
vars == <<screen, car, speed, progress, count, obstacle_y, Exists, ded>>

DrawGame   == screen = "game"
DrawWinner == screen = "results"
transition == count < CountdownFrames
hold       == ~DrawGame \/ transition
GameOver   == \E p \in Players : ded[p]

-----------------------------------------------------------------------------
(* Positions on the screen, ten bits wide, growing downwards. *)

OnScreen(y) == (ScreenBottom - (y - progress)) % RelMod

\* The body of a car at carY and that of a cone at coneY, both on the screen,
\* meet: one of the two is within the other, or overlaps it from one side.
Meet(carY, coneY) ==
    LET top_car == (carY + CarTop) % RelMod
        bottom_car == (carY + CarBottom) % RelMod
        top_cone == (coneY - ConeTop) % RelMod
        bottom_cone == (coneY - ConeBottom) % RelMod
    IN  \/ top_car < top_cone /\ bottom_car > bottom_cone
        \/ top_car > top_cone /\ top_car < bottom_cone
        \/ bottom_car > top_cone /\ bottom_car < bottom_cone

\* Faulty variant: only a cone that lies within the car counts.
HitsInside(p) ==
    /\ Exists[car[p].lane]
    /\ OnScreen(car[p].y) + CarTop < OnScreen(obstacle_y[car[p].lane]) - ConeTop
    /\ OnScreen(car[p].y) + CarBottom > OnScreen(obstacle_y[car[p].lane]) - ConeBottom
Hits(p) ==
    /\ Exists[car[p].lane]
    /\ Meet(OnScreen(car[p].y), OnScreen(obstacle_y[car[p].lane]))

\* Where the cars wait for the start there are no cones.
ASSUME StartAssumption ==
    ~Meet((ScreenBottom - StartY) % RelMod, (ScreenBottom - ConeInit) % RelMod)

-----------------------------------------------------------------------------
Init ==
    /\ screen = "off"
    /\ car = [p \in Players |->
                [lane |-> StartLane(p), y |-> StartY, jump_released |-> TRUE,
                 left_released |-> TRUE, right_released |-> TRUE]]
    /\ speed = 0 /\ progress = 0 /\ count = 0
    /\ obstacle_y = [l \in Lanes |-> ConeInit]
    /\ \E row \in ConeRows : Exists = [l \in Lanes |-> l \in row]
    /\ ded = [p \in Players |-> FALSE]

MoveCars(held) ==
    car' = [p \in Players |->
              Drive(car[p], car[Other(p)], held[p], speed, hold, StartLane(p))]

\* Faulty variants: the screen follows the car in front; it follows at once.
ProgressOfLeader ==
    IF \E p \in Players : car[p].y > Wrap(progress + Threshold)
    THEN Wrap(progress + Threshold) ELSE progress
ProgressAtOnce ==
    IF car[1].y > progress THEN Wrap(car[2].y + CatchUp)
    ELSE IF car[2].y > progress THEN Wrap(car[1].y + CatchUp)
    ELSE progress
progress_in ==
    IF car[1].y > Wrap(progress + Threshold) THEN Wrap(car[2].y + CatchUp)
    ELSE IF car[2].y > Wrap(progress + Threshold) THEN Wrap(car[1].y + CatchUp)
    ELSE progress

Scroll ==
    /\ progress' = IF hold THEN 0 ELSE progress_in
    /\ speed' = IF hold THEN 0 ELSE 1

\* The counter is held at the end of the countdown; in the code it runs on, and
\* 2^25 frames (six days) into one game it wraps and the countdown comes back.
Countdown ==
    count' = IF ~DrawGame THEN 0
             ELSE IF transition THEN count + 1 ELSE count

\* Faulty variants: the row starts at the bottom; it hops too far; it is not set
\* back; a lane without a cone stays behind.
HopFromBottom(l) ==
    IF ~DrawGame THEN 0
    ELSE IF obstacle_y[l] < progress THEN Wrap(obstacle_y[l] + Hop)
    ELSE obstacle_y[l]
HopToScreen(l) ==
    IF ~DrawGame THEN ConeInit
    ELSE IF obstacle_y[l] < progress THEN Wrap(progress + Hop + Hop)
    ELSE obstacle_y[l]
HopUnreset(l) ==
    IF obstacle_y[l] < progress THEN Wrap(obstacle_y[l] + Hop)
    ELSE obstacle_y[l]
HopIfPresent(l) ==
    IF ~DrawGame THEN ConeInit
    ELSE IF Exists[l] /\ obstacle_y[l] < progress THEN Wrap(obstacle_y[l] + Hop)
    ELSE obstacle_y[l]
HopCone(l) ==
    IF ~DrawGame THEN ConeInit
    ELSE IF obstacle_y[l] < progress THEN Wrap(obstacle_y[l] + Hop)
    ELSE obstacle_y[l]

\* A cone's presence is drawn anew together with its position.
PlaceCones(row) ==
    /\ obstacle_y' = [l \in Lanes |-> HopCone(l)]
    /\ Exists' = [l \in Lanes |-> IF ~DrawGame \/ obstacle_y[l] < progress
                                  THEN l \in row ELSE Exists[l]]

DetectCrashes ==
    ded' = [p \in Players |-> IF DrawGame THEN Hits(p)
                              ELSE DrawWinner /\ ded[p]]

\* One frame.  A game with a crash in it does not live to its next frame (see
\* CrashEndsGame of GameControl).
Frame ==
    /\ ~(DrawGame /\ GameOver)
    /\ DrawGame => \A p \in Players : car[p].y <= Horizon
    /\ \E held \in HeldKeys : MoveCars(held)
    /\ \E row \in ConeRows : PlaceCones(row)
    /\ Scroll
    /\ Countdown
    /\ DetectCrashes
    /\ UNCHANGED screen

race == <<car, speed, progress, count, obstacle_y, Exists, ded>>

\* The start animation is over; it took frames, which reset the race.
StartGame == screen = "off" /\ count = 0 /\ ~GameOver /\ screen' = "game" /\ UNCHANGED race

\* Somebody crashed.
ShowResults == DrawGame /\ GameOver /\ screen' = "results" /\ UNCHANGED race

\* The players quit, reset, or have seen the results.
LeaveGame == screen # "off" /\ screen' = "off" /\ UNCHANGED race

Next == Frame \/ StartGame \/ ShowResults \/ LeaveGame

Spec == Init /\ [][Next]_vars
-----------------------------------------------------------------------------
(* What the race promises, as long as no position overflows: Horizon keeps  *)
(* the runs clear of YMod.                                                  *)

\* Type invariant: both cars are in one of the three lanes.
TypeOK ==
    /\ screen \in {"off", "game", "results"}
    /\ car \in [Players -> Cars]
    /\ speed \in 0 .. 1
    /\ progress \in 0 .. YMod - 1
    /\ count \in 0 .. CountdownFrames
    /\ obstacle_y \in [Lanes -> 0 .. YMod - 1]
    /\ Exists \in [Lanes -> BOOLEAN]
    /\ ded \in [Players -> BOOLEAN]

\* The screen never leaves a car behind by more than a jump and the catch-up
\* distance: each car can come back on screen with two jumps.
TrailBound ==
    \A p \in Players : progress <= car[p].y + JumpLength + CatchUp

\* The screen scrolls back, when the car behind is the one it catches up with,
\* but never by more than a jump.
ScrollBackBounded ==
    [][DrawGame => progress' >= progress - JumpLength \/ progress' = 0]_vars

\* The row of cones stays near the screen: less than one hop (and a scroll-back)
\* above its bottom, and never so far below that hopping could not catch up.
ConesInReach ==
    \A l \in Lanes :
        /\ obstacle_y[l] = ConeInit \/ obstacle_y[l] < progress + Hop + JumpLength
        /\ progress <= obstacle_y[l] + Threshold + JumpLength + CatchUp

\* The three lanes' cones, each moved by an instance of its own, form one row.
OneRow == \A l, k \in Lanes : obstacle_y[l] = obstacle_y[k]

Close(a, b) ==
    a.lane = b.lane /\ a.y - b.y < Gap /\ b.y - a.y < Gap

\* Cars do not drive or turn into each other: they come within Gap of each other
\* in one lane only when one of them jumps there, both change lanes in the same
\* frame, or one is so near the start that its lower bound has wrapped.
NoCreep ==
    [][~Close(car[1], car[2]) /\ Close(car[1], car[2])'
          => \/ \E p \in Players : car'[p].y = car[p].y + JumpLength
             \/ \A p \in Players : car'[p].lane # car[p].lane
             \/ \E p \in Players : car[p].y < Gap]_vars

\* How far a car may be above (below) a cone in its lane and touch it.
BodyReach(d) == d > CarTop + ConeBottom /\ d < CarBottom + ConeTop

\* Neither body reaches over the end of the ten-bit positions: then its upper edge
\* would read as being below its lower one.
Whole(carY, coneY) == carY + CarBottom < RelMod /\ coneY >= ConeTop

\* The ten-bit comparisons of Collision decide what they are meant to decide, the
\* overlap of car and cone, up to a multiple of RelMod and with the exception of
\* the two distances at which one edge of the two meets exactly.
CollisionMeaning ==
    DrawGame => \A p \in Players :
        LET cone_y == obstacle_y[car[p].lane]
            d == (car[p].y - cone_y) % RelMod
        IN  Whole(OnScreen(car[p].y), OnScreen(cone_y)) =>
              (Hits(p) <=> /\ Exists[car[p].lane]
                           /\ BodyReach(d)
                           /\ d # CarTop + ConeTop /\ d # CarBottom + ConeBottom)

\* Nobody crashes before the countdown is over.
CountdownSafe == DrawGame /\ GameOver => ~transition

(* What a comment of the source says and the code does not do. *)

Touches(p) ==
    Exists[car[p].lane] /\ BodyReach(car[p].y - obstacle_y[car[p].lane])

\* "end game if a player crashes into obstacle" (Display_control): a car that is
\* found to crash touches a cone.
CrashIsTouch == DrawGame => \A p \in Players : Hits(p) => Touches(p)
=============================================================================
