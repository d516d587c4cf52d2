------------------------------ MODULE CrazyTaxi ------------------------------
(***************************************************************************)
(* The game as the top level wires it (lab8.sv): the screen state machine, *)
(* the race and the scores on one set of registers and two clocks.  The    *)
(* state machine tells the race whether a game is on, the race tells it    *)
(* who has crashed, and both read the same keycode port.  Each part has    *)
(* left the others open; here they are closed against each other, and each *)
(* part's view of the whole is shown to be a behaviour of its own module.  *)
(***************************************************************************)
EXTENDS Integers

CONSTANTS
    NoKey, ENTER, GRAVE, Keycodes,                          \* see GameControl
    ResultsFrames, AnimStart, AnimStep, AnimFrames,
    YMod, StartY, JumpLength, Gap,                          \* see MoveCar
    Threshold, CatchUp, ConeInit, Hop, ScreenBottom, RelMod,        \* see Race
    CarTop, CarBottom, ConeTop, ConeBottom, CountdownFrames, ConeRows, Horizon,
    Bucket, Base, DigitMod,                                 \* see Score
    KeyOf           \* the key of each player for each command

VARIABLES
    KEY0, Keycode, Reset_h, curr_state, enter_released, key_settled,
    show_results_count, Car1Y, frame_settled,
    car, speed, progress, count, obstacle_y, Exists, ded,
    y_old, points
onClk   == <<KEY0, Keycode, Reset_h, curr_state, enter_released, key_settled>>
road    == <<car, speed, progress, count, obstacle_y, Exists, ded>>
scores  == <<y_old, points>>
vars == <<onClk, show_results_count, Car1Y, frame_settled, road, scores>>

Players == {1, 2}

\* The commands both players give with the keys in the four slots.
Held(keycode) ==
    [p \in Players |-> {c \in DOMAIN KeyOf[p] :
                          \E s \in DOMAIN keycode : keycode[s] = KeyOf[p][c]}]

\* What the race is told of the screens.
screen == CASE curr_state = "IN_GAME" -> "game"
            [] curr_state = "RESULTS" -> "results"
            [] OTHER -> "off"
stage == IF curr_state # "IN_GAME" THEN "off"
         ELSE IF count < CountdownFrames THEN "countdown" ELSE "race"

Control == INSTANCE GameControl WITH car1_ded <- ded[1], car2_ded <- ded[2]
Road    == INSTANCE Race WITH HeldKeys <- {Held(k) : k \in Keycodes}
Tally   == INSTANCE Score WITH car_y <- [p \in Players |-> car[p].y],
                               Moves <- {0, 1, JumpLength},
                               Horizon <- Horizon + JumpLength

\* What the parts ask of their constants, and that the keys are those of the four
\* commands.
ASSUME TaxiAssumption ==
    /\ Control!ControlAssumption
    /\ Road!MoveCarAssumption /\ Road!RaceAssumption /\ Road!RoadAssumption
    /\ Road!BodyAssumption /\ Road!StartAssumption
    /\ Tally!ScoreAssumption
    /\ \A p \in Players : DOMAIN KeyOf[p] \subseteq Road!Commands

-----------------------------------------------------------------------------
Init ==
    /\ curr_state = "START"
    /\ Road!Init
    /\ Tally!Init
    /\ Control!Init

ClkTick == UNCHANGED <<road, scores>> /\ Control!ClkTick

\* Every part reads the registers of the frame before, the race also the keys.
FrameEdge ==
    /\ UNCHANGED onClk
    /\ Road!DrawGame => \A p \in Players : car[p].y <= Horizon
    /\ Road!MoveCars(Held(Keycode))
    /\ \E row \in ConeRows : Road!PlaceCones(row)
    /\ Road!Scroll /\ Road!Countdown /\ Road!DetectCrashes
    /\ IF stage = "race" THEN Tally!Count ELSE Tally!Clear
    /\ Control!FrameEdge

KeycodeWrite == UNCHANGED <<road, scores>> /\ Control!KeycodeWrite
ResetButton  == UNCHANGED <<road, scores>> /\ Control!ResetButton

Next == ClkTick \/ FrameEdge \/ KeycodeWrite \/ ResetButton

Spec == Init /\ [][Next]_vars
-----------------------------------------------------------------------------
\* The state machine shows the race what Race takes for granted: games begin only
\* after the frames that set everything back, a crash is acted upon before the next
\* frame, and results follow a crash.  What is proved of Race holds of the whole.
Racing == Road!Spec

\* The cars give the scores what Score takes for granted: in the race they stand,
\* drive or jump, outside of it they wait at the start.
Scoring == Tally!Spec

\* Every game, also one begun within two frames of the end of another, starts from
\* scratch: cars, cones, screen, countdown, crashes and scores, each set back by its
\* own test of the screen on the frame clock, are all back when it does.
FreshGame ==
    [][curr_state # "IN_GAME" /\ curr_state' = "IN_GAME" =>
          /\ progress = 0 /\ speed = 0 /\ count = 0
          /\ \A p \in Players : /\ car[p].y = StartY /\ car[p].lane = Road!StartLane(p)
                                /\ ~ded[p]
                                /\ y_old[p] = 0 /\ points[p] = Tally!Zero
          /\ \A l \in Road!Lanes : obstacle_y[l] = ConeInit]_vars
=============================================================================
