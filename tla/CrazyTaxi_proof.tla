--------------------------- MODULE CrazyTaxi_proof ---------------------------
(***************************************************************************)
(* The parts, wired to each other, still behave as their own modules say.  *)
(* What each module takes for granted of the others the others provide,    *)
(* for one reason: the way into a game leads through frames of the start   *)
(* animation, and such a frame sets everything back.  With that the        *)
(* theorems about the parts become theorems about the game.                *)
(***************************************************************************)
EXTENDS CrazyTaxi, TLAPS

\* The parts once more, with the theorems about them.
ControlP == INSTANCE GameControl_proof WITH
                car1_ded <- ded[1], car2_ded <- ded[2],
                Other <- NoKey, enter_seen_up <- TRUE
RoadP == INSTANCE Race_proof WITH HeldKeys <- {Held(k) : k \in Keycodes}

\* Beside the game, the scorekeepers of MCScore.
VARIABLES fair_old, fair
TallyP == INSTANCE Score_proof WITH car_y <- [p \in Players |-> car[p].y],
                                    Moves <- {0, 1, JumpLength},
                                    Horizon <- Horizon + JumpLength

-----------------------------------------------------------------------------
(* The two copies of a part are the same. *)

LEMMA SameControl ==
    /\ Control!Init <=> ControlP!Init
    /\ Control!ClkTick <=> ControlP!ClkTick
    /\ Control!FrameEdge <=> ControlP!FrameEdge
    /\ Control!KeycodeWrite <=> ControlP!KeycodeWrite
    /\ Control!ResetButton <=> ControlP!ResetButton
<1> USE DEF Control!Slots, ControlP!Slots, Control!AnimEnd, ControlP!AnimEnd,
            Control!StartGame, ControlP!StartGame,
            Control!StartTransition, ControlP!StartTransition,
            Control!DrawGame, ControlP!DrawGame, Control!DrawWinner, ControlP!DrawWinner,
            Control!FirstKey, ControlP!FirstKey,
            Control!TransitionDone, ControlP!TransitionDone,
            Control!GameOver, ControlP!GameOver,
            Control!StartPressed, ControlP!StartPressed,
            Control!ResultsOver, ControlP!ResultsOver,
            Control!next_state, ControlP!next_state,
            Control!ClockedState, ControlP!ClockedState, Control!AtRest, ControlP!AtRest,
            Control!NextCount, ControlP!NextCount,
            Control!ResultsCount, ControlP!ResultsCount,
            Control!Animation, ControlP!Animation,
            Control!FreeLatches, ControlP!FreeLatches,
            Control!HeldLatches, ControlP!HeldLatches,
            Control!ClearLatches, ControlP!ClearLatches,
            Control!CrashLatches, ControlP!CrashLatches
<1>1. Control!Init <=> ControlP!Init
  BY Zenon DEF Control!Init, ControlP!Init
<1>2. Control!ClkTick <=> ControlP!ClkTick
  BY Zenon DEF Control!ClkTick, ControlP!ClkTick
<1>3. Control!FrameEdge <=> ControlP!FrameEdge
  BY Zenon DEF Control!FrameEdge, ControlP!FrameEdge
<1>4. Control!KeycodeWrite <=> ControlP!KeycodeWrite
  BY Zenon DEF Control!KeycodeWrite, ControlP!KeycodeWrite
<1>5. Control!ResetButton <=> ControlP!ResetButton
  BY Zenon DEF Control!ResetButton, ControlP!ResetButton
<1> QED
  BY <1>1, <1>2, <1>3, <1>4, <1>5

LEMMA SameMatch ==
    /\ ControlP!M!Init <=> Control!M!Init
    /\ [ControlP!M!Next]_(ControlP!M!vars) <=> [Control!M!Next]_(Control!M!vars)
<1> USE DEF Control!scene, ControlP!scene, Control!InMatch, ControlP!InMatch,
            Control!Lost, ControlP!Lost, Control!M!vars, ControlP!M!vars
<1>1. ControlP!M!Init <=> Control!M!Init
  BY Zenon DEF Control!M!Init, ControlP!M!Init
<1>2. ControlP!M!Next <=> Control!M!Next
  BY Zenon DEF Control!M!Next, ControlP!M!Next, Control!M!Cut, ControlP!M!Cut,
         Control!M!Depart, ControlP!M!Depart, Control!M!Play, ControlP!M!Play,
         Control!M!Quit, ControlP!M!Quit, Control!M!Again, ControlP!M!Again,
         Control!M!Reset, ControlP!M!Reset, Control!M!Crash, ControlP!M!Crash,
         Control!M!Finish, ControlP!M!Finish, Control!M!Show, ControlP!M!Show,
         Control!M!End, ControlP!M!End
<1>3. Control!M!vars = ControlP!M!vars
  OBVIOUS
<1> QED
  BY <1>1, <1>2, <1>3

LEMMA SameRoad ==
    /\ Road!vars = RoadP!vars
    /\ Road!Init <=> RoadP!Init
    /\ Road!Frame <=> RoadP!Frame
    /\ Road!Next <=> RoadP!Next
<1> USE DEF Road!Players, RoadP!Players, Road!Other, RoadP!Other,
            Road!StartLane, RoadP!StartLane, Road!Lanes, RoadP!Lanes,
            Road!DrawGame, RoadP!DrawGame, Road!DrawWinner, RoadP!DrawWinner,
            Road!transition, RoadP!transition, Road!hold, RoadP!hold,
            Road!GameOver, RoadP!GameOver, Road!Wrap, RoadP!Wrap,
            Road!OnScreen, RoadP!OnScreen, Road!Meet, RoadP!Meet, Road!Hits, RoadP!Hits,
            Road!LeftLane, RoadP!LeftLane, Road!RightLane, RoadP!RightLane,
            Road!ToLeft, RoadP!ToLeft, Road!ToRight, RoadP!ToRight,
            Road!SideClear, RoadP!SideClear, Road!JumpClear, RoadP!JumpClear,
            Road!Jumps, RoadP!Jumps, Road!Brakes, RoadP!Brakes,
            Road!GoesLeft, RoadP!GoesLeft, Road!GoesRight, RoadP!GoesRight,
            Road!NextY, RoadP!NextY, Road!NextLane, RoadP!NextLane,
            Road!Drive, RoadP!Drive, Road!MoveCars, RoadP!MoveCars,
            Road!progress_in, RoadP!progress_in, Road!Scroll, RoadP!Scroll,
            Road!Countdown, RoadP!Countdown, Road!HopCone, RoadP!HopCone,
            Road!PlaceCones, RoadP!PlaceCones,
            Road!DetectCrashes, RoadP!DetectCrashes, Road!race, RoadP!race
<1>1. Road!vars = RoadP!vars
  BY Zenon DEF Road!vars, RoadP!vars
<1>2. Road!Init <=> RoadP!Init
  BY Zenon DEF Road!Init, RoadP!Init
<1>3. Road!Frame <=> RoadP!Frame
  BY Zenon DEF Road!Frame, RoadP!Frame
<1>4. /\ Road!StartGame <=> RoadP!StartGame
      /\ Road!ShowResults <=> RoadP!ShowResults
      /\ Road!LeaveGame <=> RoadP!LeaveGame
  BY Zenon DEF Road!StartGame, RoadP!StartGame, Road!ShowResults, RoadP!ShowResults,
               Road!LeaveGame, RoadP!LeaveGame
<1> HIDE DEF Road!race, RoadP!race
<1>5. Road!Next <=> RoadP!Next
  BY <1>3, <1>4, Zenon DEF Road!Next, RoadP!Next
<1> QED
  BY <1>1, <1>2, <1>3, <1>5

LEMMA SameTally ==
    /\ Tally!vars = TallyP!vars
    /\ Tally!Init <=> TallyP!Init
    /\ Tally!Next <=> TallyP!Next
<1> USE DEF Tally!Players, TallyP!Players, Tally!Zero, TallyP!Zero,
            Tally!Increment, TallyP!Increment, Tally!Later, TallyP!Later,
            Tally!Crosses, TallyP!Crosses, Tally!Remember, TallyP!Remember,
            Tally!Count, TallyP!Count, Tally!Clear, TallyP!Clear,
            Tally!NextStage, TallyP!NextStage
<1>1. Tally!vars = TallyP!vars
  BY Zenon DEF Tally!vars, TallyP!vars
<1>2. Tally!Init <=> TallyP!Init
  BY Zenon DEF Tally!Init, TallyP!Init
<1>3. /\ Tally!RaceFrame <=> TallyP!RaceFrame
      /\ Tally!IdleFrame <=> TallyP!IdleFrame
      /\ Tally!EnterGame <=> TallyP!EnterGame
      /\ Tally!LeaveGame <=> TallyP!LeaveGame
  BY Zenon DEF Tally!RaceFrame, TallyP!RaceFrame, Tally!IdleFrame, TallyP!IdleFrame,
               Tally!EnterGame, TallyP!EnterGame, Tally!LeaveGame, TallyP!LeaveGame
<1>4. Tally!Next <=> TallyP!Next
  BY <1>3, Zenon DEF Tally!Next, TallyP!Next
<1> QED
  BY <1>1, <1>2, <1>4

-----------------------------------------------------------------------------
(* The state machine in its place. *)

LEMMA ControlAssumed == ControlP!ControlAssumption
  BY TaxiAssumption DEF TaxiAssumption, Control!ControlAssumption, ControlP!ControlAssumption,
         Control!Slots, ControlP!Slots, Control!AnimEnd, ControlP!AnimEnd

LEMMA ControlInv == Spec => []ControlP!Inv
<1>1. Init => ControlP!Inv
  BY ControlAssumed, SameControl, ControlP!InitInv DEF Init
<1>2. ControlP!Inv /\ [Next]_vars => ControlP!Inv'
  <2> SUFFICES ASSUME ControlP!Inv, [Next]_vars PROVE ControlP!Inv'
    OBVIOUS
  <2>1. CASE ClkTick
    BY ControlAssumed, <2>1, SameControl, ControlP!ClkTickInv DEF ClkTick
  <2>2. CASE FrameEdge
    BY ControlAssumed, <2>2, SameControl, ControlP!FrameEdgeInv DEF FrameEdge
  <2>3. CASE KeycodeWrite \/ ResetButton
    BY ControlAssumed, <2>3, SameControl, ControlP!InputInv DEF KeycodeWrite, ResetButton
  <2>4. CASE UNCHANGED vars
    <3>1. UNCHANGED ControlP!vars
      BY <2>4 DEF vars, onClk, road, ControlP!vars
    <3> QED
      BY ControlAssumed, <3>1, ControlP!StutterInv
  <2> QED
    BY <2>1, <2>2, <2>3, <2>4 DEF Next
<1> QED
  BY <1>1, <1>2, PTL DEF Spec
-----------------------------------------------------------------------------
(* Every game starts from scratch. *)

\* Everything a frame outside of the race sets back.
Fresh ==
    /\ progress = 0 /\ speed = 0 /\ count = 0
    /\ \A p \in Players : /\ car[p].y = StartY /\ car[p].lane = Road!StartLane(p)
                          /\ ~ded[p]
                          /\ y_old[p] = 0 /\ points[p] = Tally!Zero
    /\ \A l \in Road!Lanes : obstacle_y[l] = ConeInit

\* The frame that moves the animation on is one that sets everything back, and none
\* comes between it and the game.
FreshOnTheWay == Car1Y # AnimStart => Fresh

AnimEnd == AnimStart + AnimStep * AnimFrames

LEMMA AnimMoves == AnimEnd # AnimStart /\ CountdownFrames \in Nat /\ CountdownFrames > 0
<1>1. AnimStart \in Nat /\ AnimStep \in Nat \ {0} /\ AnimFrames \in Nat \ {0}
  BY TaxiAssumption DEF Control!ControlAssumption
<1>2. AnimStep * AnimFrames \in Nat /\ AnimStep * AnimFrames > 0
  BY <1>1, SMT
<1>3. CountdownFrames \in Nat /\ CountdownFrames > 0
  BY TaxiAssumption DEF Road!RaceAssumption, Road!RoadAssumption
<1> QED
  BY <1>1, <1>2, <1>3, SMT DEF AnimEnd

LEMMA AnimationFrame ==
    ASSUME FrameEdge, curr_state = "START_TRANSITION"
    PROVE  Fresh'
<1> USE DEF FrameEdge
<1>1. screen = "off" /\ stage = "off" /\ Road!hold
  BY DEF screen, stage, Road!hold, Road!DrawGame
<1>2. progress' = 0 /\ speed' = 0 /\ count' = 0
  BY <1>1 DEF Road!Scroll, Road!Countdown, Road!DrawGame
<1>3. car' = [p \in Players |-> Road!Drive(car[p], car[Road!Other(p)], Held(Keycode)[p],
                                          speed, Road!hold, Road!StartLane(p))]
  BY DEF Road!MoveCars, Players, Road!Players
<1>4. \A p \in Players : car'[p].y = StartY /\ car'[p].lane = Road!StartLane(p)
  BY <1>1, <1>3 DEF Road!Drive
<1>5. \A p \in Players : ~ded'[p]
  BY <1>1, Zenon DEF Road!DetectCrashes, Road!DrawGame, Road!DrawWinner, Players, Road!Players
<1>6. \A p \in Players : y_old'[p] = 0 /\ points'[p] = Tally!Zero
  BY <1>1 DEF Tally!Clear, Players, Tally!Players
<1>7. \A l \in Road!Lanes : obstacle_y'[l] = ConeInit
  BY <1>1 DEF Road!PlaceCones, Road!HopCone, Road!DrawGame
<1> QED
  BY <1>2, <1>4, <1>5, <1>6, <1>7, Zenon DEF Fresh

\* What the state machine's clock does to the screens the race and the scores see.
LEMMA ClkScreens ==
    ASSUME ClkTick, ControlP!Inv
    PROVE  /\ curr_state \in Control!States /\ curr_state' \in Control!States
           /\ curr_state' = "IN_GAME" /\ curr_state # "IN_GAME" =>
                curr_state = "START_TRANSITION" /\ Car1Y = AnimEnd
           /\ curr_state' = "RESULTS" /\ curr_state # "RESULTS" =>
                curr_state = "IN_GAME" /\ (ded[1] \/ ded[2])
           /\ UNCHANGED <<road, scores, Car1Y>>
<1>1. /\ curr_state' = Control!ClockedState /\ UNCHANGED <<road, scores, Car1Y>>
  BY DEF ClkTick, Control!ClkTick
<1>2. curr_state \in Control!States
  BY DEF ControlP!Inv, ControlP!TypeOK, ControlP!States, Control!States
<1> QED
  BY <1>1, <1>2 DEF Control!ClockedState, Control!next_state, Control!States, Control!TransitionDone,
                    Control!AnimEnd, AnimEnd, Control!GameOver

LEMMA FreshStep ==
    ASSUME FreshOnTheWay, [Next]_vars
    PROVE  FreshOnTheWay'
<1>1. CASE ClkTick \/ KeycodeWrite \/ ResetButton \/ UNCHANGED vars
  <2>1. UNCHANGED <<road, scores, Car1Y>>
    BY <1>1 DEF ClkTick, KeycodeWrite, ResetButton, vars, Control!ClkTick,
                Control!KeycodeWrite, Control!ResetButton
  <2> QED
    BY <2>1 DEF road, scores, FreshOnTheWay, Fresh
<1>2. CASE FrameEdge
  <2>1. CASE curr_state = "START_TRANSITION"
    BY <1>2, <2>1, AnimationFrame DEF FreshOnTheWay
  <2>2. CASE curr_state # "START_TRANSITION"
    BY <1>2, <2>2 DEF FrameEdge, Control!FrameEdge, Control!Animation,
                      Control!StartTransition, FreshOnTheWay
  <2> QED
    BY <2>1, <2>2
<1> QED
  BY <1>1, <1>2 DEF Next

LEMMA AlwaysFreshOnTheWay == Spec => []FreshOnTheWay
<1>1. Init => FreshOnTheWay
  BY DEF Init, Control!Init, FreshOnTheWay
<1> QED
  BY <1>1, FreshStep, PTL DEF Spec

\* Only the clock of the state machine changes the screen.
LEMMA OthersKeepScreen ==
    ASSUME FrameEdge \/ KeycodeWrite \/ ResetButton \/ UNCHANGED vars
    PROVE  UNCHANGED curr_state
  BY DEF FrameEdge, KeycodeWrite, ResetButton, vars, onClk,
         Control!KeycodeWrite, Control!ResetButton

\* A game begins with everything set back, by whatever way and however soon after
\* another one the players come to it.
THEOREM GamesBeginFresh == Spec => FreshGame
<1>1. ASSUME ControlP!Inv, FreshOnTheWay, [Next]_vars,
             curr_state # "IN_GAME", curr_state' = "IN_GAME"
      PROVE  Fresh
  <2>1. ClkTick
    BY <1>1, OthersKeepScreen DEF Next
  <2>2. Car1Y = AnimEnd
    BY <1>1, <2>1, ClkScreens
  <2> QED
    BY <1>1, <2>2, AnimMoves DEF FreshOnTheWay
<1>2. ControlP!Inv /\ FreshOnTheWay /\ [Next]_vars
        => [curr_state # "IN_GAME" /\ curr_state' = "IN_GAME" =>
              /\ progress = 0 /\ speed = 0 /\ count = 0
              /\ \A p \in Players : /\ car[p].y = StartY /\ car[p].lane = Road!StartLane(p)
                                    /\ ~ded[p]
                                    /\ y_old[p] = 0 /\ points[p] = Tally!Zero
              /\ \A l \in Road!Lanes : obstacle_y[l] = ConeInit]_vars
  BY <1>1 DEF Fresh
<1> QED
  BY <1>2, ControlInv, AlwaysFreshOnTheWay, PTL DEF Spec, FreshGame

-----------------------------------------------------------------------------
(* The race in its place. *)

LEMMA Screens ==
    /\ screen = "game" <=> curr_state = "IN_GAME"
    /\ screen = "results" <=> curr_state = "RESULTS"
    /\ screen \in {"off", "game", "results"}
    /\ screen' = "game" <=> curr_state' = "IN_GAME"
    /\ screen' = "results" <=> curr_state' = "RESULTS"
    /\ screen' \in {"off", "game", "results"}
    /\ UNCHANGED curr_state => UNCHANGED screen
  BY DEF screen

LEMMA InitRacing == Init => Road!Init
  BY DEF Init

\* A change of screens is one that the race knows: a game begins as StartGame, by
\* way of the animation; ends in results after a crash; and is left.
LEMMA ClkRacing ==
    ASSUME ControlP!Inv, FreshOnTheWay, ClkTick
    PROVE  [Road!Next]_(Road!vars)
<1>1. UNCHANGED Road!race
  BY DEF ClkTick, road, Road!race
<1>2. CASE curr_state' = "IN_GAME" /\ curr_state # "IN_GAME"
  <2>1. curr_state = "START_TRANSITION" /\ Fresh
    BY <1>2, ClkScreens, AnimMoves DEF FreshOnTheWay
  <2>2. screen = "off" /\ screen' = "game"
    BY <1>2, <2>1, Screens
  <2>3. count = 0 /\ ~Road!GameOver
    BY <2>1 DEF Fresh, Road!GameOver, Road!Players, Players
  <2> QED
    BY <1>1, <2>2, <2>3 DEF Road!Next, Road!StartGame
<1>3. CASE curr_state' = "RESULTS" /\ curr_state # "RESULTS"
  <2>1. curr_state = "IN_GAME" /\ Road!GameOver
    BY <1>3, ClkScreens DEF Road!GameOver, Road!Players
  <2>2. Road!DrawGame /\ screen' = "results"
    BY <1>3, <2>1, Screens DEF Road!DrawGame
  <2> QED
    BY <1>1, <2>1, <2>2 DEF Road!Next, Road!ShowResults
<1>4. CASE /\ curr_state' = "IN_GAME" => curr_state = "IN_GAME"
           /\ curr_state' = "RESULTS" => curr_state = "RESULTS"
  <2>1. screen' = screen \/ (screen # "off" /\ screen' = "off")
    BY <1>4, Screens, Zenon
  <2>2. CASE screen' = screen
    BY <1>1, <2>2 DEF Road!race, Road!vars
  <2>3. CASE screen # "off" /\ screen' = "off"
    BY <1>1, <2>3 DEF Road!Next, Road!LeaveGame
  <2> QED
    BY <2>1, <2>2, <2>3
<1> QED
  BY <1>2, <1>3, <1>4

\* A frame is one of the race: if there is a crash in it, it is no frame of a game.
LEMMA FrameRacing ==
    ASSUME ControlP!Inv, FrameEdge
    PROVE  Road!Frame
<1>1. ~(Road!DrawGame /\ Road!GameOver)
  <2>1. frame_settled
    BY DEF FrameEdge, Control!FrameEdge
  <2>2. curr_state = "IN_GAME" => ~(ded[1] \/ ded[2])
    BY <2>1 DEF ControlP!Inv, ControlP!LeftInTime, ControlP!GameOver
  <2> QED
    BY <2>2, Screens DEF Road!DrawGame, Road!GameOver, Road!Players
<1>2. \E held \in {Held(k) : k \in Keycodes} : Road!MoveCars(held)
  BY DEF FrameEdge, ControlP!Inv, ControlP!TypeOK
<1>3. UNCHANGED screen
  BY Screens DEF FrameEdge, onClk
<1> QED
  BY <1>1, <1>2, <1>3 DEF FrameEdge, Road!Frame, Players, Road!Players

LEMMA StepRacing ==
    ASSUME ControlP!Inv, FreshOnTheWay, [Next]_vars
    PROVE  [Road!Next]_(Road!vars)
<1>1. CASE KeycodeWrite \/ ResetButton \/ UNCHANGED vars
  BY <1>1, OthersKeepScreen, Screens DEF KeycodeWrite, ResetButton, vars, road, Road!vars
<1> QED
  BY <1>1, ClkRacing, FrameRacing DEF Next, Road!Next

\* The race, between the state machine and the keys, behaves as module Race says.
THEOREM TheRace == Spec => Racing
  BY InitRacing, StepRacing, ControlInv, AlwaysFreshOnTheWay, PTL DEF Spec, Racing, Road!Spec

\* The assumptions of the race are those of the whole.
LEMMA RoadAssumptions ==
    /\ RoadP!MoveCarAssumption /\ RoadP!RaceAssumption /\ RoadP!RoadAssumption
    /\ RoadP!BodyAssumption /\ RoadP!StartAssumption
<1> USE TaxiAssumption
<1>1. RoadP!MoveCarAssumption /\ RoadP!RoadAssumption /\ RoadP!BodyAssumption
  BY DEF TaxiAssumption, Road!MoveCarAssumption, RoadP!MoveCarAssumption,
         Road!RoadAssumption, RoadP!RoadAssumption, Road!BodyAssumption, RoadP!BodyAssumption
<1>2. RoadP!RaceAssumption
  BY Zenon DEF TaxiAssumption, Road!RaceAssumption, RoadP!RaceAssumption,
         Road!Players, RoadP!Players, Road!Commands, RoadP!Commands, Road!Lanes, RoadP!Lanes
<1>3. RoadP!StartAssumption
  BY Zenon DEF TaxiAssumption, Road!StartAssumption, RoadP!StartAssumption, Road!Meet, RoadP!Meet
<1> QED
  BY <1>1, <1>2, <1>3

LEMMA RaceIsRoad == Racing => RoadP!Spec
<1>1. [Road!Next]_(Road!vars) => [RoadP!Next]_(RoadP!vars)
  BY SameRoad DEF Road!vars, RoadP!vars
<1> QED
  BY <1>1, SameRoad, PTL DEF Racing, Road!Spec, RoadP!Spec

LEMMA RoadInv == Spec => []RoadP!Inv
  BY RoadAssumptions, RoadP!Invariance, RaceIsRoad, TheRace, PTL

-----------------------------------------------------------------------------
(* The scores in their place. *)

Positions == [p \in Players |-> car[p].y]

LEMMA Stages ==
    /\ curr_state # "IN_GAME" => stage = "off"
    /\ curr_state = "IN_GAME" /\ count < CountdownFrames => stage = "countdown"
    /\ curr_state = "IN_GAME" /\ ~(count < CountdownFrames) => stage = "race"
    /\ curr_state' # "IN_GAME" => stage' = "off"
    /\ curr_state' = "IN_GAME" /\ count' < CountdownFrames => stage' = "countdown"
    /\ curr_state' = "IN_GAME" /\ ~(count' < CountdownFrames) => stage' = "race"
  BY DEF stage

LEMMA InitScoring == Init => Tally!Init
  BY DEF Init

\* The scores see a game begin, after frames that set them back, and end.
LEMMA ClkScoring ==
    ASSUME ControlP!Inv, FreshOnTheWay, ClkTick
    PROVE  [Tally!Next]_(Tally!vars)
<1>1. UNCHANGED <<count, car, Positions, y_old, points>>
  BY DEF ClkTick, road, scores, Positions
<1>2. CASE curr_state' = "IN_GAME" /\ curr_state # "IN_GAME"
  <2>1. Fresh
    BY <1>2, ClkScreens, AnimMoves DEF FreshOnTheWay
  <2>2. stage = "off" /\ stage' = "countdown"
    BY <1>1, <1>2, <2>1, Stages, AnimMoves DEF Fresh
  <2>3. \A p \in Tally!Players : points[p] = Tally!Zero /\ Positions[p] = StartY
    BY <2>1 DEF Fresh, Positions, Players, Tally!Players
  <2> QED
    BY <1>1, <2>2, <2>3 DEF Tally!Next, Tally!EnterGame, Positions
<1>3. CASE curr_state' # "IN_GAME" /\ curr_state = "IN_GAME"
  <2>1. stage \in {"countdown", "race"} /\ stage' = "off"
    BY <1>3, Stages
  <2> QED
    BY <1>1, <2>1 DEF Tally!Next, Tally!LeaveGame, Positions
<1>4. CASE curr_state' = "IN_GAME" <=> curr_state = "IN_GAME"
  <2>1. UNCHANGED stage
    BY <1>1, <1>4, Stages
  <2> QED
    BY <1>1, <2>1 DEF Tally!vars, Positions
<1> QED
  BY <1>2, <1>3, <1>4

\* Where the race holds the cars, the scores find them at the start.
LEMMA IdleScoring ==
    ASSUME RoadP!TypeOK, FrameEdge, stage # "race"
    PROVE  Tally!IdleFrame
<1>1. UNCHANGED curr_state
  BY OthersKeepScreen
<1>2. curr_state = "IN_GAME" => count < CountdownFrames
  BY Stages
<1>3. Road!hold
  BY <1>2, Screens DEF Road!hold, Road!DrawGame, Road!transition
<1>4. stage' \in Tally!NextStage
  <2>1. CASE curr_state = "IN_GAME"
    <3>1. stage = "countdown"
      BY <1>2, <2>1, Stages
    <3>2. stage' \in {"countdown", "race"}
      BY <1>1, <2>1, Stages
    <3> QED
      BY <3>1, <3>2 DEF Tally!NextStage
  <2>2. CASE curr_state # "IN_GAME"
    BY <1>1, <2>2, Stages DEF Tally!NextStage
  <2> QED
    BY <2>1, <2>2
<1>5. car' = [p \in Road!Players |-> Road!Drive(car[p], car[Road!Other(p)], Held(Keycode)[p],
                                               speed, Road!hold, Road!StartLane(p))]
  BY DEF FrameEdge, Road!MoveCars
<1>6. \A p \in Players : car'[p].y = StartY
  BY <1>3, <1>5 DEF Road!Drive, Players, Road!Players
<1>7. Positions' = [p \in Tally!Players |-> StartY]
  BY <1>6 DEF Positions, Players, Tally!Players
<1> QED
  BY <1>4, <1>7 DEF FrameEdge, Tally!IdleFrame, Positions

\* In the race, the cars move as the scores expect of them.
LEMMA RaceScoring ==
    ASSUME RoadP!TypeOK, ControlP!Inv, FrameEdge, stage = "race"
    PROVE  Tally!RaceFrame
<1>1. curr_state = "IN_GAME" /\ ~(count < CountdownFrames)
  BY Stages
<1>2. ~Road!hold /\ Road!DrawGame
  BY <1>1, Screens DEF Road!hold, Road!DrawGame, Road!transition
<1>3. count' = count
  BY <1>1, <1>2 DEF FrameEdge, Road!Countdown, Road!transition
<1>4. stage' = "race"
  BY <1>1, <1>3, OthersKeepScreen, Stages
<1>5. RoadP!Frame
  BY FrameRacing, SameRoad
<1>6. \A p \in Players :
        /\ car[p].y \in 0 .. Horizon
        /\ car'[p].y \in {car[p].y, car[p].y + speed, car[p].y + JumpLength}
  <2>1. ~RoadP!hold
    BY <1>2 DEF Road!hold, RoadP!hold, Road!DrawGame, RoadP!DrawGame,
                Road!transition, RoadP!transition
  <2> QED
    BY <1>5, <2>1, RoadAssumptions, RoadP!FrameCars DEF Players, RoadP!Players
<1>7. speed \in 0 .. 1 /\ JumpLength \in Nat \ {0} /\ Horizon \in Nat
  BY TaxiAssumption DEF RoadP!TypeOK, Road!MoveCarAssumption, Road!RaceAssumption
<1> DEFINE moved == [p \in Players |-> car'[p].y - car[p].y]
<1>8. \A p \in Players : /\ moved[p] \in {0, 1, JumpLength}
                         /\ car[p].y + moved[p] = car'[p].y
                         /\ car[p].y + moved[p] <= Horizon + JumpLength
  BY <1>6, <1>7
<1>9. moved \in [Tally!Players -> {0, 1, JumpLength}]
  BY <1>8, Zenon DEF Players, Tally!Players
<1> HIDE DEF moved
<1>10. /\ \A p \in Tally!Players : Positions[p] + moved[p] <= Horizon + JumpLength
       /\ Positions' = [p \in Tally!Players |-> Positions[p] + moved[p]]
  BY <1>8 DEF Positions, Players, Tally!Players
<1> QED
  BY <1>4, <1>9, <1>10 DEF FrameEdge, Tally!RaceFrame, Positions

LEMMA StepScoring ==
    ASSUME ControlP!Inv, FreshOnTheWay, RoadP!TypeOK, [Next]_vars
    PROVE  [Tally!Next]_(Tally!vars)
<1>1. CASE KeycodeWrite \/ ResetButton \/ UNCHANGED vars
  <2>1. UNCHANGED <<curr_state, count, Positions, y_old, points>>
    BY <1>1, OthersKeepScreen DEF KeycodeWrite, ResetButton, vars, road, scores, Positions
  <2>2. UNCHANGED stage
    BY <2>1, Stages
  <2> QED
    BY <2>1, <2>2 DEF Tally!vars, Positions
<1> QED
  BY <1>1, ClkScoring, IdleScoring, RaceScoring DEF Next, Tally!Next

\* The scores, between the state machine and the cars, behave as module Score says.
THEOREM TheScores == Spec => Scoring
<1>1. RoadP!Inv => RoadP!TypeOK
  BY DEF RoadP!Inv
<1> QED
  BY <1>1, InitScoring, StepScoring, ControlInv, AlwaysFreshOnTheWay, RoadInv, PTL
     DEF Spec, Scoring, Tally!Spec

-----------------------------------------------------------------------------
(* What is proved of the parts, of the whole. *)

\* What is proved of the race alone holds of the game: the screen leaves no car
\* behind, the cones form one row in its reach, the crash test means what it says,
\* nobody crashes in the countdown.
THEOREM RaceHolds ==
    Spec => [](/\ Road!TypeOK /\ Road!TrailBound /\ Road!ConesInReach /\ Road!OneRow
               /\ Road!CollisionMeaning /\ Road!CountdownSafe)
<1>1. /\ RoadP!TypeOK => Road!TypeOK
      /\ RoadP!TrailBound => Road!TrailBound
      /\ RoadP!ConesInReach => Road!ConesInReach
      /\ RoadP!OneRow => Road!OneRow
  BY Zenon DEF RoadP!TypeOK, Road!TypeOK, RoadP!Cars, Road!Cars, RoadP!Players, Road!Players,
         RoadP!Lanes, Road!Lanes, RoadP!TrailBound, Road!TrailBound,
         RoadP!ConesInReach, Road!ConesInReach, RoadP!OneRow, Road!OneRow
<1>2. RoadP!CollisionMeaning => Road!CollisionMeaning
  BY Zenon DEF RoadP!CollisionMeaning, Road!CollisionMeaning, RoadP!Players, Road!Players,
         RoadP!DrawGame, Road!DrawGame, RoadP!Whole, Road!Whole,
         RoadP!OnScreen, Road!OnScreen, RoadP!BodyReach, Road!BodyReach,
         RoadP!Hits, Road!Hits, RoadP!Meet, Road!Meet
<1>3. RoadP!CountdownSafe => Road!CountdownSafe
  BY Zenon DEF RoadP!CountdownSafe, Road!CountdownSafe, RoadP!Players, Road!Players,
         RoadP!DrawGame, Road!DrawGame, RoadP!GameOver, Road!GameOver,
         RoadP!transition, Road!transition
<1> QED
  BY <1>1, <1>2, <1>3, TheRace, RaceIsRoad, RoadAssumptions, RoadP!TypeCorrect,
     RoadP!NoCarLeftBehind, RoadP!ConesNear, RoadP!ConesOneRow, RoadP!CrashTestMeans,
     RoadP!SafeCountdown, PTL

\* The cars of the game do not drive or turn into each other either, and its screen
\* never scrolls back by more than a jump.
THEOREM CarsHold == Spec => Road!NoCreep /\ Road!ScrollBackBounded
<1>1. RoadP!NoCreep => Road!NoCreep
  BY Zenon DEF RoadP!NoCreep, Road!NoCreep, RoadP!Close, Road!Close, RoadP!Players, Road!Players,
         RoadP!vars, Road!vars
<1>2. RoadP!ScrollBackBounded => Road!ScrollBackBounded
  BY Zenon DEF RoadP!ScrollBackBounded, Road!ScrollBackBounded, RoadP!DrawGame, Road!DrawGame,
         RoadP!vars, Road!vars
<1> QED
  BY <1>1, <1>2, TheRace, RaceIsRoad, RoadAssumptions, RoadP!CarsDoNotCreep, RoadP!ScrollBack, PTL

\* Of the state machine: a crash ends the game before the next frame, results have
\* a verdict, and no game is played with an old timer.
THEOREM ControlHolds ==
    Spec => [](/\ Control!TypeOK /\ Control!TimerFresh /\ Control!ResultsHaveVerdict
               /\ Control!CrashEndsGame)
<1>1. ControlP!Inv => /\ Control!TypeOK /\ Control!TimerFresh
                      /\ Control!ResultsHaveVerdict /\ Control!CrashEndsGame
  BY Zenon DEF ControlP!Inv, ControlP!TypeOK, Control!TypeOK, ControlP!States, Control!States,
         ControlP!TimerFresh, Control!TimerFresh,
         ControlP!ResultsHaveVerdict, Control!ResultsHaveVerdict, ControlP!Crashed, Control!Crashed,
         ControlP!LeftInTime, ControlP!GameOver, Control!CrashEndsGame
<1> QED
  BY <1>1, ControlInv, PTL

LEMMA ControlNext == Next => ControlP!Next
BY SameControl DEF Next, ClkTick, FrameEdge, KeycodeWrite, ResetButton, ControlP!Next
LEMMA ControlStep ==
    [Next]_vars => ControlP!Next \/ UNCHANGED ControlP!vars
<1>1. UNCHANGED vars => UNCHANGED ControlP!vars
  BY DEF vars, onClk, road, ControlP!vars
<1> QED
  BY <1>1, ControlNext

\* Nor is one begun with a crash or a timer of an earlier game, and the verdict on the
\* results screen stays, though the race's registers go on with the frame clock.
THEOREM VerdictsHold == Spec => Control!CleanStart /\ Control!VerdictStable
<1>1. ControlP!Inv /\ [Next]_vars =>
        [curr_state # "IN_GAME" /\ curr_state' = "IN_GAME"
           => ~Control!Crashed /\ show_results_count = 0]_(Control!vars)
  BY ControlAssumed, ControlStep, ControlP!StartsClean
     DEF Control!vars, ControlP!vars, Control!Crashed, ControlP!Crashed
<1>2. [Next]_vars =>
        [curr_state = "RESULTS" => Control!Winner' = Control!Winner]_(Control!vars)
  BY ControlAssumed, ControlStep, ControlP!VerdictKept
     DEF Control!vars, ControlP!vars, Control!Winner, ControlP!Winner
<1> QED
  BY <1>1, <1>2, ControlInv, PTL DEF Spec, Control!CleanStart, Control!VerdictStable

\* The screens go on in the wired game: the state machine is at most nine edges of Clk
\* from rest, each of which is one of them, and the end of the start animation at most
\* 1023 frames away, each of which brings it nearer.
THEOREM ScreensGoOn ==
    Spec => /\ [](ControlP!EdgesLeft \in 0 .. 9 /\ ControlP!EndAhead)
            /\ [][ClkTick => ControlP!AtRest \/ ControlP!EdgesLeft' < ControlP!EdgesLeft]_vars
            /\ [][ControlP!Nearer]_vars
<1>1. ControlP!EdgesLeft \in 0 .. 9
  <2>1. ControlP!ScreensLeft \in 0 .. 4
    BY DEF ControlP!ScreensLeft
  <2> QED
    BY <2>1 DEF ControlP!EdgesLeft
<1>2. Init => ControlP!EndAhead
  BY ControlAssumed, ControlP!InitAhead, SameControl DEF Init
<1>3. ControlP!Inv /\ ControlP!EndAhead /\ [Next]_vars => ControlP!EndAhead'
  <2>1. ControlP!EndAhead /\ UNCHANGED ControlP!vars => ControlP!EndAhead'
    BY DEF ControlP!EndAhead, ControlP!Ahead, ControlP!AnimEnd, ControlP!vars
  <2> QED
    BY <2>1, ControlAssumed, ControlStep, ControlP!EndStaysAhead DEF ControlP!Inv
<1>4. ControlP!Inv /\ [Next]_vars =>
        [ClkTick => ControlP!AtRest \/ ControlP!EdgesLeft' < ControlP!EdgesLeft]_vars
  BY SameControl, ControlAssumed, ControlP!EdgesFall DEF ControlP!Inv, ClkTick
<1>5. ControlP!Inv /\ [Next]_vars => [ControlP!Nearer]_vars
  BY ControlNext, ControlAssumed, ControlP!StepNearer DEF ControlP!Inv
<1> QED
  BY <1>1, <1>2, <1>3, <1>4, <1>5, ControlInv, PTL DEF Spec

\* The game as a whole implements the match its players see, with the crashes that
\* the race finds in place of any.
THEOREM GameIsMatch == Spec => Control!ImplementsMatch
<1>1. Init => Control!M!Init
  BY ControlAssumed, ControlP!InitMatch, SameControl, SameMatch DEF Init
<1>2. ControlP!Inv /\ [Next]_vars => [Control!M!Next]_(Control!M!vars)
  <2> SUFFICES ASSUME ControlP!Inv, [Next]_vars PROVE [ControlP!M!Next]_(ControlP!M!vars)
    BY SameMatch
  <2>1. CASE ClkTick
    BY ControlAssumed, <2>1, SameControl, ControlP!ClkTickMatch DEF ClkTick
  <2>2. CASE FrameEdge
    BY ControlAssumed, <2>2, SameControl, ControlP!FrameEdgeMatch DEF FrameEdge
  <2>3. CASE KeycodeWrite \/ ResetButton \/ UNCHANGED vars
    <3>1. UNCHANGED <<curr_state, show_results_count, ded>>
      BY <2>3 DEF KeycodeWrite, ResetButton, Control!KeycodeWrite, Control!ResetButton,
                  vars, onClk, road
    <3> QED
      BY <3>1 DEF ControlP!M!vars, ControlP!scene, ControlP!InMatch, ControlP!Lost
  <2> QED
    BY <2>1, <2>2, <2>3 DEF Next
<1> QED
  BY <1>1, <1>2, ControlInv, PTL DEF Spec, Control!ImplementsMatch, Control!M!Spec

-----------------------------------------------------------------------------
(* The game with a scorekeeper for each car, who watches what the scores see. *)

Watched == <<TallyP!vars, fair_old, fair>>
Kept ==
    /\ Spec
    /\ fair_old = [p \in Players |-> 0] /\ fair = [p \in Players |-> 0]
    /\ [][TallyP!KeepScore]_Watched

LEMMA TallyAssumed == TallyP!ScoreAssumption
  BY TaxiAssumption DEF TaxiAssumption, Tally!ScoreAssumption, TallyP!ScoreAssumption

LEMMA KeptIsScore == Kept => TallyP!HSpec
<1>1. Tally!Init /\ fair_old = [p \in Players |-> 0] /\ fair = [p \in Players |-> 0]
        => TallyP!HInit
  BY SameTally DEF TallyP!HInit, Players, TallyP!Players
<1>2. [Tally!Next]_(Tally!vars) /\ [TallyP!KeepScore]_Watched
        => [TallyP!HNext]_(TallyP!hvars)
  <2> SUFFICES ASSUME [Tally!Next]_(Tally!vars), [TallyP!KeepScore]_Watched
               PROVE  [TallyP!HNext]_(TallyP!hvars)
    OBVIOUS
  <2> USE DEF Watched, TallyP!hvars, Tally!vars, TallyP!vars
  <2>1. CASE UNCHANGED Watched
    BY <2>1
  <2>2. CASE TallyP!KeepScore /\ Tally!Next
    BY <2>2, SameTally DEF TallyP!HNext
  <2>3. CASE TallyP!KeepScore /\ UNCHANGED Tally!vars
    <3>1. TallyP!Next \/ UNCHANGED <<fair_old, fair>>
      BY <2>3, Zenon DEF TallyP!KeepScore, TallyP!Next
    <3> QED
      BY <2>3, <3>1 DEF TallyP!HNext
  <2> QED
    BY <2>1, <2>2, <2>3
<1> QED
  BY <1>1, <1>2, TheScores, PTL DEF Kept, Scoring, Tally!Spec, TallyP!HSpec

\* In the wired game too, player 1 is paid exactly, player 2 for no bucket too few and
\* for none too many that player 1 has not made up for, and the digits stay decimal.
THEOREM ScoresHold ==
    Kept => [](/\ TallyP!TypeOK /\ TallyP!DigitsDecimal
               /\ TallyP!FirstScoreExact /\ TallyP!SecondScoreBounded)
  BY KeptIsScore, TallyAssumed, TallyP!Always, TallyP!Meaning, PTL
=============================================================================
