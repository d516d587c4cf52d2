---------------------------- MODULE GameControl ----------------------------
(***************************************************************************)
(* The screen state machine of the game (Display_control.sv) with the two  *)
(* pieces of hardware it hands control to and takes it back from: the      *)
(* start animation (Draw_start.sv) and the crash latches (Collision.sv).   *)
(*                                                                         *)
(* Two clocks drive it.  Clk (50 MHz) moves the state machine; FrameClk    *)
(* (the vertical sync of the VGA signal, 60 Hz) moves the results counter, *)
(* the animation and the crash latches.  Each clock edge is one action;    *)
(* between two frame edges there are some 840 000 Clk edges, of which the  *)
(* specification keeps as many as the state machine needs to come to rest. *)
(* What the race does between two frames is left open here: any frame of   *)
(* a game may report any combination of crashes (module Race says which).  *)
(***************************************************************************)
EXTENDS Integers

CONSTANTS
    NoKey, ENTER, GRAVE, \* an empty keycode slot, 8'h28 and 8'h35
    Keycodes,            \* the contents of the keycode port: functions on Slots
    ResultsFrames,       \* 300: frames for which the results stay on screen
    AnimStart, AnimStep, \* 230 and 2: Car1Y of the start screen, and its speed
    AnimFrames           \* 100: frames the cars take to drive off the screen

Slots == 0 .. 3
AnimEnd == AnimStart + AnimStep * AnimFrames    \* 430

ASSUME ControlAssumption ==
    /\ ENTER # GRAVE /\ NoKey \notin {ENTER, GRAVE}
    /\ \A k \in Keycodes : DOMAIN k = Slots
    /\ [s \in Slots |-> NoKey] \in Keycodes
    /\ ResultsFrames \in 1 .. 1022
    /\ AnimStart \in Nat /\ AnimStep \in Nat \ {0} /\ AnimFrames \in Nat \ {0}
    /\ AnimEnd + AnimStep < 1024

VARIABLES
    KEY0,               \* the reset button, active low
    Keycode,            \* the keycode port, written by the NIOS II
    Reset_h,            \* lab8: the registered reset
    curr_state, enter_released,         \* Display_control, on Clk
    show_results_count,                 \* Display_control, on FrameClk
    Car1Y,                              \* Draw_start, on FrameClk
    car1_ded, car2_ded,                 \* Collision, on FrameClk
    frame_settled, key_settled  \* Clk has come to rest since the last frame
                                \* edge, since the last write of the port
vars == <<KEY0, Keycode, Reset_h, curr_state, enter_released,
          show_results_count, Car1Y, car1_ded, car2_ded,
          frame_settled, key_settled>>

States == {"START", "START_TRANSITION", "IN_GAME", "RESULTS", "END"}

\* Type invariant.  The results counter, which is left by a test for equality,
\* never steps over ResultsFrames.
TypeOK ==
    /\ KEY0 \in BOOLEAN /\ Reset_h \in BOOLEAN
    /\ Keycode \in Keycodes
    /\ curr_state \in States /\ enter_released \in BOOLEAN
    /\ show_results_count \in 0 .. ResultsFrames
    /\ Car1Y \in 0 .. 1023
    /\ car1_ded \in BOOLEAN /\ car2_ded \in BOOLEAN
    /\ frame_settled \in BOOLEAN /\ key_settled \in BOOLEAN

-----------------------------------------------------------------------------
(* The outputs of the state machine and the wires between the parts. *)

StartGame       == curr_state \in {"START", "START_TRANSITION"}
StartTransition == curr_state = "START_TRANSITION"
DrawGame        == curr_state = "IN_GAME"
DrawWinner      == curr_state = "RESULTS"

\* Only the first of the four slots reaches the state machine.
FirstKey == Keycode[0]
Pressed(key) == \E s \in Slots : Keycode[s] = key

TransitionDoneAtStart == Car1Y = AnimStart              \* faulty variant
TransitionDoneMisaligned == Car1Y = AnimEnd + 1         \* faulty variant
TransitionDone == Car1Y = AnimEnd

GameOverMissesCar2 == car1_ded                          \* faulty variant
GameOver == car1_ded \/ car2_ded

Winner == IF car1_ded THEN "P2" ELSE "P1"

StartPressedWhileHeld == FirstKey = ENTER               \* faulty variant
StartPressed == FirstKey = ENTER /\ enter_released

\* Faulty variants.
ResultsOverLate == show_results_count > ResultsFrames
ResultsOverEarly == show_results_count + 1 >= ResultsFrames
ResultsOver == show_results_count = ResultsFrames

next_state ==
    CASE curr_state = "START" ->
            IF StartPressed THEN "START_TRANSITION" ELSE "START"
      [] curr_state = "START_TRANSITION" ->
            IF TransitionDone THEN "IN_GAME" ELSE "START_TRANSITION"
      [] curr_state = "IN_GAME" ->
            IF FirstKey = GRAVE THEN "END"
            ELSE IF GameOver THEN "RESULTS" ELSE "IN_GAME"
      [] curr_state = "RESULTS" ->
            IF ResultsOver THEN "END" ELSE "RESULTS"
      [] curr_state = "END" ->
            IF FirstKey = ENTER THEN "START" ELSE "END"

ClockedState == IF Reset_h THEN "START" ELSE next_state

\* Another Clk edge would change nothing.
AtRest ==
    /\ Reset_h = ~KEY0
    /\ curr_state = ClockedState
    /\ enter_released = (FirstKey # ENTER)

-----------------------------------------------------------------------------
\* The first frame edge after power-up has passed, no key has been reported.
Init ==
    /\ KEY0 = TRUE /\ Reset_h = FALSE
    /\ Keycode = [s \in Slots |-> NoKey]
    /\ curr_state = "START" /\ enter_released = TRUE
    /\ show_results_count = 0
    /\ Car1Y = AnimStart
    /\ car1_ded = FALSE /\ car2_ded = FALSE
    /\ frame_settled = TRUE /\ key_settled = TRUE

\* One edge of the 50 MHz clock.
ClkTick ==
    /\ Reset_h' = ~KEY0
    /\ curr_state' = ClockedState
    /\ enter_released' = (FirstKey # ENTER)
    /\ UNCHANGED <<KEY0, Keycode, show_results_count, Car1Y, car1_ded, car2_ded>>
    /\ frame_settled' = (frame_settled \/ AtRest')
    /\ key_settled' = (key_settled \/ AtRest')

NextCount == (show_results_count + 1) % 1024

\* Faulty variants: the counter is never cleared; it runs on the wrong screen.
ResultsCountKept ==
    show_results_count' = IF DrawWinner THEN NextCount ELSE show_results_count
ResultsCountInGame ==
    show_results_count' = IF DrawGame THEN NextCount ELSE 0
ResultsCount ==
    show_results_count' = IF DrawWinner THEN NextCount ELSE 0

Animation ==
    Car1Y' = IF StartGame /\ StartTransition THEN (Car1Y + AnimStep) % 1024
                                             ELSE AnimStart

FreeLatches == car1_ded' \in BOOLEAN /\ car2_ded' \in BOOLEAN
HeldLatches == UNCHANGED <<car1_ded, car2_ded>>
ClearLatches == car1_ded' = FALSE /\ car2_ded' = FALSE

\* Faulty variants: never cleared; free, or cleared, while the results show.
CrashLatchesKept == IF DrawGame THEN FreeLatches ELSE HeldLatches
CrashLatchesFreeInResults ==
    IF DrawGame \/ DrawWinner THEN FreeLatches ELSE ClearLatches
CrashLatchesClearedInResults == IF DrawGame THEN FreeLatches ELSE ClearLatches

\* The latches follow the race while a game is drawn and hold while its result
\* is shown; which frame of a game reports a crash is left open.
CrashLatches ==
    IF DrawGame THEN FreeLatches
    ELSE IF DrawWinner THEN HeldLatches
    ELSE ClearLatches

\* One rising edge of the vertical sync; reset holds the VGA counters still.  (The
\* code has an edge right after the release of reset; here it may come later.)
FrameEdge ==
    /\ frame_settled /\ ~Reset_h
    /\ ResultsCount
    /\ Animation
    /\ CrashLatches
    /\ frame_settled' = FALSE
    /\ UNCHANGED <<KEY0, Keycode, Reset_h, curr_state, enter_released, key_settled>>

\* The software, which no reset stops, writes the keys of one keyboard report to
\* the port, thousands of Clk edges after the last write.
KeycodeWrite ==
    /\ key_settled
    /\ \E k \in Keycodes \ {Keycode} : Keycode' = k
    /\ key_settled' = FALSE
    /\ UNCHANGED <<KEY0, Reset_h, curr_state, enter_released,
                   show_results_count, Car1Y, car1_ded, car2_ded, frame_settled>>

ResetButton ==
    /\ KEY0' = ~KEY0
    /\ UNCHANGED <<Keycode, Reset_h, curr_state, enter_released,
                   show_results_count, Car1Y, car1_ded, car2_ded,
                   frame_settled, key_settled>>

Next == ClkTick \/ FrameEdge \/ KeycodeWrite \/ ResetButton

\* The two clocks never stop; nobody has to press a key or the button.
Fairness == WF_vars(ClkTick) /\ WF_vars(FrameEdge)

Spec == Init /\ [][Next]_vars /\ Fairness
-----------------------------------------------------------------------------
(* What the screens promise the players. *)

\* What GameOver is to tell the state machine.
Crashed == car1_ded \/ car2_ded

\* A game begins with both cars alive and the results timer at zero, whatever
\* was on screen before: the latches and the counter, which are cleared on
\* another clock than the one that starts the game, have been cleared by then.
CleanStart ==
    [][curr_state # "IN_GAME" /\ curr_state' = "IN_GAME"
          => ~Crashed /\ show_results_count = 0]_vars

\* The results timer never carries frames of an earlier game: it is still zero
\* all through a game, so the results stay for ResultsFrames frames.
TimerFresh == curr_state = "IN_GAME" => show_results_count = 0

\* The results are only ever shown of a game in which some car crashed.
ResultsHaveVerdict == curr_state = "RESULTS" => Crashed

\* The verdict on screen never changes while the results are shown.
VerdictStable == [][curr_state = "RESULTS" => Winner' = Winner]_vars

\* No crash is lost: the game does not live to the frame after the crash, in
\* which the latches would be computed anew.
CrashEndsGame == frame_settled /\ curr_state = "IN_GAME" => ~Crashed

\* Every crash leads off the game's screen.
CrashLeavesGame == (curr_state = "IN_GAME" /\ Crashed) ~> (curr_state # "IN_GAME")

\* The results give way to the end screen (or to a reset) by themselves.
ResultsEnd == (curr_state = "RESULTS") ~> (curr_state \in {"END", "START"})

\* The start animation gives way to the game (or to a reset) by itself.  It too is
\* left by a test for equality: a press of Enter on the last Clk edges before a
\* frame edge, with Car1Y left over from the animation before, starts one that
\* drives past AnimEnd and has to wrap around all ten bits to meet it.
AnimationEnds == (curr_state = "START_TRANSITION") ~> (curr_state \in {"IN_GAME", "START"})

\* What the players see of it: the crashes and the timer only count while the game
\* is on or its results are shown.
scene == CASE curr_state = "START" -> "title"
           [] curr_state = "START_TRANSITION" -> "departure"
           [] curr_state = "IN_GAME" -> "playing"
           [] curr_state = "RESULTS" -> "results"
           [] OTHER -> "over"
InMatch == curr_state \in {"IN_GAME", "RESULTS"}
Lost == (IF car1_ded THEN {1} ELSE {}) \cup (IF car2_ded THEN {2} ELSE {})

M == INSTANCE Match WITH Players <- {1, 2},
                         lost  <- IF InMatch THEN Lost ELSE {},
                         shown <- IF InMatch THEN show_results_count ELSE 0

\* The state machine, its counter on another clock and the latches it neither sets
\* nor clears implement a match: scenes in order, one crash ends a game and is the
\* one shown, and the results stay for exactly their frames.
ImplementsMatch == M!Spec

(* What comments of the source say and the code does not do. *)

\* "press ` to end game" (Display_control): a game that is still on when the
\* state machine has come to rest has nobody pressing the key.
GraveEndsGame == key_settled /\ curr_state = "IN_GAME" => ~Pressed(GRAVE)

\* "0 for P1 WINS, 1 for P2 WINS" (Draw_game, Draw_winner): the player the
\* results call the winner has not crashed.
WinnerSurvived ==
    curr_state = "RESULTS" => ~(IF Winner = "P1" THEN car1_ded ELSE car2_ded)
=============================================================================
