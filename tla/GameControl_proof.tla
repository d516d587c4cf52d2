------------------------- MODULE GameControl_proof -------------------------
(***************************************************************************)
(* Proofs about GameControl.  The safety properties rest on one inductive  *)
(* invariant.  Its first part is why games start clean: whatever a frame   *)
(* leaves behind of a game (a crash, a count) it leaves together with the  *)
(* animation at its start, and the way into a game leads past its end.     *)
(* For the liveness properties there is what shrinks: the edges of Clk     *)
(* until the state machine rests, and the frames to the animation's end.   *)
(***************************************************************************)
EXTENDS MCGameControl, TLAPS

LeftoversAtStart ==
    (GameOver \/ show_results_count # 0) => Car1Y = AnimStart

\* At rest, the state machine has left every state it has a reason to leave.
LeftInTime ==
    frame_settled => /\ curr_state = "IN_GAME" => ~GameOver
                     /\ curr_state = "RESULTS" => ~ResultsOver

Inv ==
    /\ TypeOK
    /\ LeftoversAtStart
    /\ LeftInTime
    /\ TimerFresh
    /\ ResultsHaveVerdict

\* The animation ends elsewhere than it starts.
LEMMA AnimMoves == AnimStart \in 0 .. 1023 /\ AnimEnd # AnimStart
<1>1. AnimStart \in Nat /\ AnimStep \in Nat \ {0} /\ AnimFrames \in Nat \ {0}
      /\ AnimEnd + AnimStep < 1024
  BY ControlAssumption
<1>2. AnimStep * AnimFrames \in Nat /\ AnimStep * AnimFrames > 0
  BY <1>1, SMT
<1> QED
  BY <1>1, <1>2 DEF AnimEnd

\* The invariant holds at power-up.
LEMMA InitInv == Init => Inv
<1> SUFFICES ASSUME Init PROVE Inv
  OBVIOUS
<1>1. Keycode \in Keycodes
  BY ControlAssumption DEF Init
<1>2. show_results_count \in 0 .. ResultsFrames /\ Car1Y \in 0 .. 1023
  BY AnimMoves, ControlAssumption DEF Init
<1>3. TypeOK
  BY <1>1, <1>2 DEF Init, TypeOK, States
<1> QED
  BY <1>3, ControlAssumption DEF Init, Inv, LeftoversAtStart, LeftInTime, TimerFresh,
              ResultsHaveVerdict, Crashed, GameOver, ResultsOver

\* A tick of Clk moves the state machine and nothing it looks at.
LEMMA ClkTickInv == Inv /\ ClkTick => Inv'
<1> SUFFICES ASSUME Inv, ClkTick PROVE Inv'
  OBVIOUS
<1> USE DEF ClkTick
<1>1. curr_state' = ClockedState /\ ClockedState \in States
  BY DEF ClockedState, next_state, Inv, TypeOK, States
<1>2. TypeOK'
  BY <1>1 DEF Inv, TypeOK, AtRest
<1>3. /\ GameOver' = GameOver /\ ResultsOver' = ResultsOver
      /\ TransitionDone' = TransitionDone
  BY DEF GameOver, ResultsOver, TransitionDone
<1>4. LeftoversAtStart'
  BY DEF Inv, LeftoversAtStart, GameOver
<1>5. curr_state' = "IN_GAME" =>
        curr_state = "IN_GAME" \/ (curr_state = "START_TRANSITION" /\ TransitionDone)
  BY <1>1 DEF ClockedState, next_state, Inv, TypeOK, States
<1>6. curr_state' = "RESULTS" =>
        curr_state = "RESULTS" \/ (curr_state = "IN_GAME" /\ GameOver)
  BY <1>1 DEF ClockedState, next_state, Inv, TypeOK, States
<1>7. TransitionDone => ~GameOver /\ show_results_count = 0
  BY AnimMoves DEF Inv, LeftoversAtStart, TransitionDone
<1>8. TimerFresh'
  BY <1>5, <1>7 DEF Inv, TimerFresh
<1>9. ResultsHaveVerdict'
  BY <1>3, <1>6 DEF Inv, ResultsHaveVerdict, Crashed, GameOver
<1>10. LeftInTime'
  <2>1. CASE frame_settled
    <3>1. curr_state' = "IN_GAME" => ~GameOver'
      BY <2>1, <1>3, <1>5, <1>7 DEF Inv, LeftInTime
    <3>2. curr_state = "IN_GAME" => ~ResultsOver
      BY ControlAssumption DEF Inv, TimerFresh, ResultsOver
    <3>3. curr_state' = "RESULTS" => ~ResultsOver'
      BY <2>1, <3>2, <1>3, <1>6 DEF Inv, LeftInTime
    <3> QED
      BY <3>1, <3>3 DEF LeftInTime
  <2>2. CASE AtRest'
    <3>1. curr_state' = (IF Reset_h' THEN "START" ELSE next_state')
      BY <2>2 DEF AtRest, ClockedState
    <3>2. curr_state' = "IN_GAME" => ~GameOver'
      BY <3>1 DEF next_state
    <3>3. curr_state' = "RESULTS" => ~ResultsOver'
      BY <3>1 DEF next_state
    <3> QED
      BY <3>2, <3>3 DEF LeftInTime
  <2> QED
    BY <2>1, <2>2 DEF LeftInTime
<1> QED
  BY <1>2, <1>4, <1>8, <1>9, <1>10 DEF Inv

\* A frame edge moves what the state machine looks at, and not the state machine.
LEMMA FrameEdgeInv == Inv /\ FrameEdge => Inv'
<1> SUFFICES ASSUME Inv, FrameEdge PROVE Inv'
  OBVIOUS
<1> USE DEF FrameEdge
<1>1. show_results_count' =
        IF curr_state = "RESULTS" THEN show_results_count + 1 ELSE 0
  <2>1. curr_state = "RESULTS" => show_results_count + 1 \in 1 .. ResultsFrames
    BY ControlAssumption DEF Inv, TypeOK, LeftInTime, ResultsOver
  <2>2. curr_state = "RESULTS" => NextCount = show_results_count + 1
    BY <2>1, ControlAssumption DEF NextCount, Inv, TypeOK
  <2> QED
    BY <2>2 DEF ResultsCount, DrawWinner
<1>2. show_results_count' \in 0 .. ResultsFrames
  BY <1>1, ControlAssumption DEF Inv, TypeOK, LeftInTime, ResultsOver
<1>3. Car1Y' \in 0 .. 1023
  BY AnimMoves, ControlAssumption DEF Animation, Inv, TypeOK
<1>4. car1_ded' \in BOOLEAN /\ car2_ded' \in BOOLEAN
  BY DEF CrashLatches, FreeLatches, HeldLatches, ClearLatches, Inv, TypeOK
<1>5. TypeOK'
  BY <1>2, <1>3, <1>4 DEF Inv, TypeOK
<1>6. LeftoversAtStart'
  <2>1. CASE curr_state = "START_TRANSITION"
    <3>1. ~GameOver' /\ show_results_count' = 0
      BY <2>1, <1>1 DEF CrashLatches, ClearLatches, DrawGame, DrawWinner, GameOver
    <3> QED
      BY <3>1 DEF LeftoversAtStart
  <2>2. CASE curr_state # "START_TRANSITION"
    BY <2>2 DEF Animation, StartTransition, LeftoversAtStart
  <2> QED
    BY <2>1, <2>2
<1>7. LeftInTime'
  BY DEF LeftInTime
<1>8. TimerFresh'
  BY <1>1 DEF TimerFresh
<1>9. ResultsHaveVerdict'
  BY DEF Inv, ResultsHaveVerdict, CrashLatches, HeldLatches, DrawGame, DrawWinner, GameOver, Crashed
<1> QED
  BY <1>5, <1>6, <1>7, <1>8, <1>9 DEF Inv

\* The inputs touch nothing the invariant speaks of but their own types.
LEMMA InputInv == Inv /\ (KeycodeWrite \/ ResetButton) => Inv'
<1> SUFFICES ASSUME Inv, KeycodeWrite \/ ResetButton PROVE Inv'
  OBVIOUS
<1>1. TypeOK'
  <2>1. CASE KeycodeWrite
    BY <2>1 DEF Inv, TypeOK, KeycodeWrite
  <2>2. CASE ResetButton
    BY <2>2 DEF Inv, TypeOK, ResetButton
  <2> QED
    BY <2>1, <2>2
<1>2. /\ GameOver' = GameOver /\ ResultsOver' = ResultsOver
      /\ UNCHANGED <<curr_state, show_results_count, Car1Y, frame_settled>>
  BY DEF KeycodeWrite, ResetButton, GameOver, ResultsOver
<1> QED
  BY <1>1, <1>2 DEF Inv, LeftoversAtStart, LeftInTime, TimerFresh,
         ResultsHaveVerdict, Crashed, GameOver

LEMMA StutterInv == Inv /\ UNCHANGED vars => Inv'
<1> QED
  BY DEF vars, Inv, TypeOK, LeftoversAtStart, LeftInTime, TimerFresh,
         ResultsHaveVerdict, Crashed, GameOver, ResultsOver

\* The inductive invariant: types and counters in range, leftovers of a game only
\* with the animation at its start, no state outstayed, results with a verdict.
THEOREM Invariance == Spec => []Inv
<1>1. Inv /\ [Next]_vars => Inv'
  BY ClkTickInv, FrameEdgeInv, InputInv, StutterInv DEF Next
<1> QED
  BY InitInv, <1>1, PTL DEF Spec

\* Type correctness of the screen state machine, its counters and its latches.
THEOREM TypeCorrect == Spec => []TypeOK
<1>1. Inv => TypeOK
  BY DEF Inv
<1> QED
  BY Invariance, <1>1, PTL

\* The results timer is at zero all through every game.
THEOREM TimerAlwaysFresh == Spec => []TimerFresh
<1>1. Inv => TimerFresh
  BY DEF Inv
<1> QED
  BY Invariance, <1>1, PTL

\* Results are only shown of a game in which a car crashed.
THEOREM VerdictExists == Spec => []ResultsHaveVerdict
<1>1. Inv => ResultsHaveVerdict
  BY DEF Inv
<1> QED
  BY Invariance, <1>1, PTL

\* No crash is lost: the game does not live to the frame after it.
THEOREM CrashAlwaysEndsGame == Spec => []CrashEndsGame
<1>1. Inv => CrashEndsGame
  BY DEF Inv, LeftInTime, CrashEndsGame, Crashed, GameOver
<1> QED
  BY Invariance, <1>1, PTL

\* The animation, which leads into a game, has left its start only after a frame that
\* cleared latches and counter; and no frame moves the verdict on the results screen.
LEMMA StartsClean ==
    ASSUME Inv, Next, curr_state # "IN_GAME", curr_state' = "IN_GAME"
    PROVE  ~Crashed /\ show_results_count = 0
<1>1. CASE ClkTick
  <2>1. TransitionDone
    BY <1>1 DEF ClkTick, ClockedState, next_state, Inv, TypeOK, States
  <2> QED
    BY <2>1, AnimMoves DEF Inv, LeftoversAtStart, TransitionDone, Crashed, GameOver
<1>2. CASE FrameEdge \/ KeycodeWrite \/ ResetButton
  BY <1>2 DEF FrameEdge, KeycodeWrite, ResetButton
<1> QED
  BY <1>1, <1>2 DEF Next

LEMMA VerdictKept ==
    ASSUME Next, curr_state = "RESULTS"
    PROVE  Winner' = Winner
<1>1. UNCHANGED car1_ded
  BY DEF Next, ClkTick, FrameEdge, KeycodeWrite, ResetButton, CrashLatches,
         HeldLatches, DrawGame, DrawWinner
<1> QED
  BY <1>1 DEF Winner

\* Every game starts with both cars alive and the results timer at zero, however
\* the keys, the resets and the two clocks fell before.
THEOREM EveryStartClean == Spec => CleanStart
<1>1. Inv /\ [Next]_vars =>
        [curr_state # "IN_GAME" /\ curr_state' = "IN_GAME"
           => ~Crashed /\ show_results_count = 0]_vars
  BY StartsClean
<1> QED
  BY Invariance, <1>1, PTL DEF Spec, CleanStart

\* The verdict on screen does not change while the results are shown.
THEOREM VerdictHolds == Spec => VerdictStable
<1>1. [Next]_vars => [curr_state = "RESULTS" => Winner' = Winner]_vars
  BY VerdictKept
<1> QED
  BY <1>1, PTL DEF Spec, VerdictStable

-----------------------------------------------------------------------------
(* What brings the screens nearer to the next one. *)

\* How many edges of Clk may still change something, if no input does: one that takes
\* the inputs in, and then one for each screen on the way around to the title.
TakenIn == Reset_h = ~KEY0 /\ enter_released = (FirstKey # ENTER)
ScreensLeft ==
    CASE curr_state = "START_TRANSITION" -> 4
      [] curr_state = "IN_GAME" -> 3
      [] curr_state = "RESULTS" -> 2
      [] curr_state = "END" -> 1
      [] OTHER -> 0
EdgesLeft == ScreensLeft + (IF TakenIn THEN 0 ELSE 5)

\* Screens follow each other towards the title, which Enter leaves only if it has just
\* gone down.
LEMMA ScreensFall ==
    ASSUME TypeOK, ClkTick, TakenIn, ~AtRest
    PROVE  ScreensLeft' < ScreensLeft
<1>1. curr_state # ClockedState /\ curr_state' = ClockedState
  BY DEF AtRest, TakenIn, ClkTick
<1>2. CASE Reset_h
  <2>1. curr_state' = "START" /\ curr_state \in States \ {"START"}
    BY <1>1, <1>2 DEF ClockedState, TypeOK
  <2> QED
    BY <2>1 DEF ScreensLeft, States
<1>3. CASE ~Reset_h
  <2>1. next_state # curr_state /\ curr_state' = next_state
    BY <1>1, <1>3 DEF ClockedState
  <2>2. ~StartPressed
    BY DEF TakenIn, StartPressed
  <2>3. CASE curr_state = "START"
    BY <2>1, <2>2, <2>3 DEF next_state
  <2>4. CASE curr_state = "START_TRANSITION"
    BY <2>1, <2>4 DEF next_state, ScreensLeft
  <2>5. CASE curr_state = "IN_GAME"
    BY <2>1, <2>5 DEF next_state, ScreensLeft
  <2>6. CASE curr_state = "RESULTS"
    BY <2>1, <2>6 DEF next_state, ScreensLeft
  <2>7. CASE curr_state = "END"
    BY <2>1, <2>7 DEF next_state, ScreensLeft
  <2> QED
    BY <2>3, <2>4, <2>5, <2>6, <2>7 DEF TypeOK, States
<1> QED
  BY <1>2, <1>3

\* And taking the inputs in is worth all of them.
LEMMA TakingIn ==
    ASSUME NEW m \in 0 .. 4, NEW n \in 0 .. 4
    PROVE  m + 0 < n + 5 /\ (m < n => m + 0 < n + 0)
OBVIOUS

LEMMA EdgesFall ==
    ASSUME TypeOK, ClkTick, ~AtRest
    PROVE  EdgesLeft' < EdgesLeft
<1>1. ScreensLeft \in 0 .. 4 /\ ScreensLeft' \in 0 .. 4
  BY DEF ScreensLeft
<1>2. CASE TakenIn
  <2>1. TakenIn'
    BY <1>2, Zenon DEF TakenIn, ClkTick, FirstKey
  <2> QED
    <3>1. EdgesLeft = ScreensLeft + 0 /\ EdgesLeft' = ScreensLeft' + 0
      BY <1>2, <2>1, Zenon DEF EdgesLeft
    <3> QED
      BY <1>1, <1>2, <3>1, ScreensFall, TakingIn
<1>3. CASE ~TakenIn
  <2>1. TakenIn'
    BY Zenon DEF TakenIn, ClkTick, FirstKey
  <2> QED
    <3>1. EdgesLeft = ScreensLeft + 5 /\ EdgesLeft' = ScreensLeft' + 0
      BY <1>3, <2>1, Zenon DEF EdgesLeft
    <3> QED
      BY <1>1, <3>1, TakingIn
<1> QED
  BY <1>2, <1>3

\* The state machine comes to rest between two frames: whatever the keys, the button
\* and the last frame left it with, nine edges of Clk are enough (of some 840 000), so
\* that no frame edge waits for it and no input sends it around the screens for ever.
THEOREM ComesToRest ==
    Spec => [](EdgesLeft \in 0 .. 9) /\ [][ClkTick => AtRest \/ EdgesLeft' < EdgesLeft]_vars
<1>1. EdgesLeft \in 0 .. 9
  <2>1. ScreensLeft \in 0 .. 4
    BY DEF ScreensLeft
  <2> QED
    BY <2>1 DEF EdgesLeft
<1>2. Inv /\ [Next]_vars => [ClkTick => AtRest \/ EdgesLeft' < EdgesLeft]_vars
  BY EdgesFall DEF Inv
<1> QED
  BY Invariance, <1>1, <1>2, PTL DEF Spec

\* The end of the animation is n frames away, by way of the wrap of the ten bits if
\* need be.
Ahead(n) == (Car1Y + AnimStep * n) % 1024 = AnimEnd
EndAhead == \E n \in 0 .. 1023 : Ahead(n)

\* A frame covers one step of the way, and all steps lead round.
LEMMA FrameCovers ==
    ASSUME NEW y \in 0 .. 1023, NEW s \in Nat, NEW n \in Nat, n > 0
    PROVE  (((y + s) % 1024) + s * (n - 1)) % 1024 = (y + s * n) % 1024
<1> DEFINE rest == s * (n - 1)
<1>1. rest \in Nat /\ s * n = rest + s
  BY SMT
<1> HIDE DEF rest
<1>2. (((y + s) % 1024) + rest) % 1024 = (y + (rest + s)) % 1024
  BY <1>1, SMT
<1> QED
  BY <1>1, <1>2 DEF rest
LEMMA RoundTrip ==
    ASSUME NEW y \in 0 .. 1023, NEW s \in Nat
    PROVE  (((y + s) % 1024) + s * 1023) % 1024 = y
BY SMT

\* The frames of the animation, and those that put it at its start.
LEMMA FrameApproaches ==
    ASSUME Car1Y \in 0 .. 1023, Animation, StartTransition, NEW n \in 1 .. 1023, Ahead(n)
    PROVE  Ahead(n - 1)'
<1>1. AnimStep \in Nat /\ n - 1 \in Nat
  BY ControlAssumption
<1>2. Car1Y' = (Car1Y + AnimStep) % 1024
  BY DEF Animation, StartGame, StartTransition
<1>3. (Car1Y' + AnimStep * (n - 1)) % 1024 = (Car1Y + AnimStep * n) % 1024
  BY <1>1, <1>2, FrameCovers
<1> QED
  BY <1>3 DEF Ahead, AnimEnd
LEMMA EndStaysAhead ==
    ASSUME TypeOK, Next, EndAhead
    PROVE  EndAhead'
<1>0. /\ AnimStep \in Nat /\ AnimStart \in Nat
      /\ AnimFrames \in 0 .. 1023 /\ AnimEnd \in 0 .. 1023
  <2>1. AnimStep * AnimFrames \in Nat /\ AnimFrames <= AnimStep * AnimFrames
    BY ControlAssumption, SMT
  <2> QED
    BY <2>1, ControlAssumption DEF AnimEnd
<1>1. CASE FrameEdge /\ StartTransition
  <2>1. PICK n \in 0 .. 1023 : Ahead(n)
    BY DEF EndAhead
  <2>2. CASE n # 0
    <3>1. Ahead(n - 1)'
      BY <1>1, <2>1, <2>2, FrameApproaches DEF TypeOK, FrameEdge
    <3>2. n - 1 \in 0 .. 1023
      BY <2>2
    <3> QED
      BY <3>1, <3>2 DEF EndAhead
  <2>3. CASE n = 0
    <3>1. Car1Y = AnimEnd
      <4>1. AnimStep * n = 0 /\ Car1Y \in 0 .. 1023
        BY <1>0, <2>3 DEF TypeOK
      <4>2. (Car1Y + AnimStep * n) % 1024 = AnimEnd
        BY <2>1 DEF Ahead
      <4> QED
        BY <4>1, <4>2
    <3>2. (Car1Y' + AnimStep * 1023) % 1024 = AnimEnd
      BY <1>0, <1>1, <3>1, RoundTrip DEF FrameEdge, Animation, StartGame, StartTransition
    <3> QED
      BY <3>2 DEF EndAhead, Ahead, AnimEnd
  <2> QED
    BY <2>2, <2>3
<1>2. CASE FrameEdge /\ ~StartTransition
  <2>1. Car1Y' = AnimStart
    BY <1>2 DEF FrameEdge, Animation
  <2>2. (Car1Y' + AnimStep * AnimFrames) % 1024 = AnimEnd
    BY <1>0, <2>1 DEF AnimEnd
  <2>3. Ahead(AnimFrames)'
    BY <2>2 DEF Ahead, AnimEnd
  <2> QED
    BY <1>0, <2>3 DEF EndAhead
<1>3. CASE ClkTick \/ KeycodeWrite \/ ResetButton
  BY <1>3 DEF EndAhead, Ahead, AnimEnd, ClkTick, KeycodeWrite, ResetButton
<1> QED
  BY <1>1, <1>2, <1>3 DEF Next

LEMMA InitAhead == Init => EndAhead
<1> SUFFICES ASSUME Init PROVE EndAhead
  OBVIOUS
<1>1. AnimStep * AnimFrames \in Nat /\ AnimFrames <= AnimStep * AnimFrames
  BY ControlAssumption, SMT
<1>2. AnimFrames \in 0 .. 1023 /\ AnimEnd \in 0 .. 1023 /\ Car1Y = AnimStart
  BY <1>1, ControlAssumption DEF AnimEnd, Init
<1>3. AnimEnd % 1024 = AnimEnd
  BY <1>2
<1> QED
  BY <1>2, <1>3 DEF EndAhead, Ahead, AnimEnd

\* As long as the animation runs, each frame brings its end one frame nearer and
\* nothing else moves it; there, the next edge of Clk ends the animation.
Nearer ==
    StartTransition =>
        /\ \A n \in 1 .. 1023 :
              Ahead(n) => IF FrameEdge THEN Ahead(n - 1)' ELSE Ahead(n)'
        /\ Ahead(0) /\ ClkTick => ~StartTransition'

LEMMA StepNearer ==
    ASSUME TypeOK, Next
    PROVE  Nearer
<1> SUFFICES ASSUME StartTransition
             PROVE  /\ \A n \in 1 .. 1023 :
                          Ahead(n) => IF FrameEdge THEN Ahead(n - 1)' ELSE Ahead(n)'
                    /\ Ahead(0) /\ ClkTick => ~StartTransition'
  BY DEF Nearer
<1>1. ASSUME NEW n \in 1 .. 1023, Ahead(n)
      PROVE  IF FrameEdge THEN Ahead(n - 1)' ELSE Ahead(n)'
  <2>1. CASE FrameEdge
    <3>1. Ahead(n - 1)'
      BY <1>1, <2>1, FrameApproaches DEF TypeOK, FrameEdge
    <3> QED
      BY <2>1, <3>1
  <2>2. CASE ~FrameEdge
    <3>1. Car1Y' = Car1Y
      BY <2>2 DEF Next, ClkTick, KeycodeWrite, ResetButton
    <3>2. Ahead(n)'
      BY <1>1, <3>1 DEF Ahead, AnimEnd
    <3> QED
      BY <2>2, <3>2
  <2> QED
    BY <2>1, <2>2
<1>2. ASSUME Ahead(0), ClkTick PROVE ~StartTransition'
  <2>1. TransitionDone
    <3>1. AnimStep * 0 = 0 /\ Car1Y \in 0 .. 1023
      BY ControlAssumption DEF TypeOK
    <3> QED
      BY <1>2, <3>1 DEF Ahead, TransitionDone
  <2> QED
    BY <1>2, <2>1 DEF StartTransition, ClkTick, ClockedState, next_state
<1> QED
  BY <1>1, <1>2

\* The animation, left by a test for equality, is never out of reach of it: whatever
\* position the last animation left behind, the end is at most 1023 frames ahead, each
\* frame of the animation is one of them, and no other step takes it away.
THEOREM AnimationApproaches == Spec => []EndAhead /\ [][Nearer]_vars
<1>1. Inv /\ EndAhead /\ [Next]_vars => EndAhead'
  <2>1. EndAhead /\ UNCHANGED vars => EndAhead'
    BY DEF EndAhead, Ahead, AnimEnd, vars
  <2> QED
    BY <2>1, EndStaysAhead DEF Inv
<1>2. Inv /\ [Next]_vars => [Nearer]_vars
  BY StepNearer DEF Inv
<1> QED
  BY Invariance, InitAhead, <1>1, <1>2, PTL DEF Spec

-----------------------------------------------------------------------------
(* Every step of the two clocks is a step of a match, or none that shows. *)

LEMMA InitMatch == Init => M!Init
  BY DEF Init, M!Init, scene, InMatch

\* A tick of Clk changes the scene or nothing; whatever changes it forgets the
\* crashes and the timer, except on the way from the game to its results.
LEMMA ClkTickMatch == Inv /\ ClkTick => [M!Next]_(M!vars)
<1> SUFFICES ASSUME Inv, ClkTick PROVE M!Next \/ UNCHANGED M!vars
  OBVIOUS
<1>1. /\ curr_state' = ClockedState /\ curr_state \in States
      /\ Lost' = Lost /\ UNCHANGED show_results_count
  BY DEF ClkTick, Inv, TypeOK, Lost
<1>2. Lost # {} <=> GameOver
  BY DEF Lost, GameOver
<1>3. CASE curr_state' = curr_state
  BY <1>1, <1>3 DEF M!vars, scene, InMatch
<1>4. CASE curr_state' # curr_state /\ Reset_h
  <2>1. curr_state' = "START" /\ curr_state \in States \ {"START"}
    BY <1>1, <1>4 DEF ClockedState
  <2>2. M!Reset
    BY <2>1 DEF M!Reset, M!Cut, scene, InMatch, States
  <2> QED
    BY <2>2 DEF M!Next
<1>5. CASE curr_state' # curr_state /\ ~Reset_h
  <2>1. curr_state' = next_state
    BY <1>1, <1>5 DEF ClockedState
  <2>2. CASE curr_state = "START"
    <3>1. curr_state' = "START_TRANSITION"
      BY <1>5, <2>1, <2>2 DEF next_state
    <3> QED
      BY <2>2, <3>1 DEF M!Next, M!Depart, M!Cut, scene, InMatch
  <2>3. CASE curr_state = "START_TRANSITION"
    <3>1. curr_state' = "IN_GAME" /\ TransitionDone
      BY <1>5, <2>1, <2>3 DEF next_state
    <3>2. ~GameOver /\ show_results_count = 0
      BY <3>1, AnimMoves DEF Inv, LeftoversAtStart, TransitionDone
    <3>3. M!Play
      BY <1>1, <1>2, <2>3, <3>1, <3>2 DEF M!Play, M!Cut, scene, InMatch
    <3> QED
      BY <3>3 DEF M!Next
  <2>4. CASE curr_state = "IN_GAME"
    <3>1. CASE curr_state' = "END"
      BY <2>4, <3>1 DEF M!Next, M!Quit, M!Cut, scene, InMatch
    <3>2. CASE curr_state' # "END"
      <4>1. curr_state' = "RESULTS" /\ GameOver
        BY <1>5, <2>1, <2>4, <3>2 DEF next_state
      <4>2. M!Finish
        BY <1>1, <1>2, <2>4, <4>1 DEF M!Finish, scene, InMatch
      <4> QED
        BY <4>2 DEF M!Next
    <3> QED
      BY <3>1, <3>2
  <2>5. CASE curr_state = "RESULTS"
    <3>1. curr_state' = "END" /\ ResultsOver
      BY <1>5, <2>1, <2>5 DEF next_state
    <3> QED
      BY <2>5, <3>1 DEF M!Next, M!End, M!Cut, scene, InMatch, ResultsOver
  <2>6. CASE curr_state = "END"
    <3>1. curr_state' = "START"
      BY <1>5, <2>1, <2>6 DEF next_state
    <3> QED
      BY <2>6, <3>1 DEF M!Next, M!Again, M!Cut, scene, InMatch
  <2> QED
    BY <1>1, <2>2, <2>3, <2>4, <2>5, <2>6 DEF States
<1> QED
  BY <1>3, <1>4, <1>5

\* A frame finds the first crash of a game, shows its results for one frame more,
\* or shows nothing.
LEMMA FrameEdgeMatch == Inv /\ FrameEdge => [M!Next]_(M!vars)
<1> SUFFICES ASSUME Inv, FrameEdge PROVE M!Next \/ UNCHANGED M!vars
  OBVIOUS
<1>1. UNCHANGED curr_state /\ scene' = scene /\ InMatch' = InMatch
  BY DEF FrameEdge, scene, InMatch
<1>2. CASE curr_state = "IN_GAME"
  <2>1. ~GameOver /\ show_results_count = 0 /\ show_results_count' = 0
    BY <1>2 DEF FrameEdge, Inv, LeftInTime, TimerFresh, ResultsCount, DrawWinner
  <2>2. Lost = {}
    BY <2>1 DEF Lost, GameOver
  <2>3. CASE Lost' = {}
    BY <1>1, <1>2, <2>1, <2>2, <2>3 DEF M!vars
  <2>4. CASE Lost' # {}
    <3>1. Lost' \in (SUBSET {1, 2}) \ {{}}
      BY <2>4 DEF Lost
    <3>2. M!Crash
      BY <1>1, <1>2, <2>1, <2>2, <3>1 DEF M!Crash, scene, InMatch
    <3> QED
      BY <3>2 DEF M!Next
  <2> QED
    BY <2>3, <2>4
<1>3. CASE curr_state = "RESULTS"
  <2>1. Lost' = Lost
    BY <1>3 DEF FrameEdge, CrashLatches, HeldLatches, DrawGame, DrawWinner, Lost
  <2>2. show_results_count < ResultsFrames /\ show_results_count' = show_results_count + 1
    BY <1>3, ControlAssumption
       DEF FrameEdge, Inv, TypeOK, LeftInTime, ResultsOver, ResultsCount, NextCount, DrawWinner
  <2>3. M!Show
    BY <1>1, <1>3, <2>1, <2>2 DEF M!Show, scene, InMatch
  <2> QED
    BY <2>3 DEF M!Next
<1>4. CASE ~InMatch
  BY <1>1, <1>4 DEF M!vars
<1> QED
  BY <1>2, <1>3, <1>4 DEF InMatch

\* The screen state machine implements the match the players see, for every number
\* of frames and however its two clocks, the keys and the resets fall.
THEOREM Implements == Spec => ImplementsMatch
<1>1. Inv /\ [Next]_vars => [M!Next]_(M!vars)
  <2>1. KeycodeWrite \/ ResetButton \/ UNCHANGED vars => UNCHANGED M!vars
    BY DEF KeycodeWrite, ResetButton, vars, M!vars, scene, InMatch, Lost
  <2> QED
    BY ClkTickMatch, FrameEdgeMatch, <2>1 DEF Next
<1> QED
  BY InitMatch, Invariance, <1>1, PTL DEF Spec, ImplementsMatch, M!Spec

-----------------------------------------------------------------------------
(* One press of Enter does one thing, for every set of keycodes.            *)

\* The flag of the state machine says so only if Enter has been up on this screen.
Honest == curr_state = "START" /\ enter_released => enter_seen_up

\* Only an edge of Clk moves the state machine or its flag.
LEMMA OnClk ==
    ASSUME Next, ~ClkTick
    PROVE  curr_state' = curr_state /\ enter_released' = enter_released
  BY DEF Next, FrameEdge, KeycodeWrite, ResetButton

LEMMA HonestStep == Honest /\ [HNext]_hvars => Honest'
<1> SUFFICES ASSUME Honest, [HNext]_hvars, curr_state' = "START", enter_released'
             PROVE  enter_seen_up'
  BY DEF Honest
<1>1. CASE HNext
  <2>1. CASE ClkTick
    <3>1. FirstKey' # ENTER
      BY <2>1 DEF ClkTick, FirstKey
    <3> QED
      BY <1>1, <3>1, Zenon DEF HNext
  <2>2. CASE ~ClkTick
    <3>1. curr_state = "START" /\ enter_seen_up
      BY <1>1, <2>2, OnClk, Zenon DEF HNext, Honest
    <3> QED
      BY <1>1, <3>1, Zenon DEF HNext
  <2> QED
    BY <2>1, <2>2
<1>2. CASE UNCHANGED hvars
  BY <1>2 DEF hvars, vars, Honest
<1> QED
  BY <1>1, <1>2

\* The start screen is left for a game by the flag alone.
LEMMA LeavesByFlag ==
    ASSUME Honest, HNext, curr_state = "START", curr_state' = "START_TRANSITION"
    PROVE  enter_seen_up
<1>1. ClkTick
  BY OnClk DEF HNext
<1>2. next_state = "START_TRANSITION"
  BY <1>1 DEF ClkTick, ClockedState
<1>3. enter_released
  BY <1>2 DEF next_state, StartPressed
<1> QED
  BY <1>3 DEF Honest

\* The press of Enter that leaves the end screen, or one held since before a reset,
\* never also starts the next game (Display_control.sv:34,47), whatever else is in the
\* report and however the clocks and writes interleave.
THEOREM OnePress == HSpec => OnePressOneScreen
<1>1. HInit => Honest
  BY DEF HInit, Honest
<1>2. Honest /\ [HNext]_hvars
        => [curr_state = "START" /\ curr_state' = "START_TRANSITION" => enter_seen_up]_hvars
  BY LeavesByFlag
<1> QED
  BY <1>1, <1>2, HonestStep, PTL DEF HSpec, OnePressOneScreen
=============================================================================
