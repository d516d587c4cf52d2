----------------------------- MODULE Race_proof -----------------------------
(***************************************************************************)
(* Proofs about Race, for every geometry of cars and cones that satisfies  *)
(* the assumptions: where cars, screen and cones are; then what the crash  *)
(* test decides, that nobody crashes in the countdown, and that after it   *)
(* the ten-bit comparisons mean the overlap of two bodies.                 *)
(***************************************************************************)
EXTENDS Race, TLAPS

\* Two cars both above the threshold got there in the last frame.
BothAhead ==
    (\A p \in Players : car[p].y > progress + Threshold)
      => \A p \in Players : car[p].y <= progress + Threshold + JumpLength

InsideHorizon ==
    \A p \in Players : car[p].y <= Horizon + JumpLength

\* Until the countdown is over everything is where a game starts.
AtStart ==
    transition => /\ progress = 0 /\ speed = 0
                  /\ \A p \in Players : car[p].y = StartY
                  /\ \A l \in Lanes : obstacle_y[l] = ConeInit

Inv ==
    /\ TypeOK
    /\ InsideHorizon
    /\ AtStart
    /\ BothAhead
    /\ TrailBound

LEMMA Geometry ==
    /\ YMod \in Nat /\ StartY \in Nat /\ Threshold \in Nat /\ CatchUp \in Nat
    /\ JumpLength \in Nat /\ JumpLength > 0 /\ Gap \in Nat /\ Gap > 0
    /\ ConeInit \in Nat /\ Hop \in Nat /\ Hop > 0
    /\ CountdownFrames \in Nat /\ CountdownFrames > 0 /\ Horizon \in Nat
    /\ ConeInit < YMod /\ StartY < YMod
    /\ StartY <= Threshold /\ StartY <= Horizon
    /\ JumpLength <= Threshold + CatchUp /\ JumpLength + JumpLength <= Hop
    /\ Horizon + JumpLength + JumpLength + CatchUp + Threshold + Hop + Gap < YMod
  BY MoveCarAssumption, RaceAssumption, RoadAssumption

\* In a frame of the race proper a car stays, drives on, or jumps; it never goes
\* back, and nothing overflows.
LEMMA NextYRange ==
    ASSUME NEW a, NEW b, NEW keys, a.y \in 0 .. Horizon, speed \in 0 .. 1
    PROVE  /\ NextY(a, b, keys, speed) \in {a.y, a.y + speed, a.y + JumpLength}
           /\ NextY(a, b, keys, speed) \in a.y .. a.y + JumpLength
  BY Geometry DEF NextY, Wrap

LEMMA NextLaneRange ==
    ASSUME NEW a, NEW b, NEW keys, a.lane \in Lanes
    PROVE  NextLane(a, b, keys) \in Lanes
  BY DEF NextLane, ToLeft, ToRight, Lanes

\* What a frame does to the cars, the screen and the cones, hold or not.
LEMMA FrameCars ==
    ASSUME TypeOK, Frame
    PROVE  /\ hold => \A p \in Players : car'[p].y = StartY /\ car'[p].lane = StartLane(p)
           /\ ~hold => \A p \in Players :
                /\ car[p].y \in 0 .. Horizon
                /\ car'[p].y \in {car[p].y, car[p].y + speed, car[p].y + JumpLength}
                /\ car'[p].y \in car[p].y .. car[p].y + JumpLength
           /\ car' \in [Players -> Cars]
<1>1. PICK held \in HeldKeys : MoveCars(held)
  BY DEF Frame
<1>2. car' = [p \in Players |-> Drive(car[p], car[Other(p)], held[p], speed, hold, StartLane(p))]
  BY <1>1 DEF MoveCars
<1>3. ASSUME NEW p \in Players
      PROVE  /\ car'[p].y = IF hold THEN StartY ELSE NextY(car[p], car[Other(p)], held[p], speed)
             /\ car'[p].lane = IF hold THEN StartLane(p) ELSE NextLane(car[p], car[Other(p)], held[p])
  BY <1>2 DEF Drive
<1>4. speed \in 0 .. 1 /\ \A p \in Players : car[p].y \in 0 .. YMod - 1 /\ car[p].lane \in Lanes
  BY DEF TypeOK, Cars
<1>5. ASSUME ~hold, NEW p \in Players
      PROVE  car[p].y \in 0 .. Horizon
  BY <1>4, <1>5, Geometry DEF Frame, hold
<1>6. ASSUME ~hold, NEW p \in Players
      PROVE  /\ car'[p].y \in {car[p].y, car[p].y + speed, car[p].y + JumpLength}
             /\ car'[p].y \in car[p].y .. car[p].y + JumpLength
  BY <1>3, <1>4, <1>5, <1>6, NextYRange
<1>7. ASSUME NEW p \in Players
      PROVE  car'[p] \in Cars
  <2>1. car'[p].y \in 0 .. YMod - 1
    BY <1>3, <1>5, <1>6, Geometry
  <2>2. car'[p].lane \in Lanes
    BY <1>3, <1>4, NextLaneRange DEF StartLane, Lanes, Players
  <2>3. car'[p] = Drive(car[p], car[Other(p)], held[p], speed, hold, StartLane(p))
    BY <1>2
  <2> QED
    BY <2>1, <2>2, <2>3 DEF Drive, Cars
<1> QED
  BY <1>2, <1>3, <1>5, <1>6, <1>7

\* The screen stays, or catches up with the car that did not trigger the scroll.
LEMMA FrameProgress ==
    ASSUME Inv, Frame
    PROVE  /\ hold => progress' = 0
           /\ ~hold => \/ progress' = progress
                          /\ \A p \in Players : car[p].y <= progress + Threshold
                       \/ \E p \in Players : /\ car[Other(p)].y > progress + Threshold
                                             /\ progress' = car[p].y + CatchUp
<1>1. progress' = IF hold THEN 0 ELSE progress_in
  BY DEF Frame, Scroll
<1>2. SUFFICES ASSUME ~hold
      PROVE  \/ progress_in = progress
                /\ \A p \in Players : car[p].y <= progress + Threshold
             \/ \E p \in Players : /\ car[Other(p)].y > progress + Threshold
                                   /\ progress_in = car[p].y + CatchUp
  BY <1>1
<1>3. /\ car[1].y \in 0 .. Horizon /\ car[2].y \in 0 .. Horizon
      /\ progress \in Nat /\ progress <= car[1].y + JumpLength + CatchUp
  BY <1>2, FrameCars, Geometry DEF Inv, TrailBound, Players, TypeOK
<1>4. /\ Wrap(progress + Threshold) = progress + Threshold
      /\ Wrap(car[1].y + CatchUp) = car[1].y + CatchUp
      /\ Wrap(car[2].y + CatchUp) = car[2].y + CatchUp
  BY <1>3, Geometry DEF Wrap
<1>5. CASE car[1].y > progress + Threshold
  <2>1. progress_in = car[2].y + CatchUp
    BY <1>4, <1>5 DEF progress_in
  <2> QED
    BY <2>1, <1>5 DEF Players, Other
<1>6. CASE ~(car[1].y > progress + Threshold) /\ car[2].y > progress + Threshold
  <2>1. progress_in = car[1].y + CatchUp
    BY <1>4, <1>6 DEF progress_in
  <2> QED
    BY <2>1, <1>6 DEF Players, Other
<1>7. CASE ~(car[1].y > progress + Threshold) /\ ~(car[2].y > progress + Threshold)
  <2>1. progress_in = progress
    BY <1>4, <1>7 DEF progress_in
  <2> QED
    BY <2>1, <1>3, <1>7, Geometry DEF Players
<1> QED
  BY <1>5, <1>6, <1>7

LEMMA PlayersCases ==
    /\ \A p \in Players : Other(p) \in Players /\ Other(Other(p)) = p
    /\ \A p, q \in Players : q = p \/ q = Other(p)
  BY DEF Players, Other

\* One frame in which the race runs.
LEMMA RunningFrame ==
    ASSUME Inv, Frame, ~hold
    PROVE  /\ BothAhead'
           /\ TrailBound'
           /\ progress' \in 0 .. Horizon + JumpLength + CatchUp
           /\ progress' + JumpLength >= progress
<1>1. \A p \in Players : /\ car[p].y \in 0 .. Horizon
                         /\ car'[p].y \in car[p].y .. car[p].y + JumpLength
  BY FrameCars DEF Inv
<1>2. progress \in Nat /\ \A p \in Players : progress <= car[p].y + JumpLength + CatchUp
  BY Geometry DEF Inv, TypeOK, TrailBound
<1>3. CASE progress' = progress /\ \A p \in Players : car[p].y <= progress + Threshold
  <2>1. \A p \in Players : car'[p].y <= progress' + Threshold + JumpLength
    BY <1>1, <1>2, <1>3, Geometry
  <2>2. \A p \in Players : progress' <= car'[p].y + JumpLength + CatchUp
    BY <1>1, <1>2, <1>3, Geometry
  <2>3. progress' \in 0 .. Horizon + JumpLength + CatchUp
    BY <1>1, <1>2, <1>3, Geometry DEF Players
  <2> QED
    BY <2>1, <2>2, <2>3, <1>2, <1>3, Geometry DEF BothAhead, TrailBound
<1>4. ASSUME NEW p \in Players, car[Other(p)].y > progress + Threshold,
             progress' = car[p].y + CatchUp
      PROVE  /\ BothAhead' /\ TrailBound'
             /\ progress' \in 0 .. Horizon + JumpLength + CatchUp
             /\ progress' + JumpLength >= progress
  <2> DEFINE q == Other(p)
  <2>1. q \in Players /\ \A r \in Players : r = p \/ r = q
    BY PlayersCases
  <2> HIDE DEF q
  <2>2. car[q].y > progress + Threshold
    BY <1>4 DEF q
  <2>3. car[p].y <= progress + Threshold + JumpLength
    BY <1>1, <1>2, <2>1, <2>2, Geometry DEF Inv, BothAhead
  <2>4. ~(car'[p].y > progress' + Threshold)
    BY <1>1, <1>4, Geometry
  <2>5. BothAhead'
    BY <2>4 DEF BothAhead
  <2>6. progress' <= car'[p].y + JumpLength + CatchUp
    BY <1>1, <1>4, Geometry
  <2>7. progress' <= car'[q].y + JumpLength + CatchUp
    BY <1>1, <1>2, <1>4, <2>1, <2>2, <2>3, Geometry
  <2>8. TrailBound'
    BY <2>1, <2>6, <2>7 DEF TrailBound
  <2>9. /\ progress' \in 0 .. Horizon + JumpLength + CatchUp
        /\ progress' + JumpLength >= progress
    BY <1>1, <1>2, <1>4, Geometry
  <2> QED
    BY <2>5, <2>8, <2>9
<1> QED
  BY <1>3, <1>4, FrameProgress

\* A frame of the countdown, or of another screen, leaves or puts all at the start.
LEMMA HoldingFrame ==
    ASSUME Inv, Frame, hold
    PROVE  /\ progress' = 0 /\ speed' = 0
           /\ \A p \in Players : car'[p].y = StartY
           /\ \A l \in Lanes : obstacle_y'[l] = ConeInit
<1>1. progress' = 0 /\ speed' = 0
  BY DEF Frame, Scroll
<1>2. \A p \in Players : car'[p].y = StartY
  BY FrameCars DEF Inv
<1>3. ASSUME NEW l \in Lanes PROVE obstacle_y'[l] = ConeInit
  <2>1. obstacle_y'[l] = HopCone(l)
    BY DEF Frame, PlaceCones
  <2>2. CASE ~DrawGame
    BY <2>1, <2>2 DEF HopCone
  <2>3. CASE DrawGame /\ transition
    <3>1. progress = 0 /\ obstacle_y[l] = ConeInit
      BY <2>3 DEF Inv, AtStart
    <3> QED
      BY <2>1, <2>3, <3>1, Geometry DEF HopCone
  <2> QED
    BY <2>2, <2>3 DEF hold
<1> QED
  BY <1>1, <1>2, <1>3

\* Hopping does not overflow.
LEMMA HopRange ==
    ASSUME Inv, Frame, NEW l \in Lanes
    PROVE  /\ obstacle_y'[l] \in 0 .. YMod - 1
           /\ ~hold => obstacle_y'[l] = IF obstacle_y[l] < progress
                                        THEN obstacle_y[l] + Hop ELSE obstacle_y[l]
<1>1. obstacle_y'[l] = HopCone(l)
  BY DEF Frame, PlaceCones
<1>2. CASE hold
  <2>1. obstacle_y'[l] = ConeInit
    BY <1>2, HoldingFrame
  <2> QED
    BY <2>1, <1>2, Geometry
<1>3. CASE ~hold
  <2>1. car[1].y \in 0 .. Horizon
    BY <1>3, FrameCars DEF Inv, Players
  <2>2. progress \in Nat /\ progress <= Horizon + JumpLength + CatchUp
    BY <2>1, Geometry DEF Inv, TypeOK, TrailBound, Players
  <2>3. obstacle_y[l] \in 0 .. YMod - 1
    BY DEF Inv, TypeOK
  <2>4. HopCone(l) = IF obstacle_y[l] < progress
                     THEN Wrap(obstacle_y[l] + Hop) ELSE obstacle_y[l]
    BY <1>3 DEF HopCone, hold
  <2>5. obstacle_y[l] < progress => Wrap(obstacle_y[l] + Hop) = obstacle_y[l] + Hop
    BY <2>2, <2>3, Geometry DEF Wrap
  <2>6. obstacle_y[l] < progress => obstacle_y[l] + Hop \in 0 .. YMod - 1
    BY <2>2, <2>3, Geometry
  <2> QED
    BY <1>1, <2>3, <2>4, <2>5, <2>6
<1> QED
  BY <1>2, <1>3

LEMMA FrameTypes ==
    ASSUME Inv, Frame
    PROVE  TypeOK' /\ InsideHorizon'
<1>1. car' \in [Players -> Cars]
  BY FrameCars DEF Inv
<1>2. speed' \in 0 .. 1
  BY DEF Frame, Scroll
<1>3. progress' \in 0 .. YMod - 1
  <2>1. CASE hold
    BY <2>1, HoldingFrame, Geometry
  <2>2. CASE ~hold
    BY <2>2, RunningFrame, Geometry
  <2> QED
    BY <2>1, <2>2
<1>4. count' \in 0 .. CountdownFrames
  BY Geometry DEF Inv, TypeOK, Frame, Countdown, transition
<1>5. obstacle_y' \in [Lanes -> 0 .. YMod - 1]
  <2>1. obstacle_y' = [l \in Lanes |-> HopCone(l)]
    BY DEF Frame, PlaceCones
  <2> QED
    BY <2>1, HopRange
<1>6. Exists' \in [Lanes -> BOOLEAN]
  <2>1. PICK row \in ConeRows : PlaceCones(row)
    BY DEF Frame
  <2> DEFINE E(l) == IF ~DrawGame \/ obstacle_y[l] < progress
                     THEN l \in row ELSE Exists[l]
  <2>2. Exists' = [l \in Lanes |-> E(l)]
    BY <2>1 DEF PlaceCones
  <2>3. \A l \in Lanes : Exists[l] \in BOOLEAN
    BY DEF Inv, TypeOK
  <2>4. ASSUME NEW l \in Lanes PROVE E(l) \in BOOLEAN
    <3>1. E(l) = (l \in row) \/ E(l) = Exists[l]
      OBVIOUS
    <3>2. (l \in row) \in BOOLEAN
      OBVIOUS
    <3> HIDE DEF E
    <3> QED
      BY <2>3, <3>1, <3>2
  <2> HIDE DEF E
  <2> QED
    BY <2>2, <2>4
<1>7. ded' \in [Players -> BOOLEAN]
  <2>1. \A p \in Players : Hits(p) \in BOOLEAN
    BY DEF Hits, Meet
  <2> QED
    BY <2>1 DEF Frame, DetectCrashes
<1>8. InsideHorizon'
  <2>1. CASE hold
    BY <2>1, HoldingFrame, Geometry DEF InsideHorizon
  <2>2. CASE ~hold
    <3>1. \A p \in Players : /\ car[p].y \in 0 .. Horizon
                             /\ car'[p].y \in car[p].y .. car[p].y + JumpLength
      BY <2>2, FrameCars DEF Inv
    <3> QED
      BY <3>1, Geometry DEF InsideHorizon
  <2> QED
    BY <2>1, <2>2
<1>9. screen' \in {"off", "game", "results"}
  BY DEF Frame, Inv, TypeOK
<1> QED
  BY <1>1, <1>2, <1>3, <1>4, <1>5, <1>6, <1>7, <1>8, <1>9 DEF TypeOK

LEMMA FrameInv == Inv /\ Frame => Inv'
<1> SUFFICES ASSUME Inv, Frame PROVE Inv'
  OBVIOUS
<1>1. TypeOK' /\ InsideHorizon'
  BY FrameTypes
<1>2. CASE hold
  <2>1. AtStart'
    BY <1>2, HoldingFrame DEF AtStart
  <2>2. BothAhead' /\ TrailBound'
    BY <1>2, HoldingFrame, Geometry DEF BothAhead, TrailBound
  <2> QED
    BY <1>1, <2>1, <2>2 DEF Inv
<1>3. CASE ~hold
  <2>1. ~transition'
    BY <1>3 DEF hold, transition, Frame, Countdown
  <2>2. BothAhead' /\ TrailBound'
    BY <1>3, RunningFrame
  <2> QED
    BY <1>1, <2>1, <2>2 DEF Inv, AtStart
<1> QED
  BY <1>2, <1>3

LEMMA StartInv == Init => Inv
<1> SUFFICES ASSUME Init PROVE Inv
  OBVIOUS
<1>1. car \in [Players -> Cars]
  BY Geometry DEF Init, Cars, StartLane, Lanes, Players
<1>2. /\ progress = 0 /\ speed = 0 /\ count = 0
      /\ \A p \in Players : car[p].y = StartY
      /\ \A l \in Lanes : obstacle_y[l] = ConeInit
  BY DEF Init
<1>3. TypeOK
  <2>1. Exists \in [Lanes -> BOOLEAN]
    BY DEF Init
  <2>2. ded \in [Players -> BOOLEAN] /\ obstacle_y \in [Lanes -> 0 .. YMod - 1]
    BY Geometry DEF Init
  <2> QED
    BY <1>1, <1>2, <2>1, <2>2, Geometry DEF Init, TypeOK
<1> QED
  BY <1>2, <1>3, Geometry DEF Inv, InsideHorizon, AtStart, BothAhead, TrailBound

\* Screens come and go without touching the race.
LEMMA ScreenInv == Inv /\ (StartGame \/ ShowResults \/ LeaveGame \/ UNCHANGED vars) => Inv'
<1> SUFFICES ASSUME Inv, UNCHANGED race, screen' \in {"off", "game", "results"}
             PROVE  Inv'
  BY DEF StartGame, ShowResults, LeaveGame, vars, race, Inv, TypeOK
<1> QED
  BY DEF race, Inv, TypeOK, InsideHorizon, AtStart, BothAhead, TrailBound, transition

\* The inductive invariant of the race.
THEOREM Invariance == Spec => []Inv
<1>1. Inv /\ [Next]_vars => Inv'
  BY FrameInv, ScreenInv DEF Next
<1> QED
  BY StartInv, <1>1, PTL DEF Spec

\* Type correctness: in particular both cars keep to the three lanes, and no
\* position overflows before the horizon.
THEOREM TypeCorrect == Spec => []TypeOK
<1>1. Inv => TypeOK
  BY DEF Inv
<1> QED
  BY Invariance, <1>1, PTL

\* The screen never leaves a car behind by more than a jump and the catch-up
\* distance, for every road that satisfies the assumptions.
THEOREM NoCarLeftBehind == Spec => []TrailBound
<1>1. Inv => TrailBound
  BY DEF Inv
<1> QED
  BY Invariance, <1>1, PTL

\* The screen never scrolls back by more than a jump.
THEOREM ScrollBack == Spec => ScrollBackBounded
<1>1. Inv /\ [Next]_vars =>
        [DrawGame => progress' >= progress - JumpLength \/ progress' = 0]_vars
  <2> SUFFICES ASSUME Inv, Next, DrawGame
               PROVE  progress' >= progress - JumpLength \/ progress' = 0
    OBVIOUS
  <2>1. progress \in Nat
    BY DEF Inv, TypeOK
  <2>2. CASE Frame /\ hold
    BY <2>2, HoldingFrame
  <2>3. CASE Frame /\ ~hold
    BY <2>1, <2>3, RunningFrame, Geometry
  <2>4. CASE StartGame \/ ShowResults \/ LeaveGame
    BY <2>1, <2>4, Geometry DEF StartGame, ShowResults, LeaveGame, race
  <2> QED
    BY <2>2, <2>3, <2>4 DEF Next
<1> QED
  BY Invariance, <1>1, PTL DEF Spec, ScrollBackBounded

-----------------------------------------------------------------------------
(* The cones.  A row hops past the bottom of the screen; how far it can then *)
(* be from the screen depends on where the cars are, for the screen may yet  *)
(* catch up with the one and scroll back to the other.                       *)

ConeAbove(l) ==
    \/ obstacle_y[l] = ConeInit
    \/ /\ obstacle_y[l] < progress + Hop + JumpLength
       /\ \A p \in Players : obstacle_y[l] < car[p].y + CatchUp + Hop + JumpLength

CarWithin(l) ==
    \E p \in Players : car[p].y <= obstacle_y[l] + Threshold + JumpLength + JumpLength

ScreenWithin(l) == progress <= obstacle_y[l] + Threshold + JumpLength + CatchUp

ConeInv == \A l \in Lanes : ConeAbove(l) /\ CarWithin(l) /\ ScreenWithin(l)

LEMMA RunningCones ==
    ASSUME Inv, ConeInv, Frame, ~hold, NEW l \in Lanes
    PROVE  ConeAbove(l)' /\ CarWithin(l)' /\ ScreenWithin(l)'
<1> DEFINE c == obstacle_y[l]
           d == obstacle_y'[l]
           P == progress
           Q == progress'
<1>1. /\ c \in Nat /\ d = IF c < P THEN c + Hop ELSE c
      /\ P \in Nat /\ Q \in Nat /\ P <= Q + JumpLength
  BY HopRange, RunningFrame, Geometry DEF Inv, TypeOK
<1>2. \A p \in Players : /\ car[p].y \in Nat /\ car'[p].y \in Nat
                         /\ car[p].y <= car'[p].y
                         /\ car'[p].y <= car[p].y + JumpLength
                         /\ P <= car[p].y + JumpLength + CatchUp
  BY FrameCars, Geometry DEF Inv, TrailBound
<1>3. /\ c = ConeInit \/ /\ c < P + Hop + JumpLength
                         /\ \A p \in Players : c < car[p].y + CatchUp + Hop + JumpLength
      /\ \E p \in Players : car[p].y <= c + Threshold + JumpLength + JumpLength
      /\ P <= c + Threshold + JumpLength + CatchUp
  BY DEF ConeInv, ConeAbove, CarWithin, ScreenWithin
<1>4. CASE Q = P /\ \A p \in Players : car[p].y <= P + Threshold
  <2>1. d = ConeInit \/ /\ d < Q + Hop + JumpLength
                        /\ \A p \in Players : d < car'[p].y + CatchUp + Hop + JumpLength
    BY <1>1, <1>2, <1>3, <1>4, Geometry
  <2>2. \E p \in Players : car'[p].y <= d + Threshold + JumpLength + JumpLength
    <3>1. PICK p \in Players : car[p].y <= c + Threshold + JumpLength + JumpLength
      BY <1>3
    <3>2. car'[p].y <= d + Threshold + JumpLength + JumpLength
      BY <3>1, <1>1, <1>2, <1>4, Geometry
    <3> QED
      BY <3>2
  <2>3. Q <= d + Threshold + JumpLength + CatchUp
    BY <1>1, <1>3, <1>4, Geometry
  <2> QED
    BY <2>1, <2>2, <2>3 DEF ConeAbove, CarWithin, ScreenWithin
<1>5. ASSUME NEW p \in Players, car[Other(p)].y > P + Threshold, Q = car[p].y + CatchUp
      PROVE  ConeAbove(l)' /\ CarWithin(l)' /\ ScreenWithin(l)'
  <2> DEFINE q == Other(p)
  <2>1. q \in Players /\ \A r \in Players : r = p \/ r = q
    BY PlayersCases
  <2>2. car[q].y > P + Threshold
    BY <1>5
  <2> HIDE DEF q
  <2>3. car[p].y <= P + Threshold + JumpLength
    BY <1>1, <1>2, <2>1, <2>2, Geometry DEF Inv, BothAhead
  <2>4. d = ConeInit \/ /\ d < Q + Hop + JumpLength
                        /\ \A r \in Players : d < car'[r].y + CatchUp + Hop + JumpLength
    BY <1>1, <1>2, <1>3, <1>5, Geometry
  <2>5. PICK r \in Players : car[r].y <= c + Threshold + JumpLength + JumpLength
    BY <1>3
  <2>6. \E s \in Players : car'[s].y <= d + Threshold + JumpLength + JumpLength
    <3>1. CASE c < P
      <4>1. car'[r].y <= d + Threshold + JumpLength + JumpLength
        BY <3>1, <1>1, <1>2, <2>5, Geometry
      <4> QED
        BY <4>1
    <3>2. CASE ~(c < P)
      <4>1. car'[p].y <= d + Threshold + JumpLength + JumpLength
        BY <3>2, <1>1, <1>2, <2>3, Geometry
      <4> QED
        BY <4>1
    <3> QED
      BY <3>1, <3>2
  <2>7. Q <= d + Threshold + JumpLength + CatchUp
    <3>1. CASE ~(c < P)
      BY <3>1, <1>1, <1>2, <1>5, <2>3, Geometry
    <3>2. CASE c < P /\ r = p
      BY <3>2, <1>1, <1>2, <1>5, <2>5, Geometry
    <3>3. CASE c < P /\ r = q
      BY <3>3, <1>1, <1>2, <1>5, <2>1, <2>2, <2>3, <2>5, Geometry
    <3> QED
      BY <2>1, <3>1, <3>2, <3>3
  <2> QED
    BY <2>4, <2>6, <2>7 DEF ConeAbove, CarWithin, ScreenWithin
<1> QED
  BY <1>4, <1>5, FrameProgress

LEMMA FrameCones == Inv /\ ConeInv /\ Frame => ConeInv'
<1> SUFFICES ASSUME Inv, ConeInv, Frame, NEW l \in Lanes
             PROVE  ConeAbove(l)' /\ CarWithin(l)' /\ ScreenWithin(l)'
  BY DEF ConeInv
<1>1. CASE hold
  <2>1. /\ obstacle_y'[l] = ConeInit /\ progress' = 0
        /\ car'[1].y = StartY
    BY <1>1, HoldingFrame DEF Players
  <2>2. 1 \in Players
    BY DEF Players
  <2> QED
    BY <2>1, <2>2, Geometry DEF ConeAbove, CarWithin, ScreenWithin
<1>2. CASE ~hold
  BY <1>2, RunningCones
<1> QED
  BY <1>1, <1>2

\* The row of cones stays near the screen, above and below, for every road.
THEOREM ConesNear == Spec => []ConesInReach
<1>1. Init => ConeInv
  <2> SUFFICES ASSUME Init, NEW l \in Lanes
               PROVE  ConeAbove(l) /\ CarWithin(l) /\ ScreenWithin(l)
    BY DEF ConeInv
  <2>1. obstacle_y[l] = ConeInit /\ progress = 0 /\ car[1].y = StartY /\ 1 \in Players
    BY DEF Init, Players
  <2> QED
    BY <2>1, Geometry DEF ConeAbove, CarWithin, ScreenWithin
<1>2. ConeInv /\ (StartGame \/ ShowResults \/ LeaveGame \/ UNCHANGED vars) => ConeInv'
  BY DEF ConeInv, ConeAbove, CarWithin, ScreenWithin, StartGame, ShowResults,
         LeaveGame, vars, race
<1>3. Inv /\ ConeInv /\ [Next]_vars => ConeInv'
  BY <1>2, FrameCones DEF Next
<1>4. ConeInv => ConesInReach
  BY DEF ConeInv, ConeAbove, ScreenWithin, ConesInReach
<1> QED
  BY Invariance, <1>1, <1>3, <1>4, PTL DEF Spec

\* The instances of the three lanes never come apart.
THEOREM ConesOneRow == Spec => []OneRow
<1>1. Init => OneRow
  BY DEF Init, OneRow
<1>2. OneRow /\ [Next]_vars => OneRow'
  <2> SUFFICES ASSUME OneRow, [Next]_vars PROVE OneRow'
    OBVIOUS
  <2>1. CASE Frame
    <3>1. obstacle_y' = [l \in Lanes |-> HopCone(l)]
      BY <2>1 DEF Frame, PlaceCones
    <3>2. \A l, k \in Lanes : HopCone(l) = HopCone(k)
      BY DEF HopCone, OneRow
    <3> QED
      BY <3>1, <3>2 DEF OneRow
  <2>2. CASE UNCHANGED obstacle_y
    BY <2>2 DEF OneRow
  <2> QED
    BY <2>1, <2>2 DEF Next, StartGame, ShowResults, LeaveGame, race, vars
<1> QED
  BY <1>1, <1>2, PTL DEF Spec

-----------------------------------------------------------------------------
(* How cars come close to each other. *)

Apart(a, b) == a.y > b.y + Gap \/ b.y > a.y + Gap

\* Away from the start, the guard of a turn and of the brake means what it says.
LEMMA SideClearMeans ==
    ASSUME NEW a, NEW b, NEW lane,
           a.y \in Gap .. Horizon, b.y \in Gap .. Horizon, SideClear(a, b, lane)
    PROVE  b.lane # lane \/ Apart(a, b)
  BY Geometry DEF SideClear, Wrap, Apart

LEMMA TurnsApart ==
    ASSUME NEW a, NEW b, NEW keys, a.lane \in Lanes,
           a.y \in Gap .. Horizon, b.y \in Gap .. Horizon,
           NextLane(a, b, keys) # a.lane, b.lane = NextLane(a, b, keys)
    PROVE  Apart(a, b)
<1>1. CASE GoesRight(a, b, keys)
  <2>1. a.lane # 2 /\ b.lane = RightLane(a.lane)
    BY <1>1 DEF NextLane, ToRight, RightLane, Lanes
  <2> QED
    BY <1>1, <2>1, SideClearMeans DEF GoesRight
<1>2. CASE ~GoesRight(a, b, keys) /\ GoesLeft(a, b, keys)
  <2>1. a.lane # 0 /\ b.lane = LeftLane(a.lane)
    BY <1>2 DEF NextLane, ToLeft, LeftLane, Lanes
  <2> QED
    BY <1>2, <2>1, SideClearMeans DEF GoesLeft
<1> QED
  BY <1>1, <1>2 DEF NextLane

LEMMA StaysApart ==
    ASSUME NEW a, NEW b, NEW keys, a.lane = b.lane, speed \in 0 .. 1,
           a.y \in Gap .. Horizon, b.y \in Gap .. Horizon,
           NextY(a, b, keys, speed) = a.y
    PROVE  speed = 0 \/ Apart(a, b)
<1>1. CASE Brakes(a, b, keys)
  BY <1>1, SideClearMeans DEF Brakes
<1>2. CASE ~Brakes(a, b, keys)
  BY <1>2, Geometry DEF NextY, Wrap
<1> QED
  BY <1>1, <1>2

\* Cars do not drive or turn into each other: what NoCreep lists is all that can
\* bring them close.
THEOREM CarsDoNotCreep == Spec => NoCreep
<1> DEFINE Excused ==
      \/ \E p \in Players : car'[p].y = car[p].y + JumpLength
      \/ \A p \in Players : car'[p].lane # car[p].lane
      \/ \E p \in Players : car[p].y < Gap
<1>1. ASSUME Inv, Frame, ~Excused, ~Close(car[1], car[2]), Close(car'[1], car'[2])
      PROVE  FALSE
  <2>1. PICK held \in HeldKeys : MoveCars(held)
    BY <1>1 DEF Frame
  <2>2. 1 \in Players /\ 2 \in Players /\ Other(1) = 2 /\ Other(2) = 1
    BY DEF Players, Other
  <2>3. ~hold
    <3>1. hold => car'[1].lane = 0 /\ car'[2].lane = 2
      BY <1>1, <2>2, FrameCars DEF Inv, StartLane
    <3> QED
      BY <1>1, <3>1 DEF Close
  <2>4. /\ car[1].lane \in Lanes /\ car[2].lane \in Lanes /\ speed \in 0 .. 1
        /\ car[1].y \in 0 .. Horizon /\ car[2].y \in 0 .. Horizon
    BY <1>1, <2>2, <2>3, FrameCars DEF Inv, TypeOK, Cars
  <2>5. car[1].y \in Gap .. Horizon /\ car[2].y \in Gap .. Horizon
    BY <1>1, <2>2, <2>4, Geometry
  <2>6. /\ car'[1].y = NextY(car[1], car[2], held[1], speed)
        /\ car'[2].y = NextY(car[2], car[1], held[2], speed)
        /\ car'[1].lane = NextLane(car[1], car[2], held[1])
        /\ car'[2].lane = NextLane(car[2], car[1], held[2])
    BY <2>1, <2>2, <2>3 DEF MoveCars, Drive
  <2>7. /\ car'[1].y \in {car[1].y, car[1].y + speed}
        /\ car'[2].y \in {car[2].y, car[2].y + speed}
    BY <1>1, <2>2, <2>3, FrameCars DEF Inv
  <2>8. CASE car'[1].lane = car[1].lane /\ car'[2].lane = car[2].lane
    <3>1. car[1].lane = car[2].lane
      BY <1>1, <2>8 DEF Close
    <3>2. ~(car[1].y - car[2].y < Gap /\ car[2].y - car[1].y < Gap)
      BY <1>1, <3>1 DEF Close
    <3>3. car'[1].y = car[1].y => speed = 0 \/ Apart(car[1], car[2])
      BY <2>4, <2>5, <2>6, <3>1, StaysApart
    <3>4. car'[2].y = car[2].y => speed = 0 \/ Apart(car[2], car[1])
      BY <2>4, <2>5, <2>6, <3>1, StaysApart
    <3>5. car'[1].y - car'[2].y < Gap /\ car'[2].y - car'[1].y < Gap
      BY <1>1 DEF Close
    <3> QED
      BY <2>4, <2>5, <2>7, <3>2, <3>3, <3>4, <3>5, Geometry DEF Apart
  <2>9. CASE car'[1].lane # car[1].lane /\ car'[2].lane = car[2].lane
    <3>1. Apart(car[1], car[2])
      BY <1>1, <2>4, <2>5, <2>6, <2>9, TurnsApart DEF Close
    <3> QED
      BY <1>1, <2>4, <2>5, <2>7, <3>1, Geometry DEF Apart, Close
  <2>10. CASE car'[2].lane # car[2].lane /\ car'[1].lane = car[1].lane
    <3>1. Apart(car[2], car[1])
      BY <1>1, <2>4, <2>5, <2>6, <2>10, TurnsApart DEF Close
    <3> QED
      BY <1>1, <2>4, <2>5, <2>7, <3>1, Geometry DEF Apart, Close
  <2> QED
    BY <1>1, <2>8, <2>9, <2>10 DEF Players
<1>2. Inv /\ [Next]_vars => [~Close(car[1], car[2]) /\ Close(car[1], car[2])' => Excused]_vars
  <2> SUFFICES ASSUME Inv, Next, ~Close(car[1], car[2]), Close(car[1], car[2])'
               PROVE  Excused
    OBVIOUS
  <2>1. Close(car'[1], car'[2])
    BY DEF Close
  <2>2. CASE Frame
    BY <1>1, <2>1, <2>2
  <2>3. CASE UNCHANGED car
    BY <2>1, <2>3
  <2> QED
    BY <2>2, <2>3 DEF Next, StartGame, ShowResults, LeaveGame, race
<1> QED
  BY Invariance, <1>2, PTL DEF Spec, NoCreep

-----------------------------------------------------------------------------
(* Remainders. *)

LEMMA ModRange ==
    ASSUME NEW x \in Int, NEW M \in Nat \ {0}
    PROVE  /\ x % M \in 0 .. M - 1 /\ x \div M \in Int
           /\ x = M * (x \div M) + (x % M)
  BY SMT

\* A multiple of M between -M and M is none but zero.
LEMMA SmallMultiple ==
    ASSUME NEW M \in Nat \ {0}, NEW q \in Int, M * q < M, M * q > -M
    PROVE  q = 0
<1>1. CASE q >= 1
  BY <1>1, SMT
<1>2. CASE q <= -1
  BY <1>2, SMT
<1> QED
  BY <1>1, <1>2

LEMMA ModUnique ==
    ASSUME NEW x \in Int, NEW M \in Nat \ {0}, NEW q \in Int, NEW r \in 0 .. M - 1,
           x = M * q + r
    PROVE  x % M = r
<1> DEFINE k == q - (x \div M)
<1>1. /\ x % M \in 0 .. M - 1 /\ x \div M \in Int
      /\ x = M * (x \div M) + (x % M)
  BY ModRange
<1>2. M * k = M * q - M * (x \div M)
  BY <1>1, SMT
<1>3. k \in Int
  BY <1>1
<1> HIDE DEF k
<1>4. M * k < M /\ M * k > -M
  <2>1. M * q = x - r /\ M * (x \div M) = x - (x % M)
    BY <1>1
  <2>2. M * k = (x % M) - r
    BY <1>1, <1>2, <2>1
  <2> QED
    BY <1>1, <2>2
<1>5. k = 0
  BY <1>3, <1>4, SmallMultiple
<1> QED
  BY <1>1, <1>5 DEF k

\* The difference of two remainders.
LEMMA ModDifference ==
    ASSUME NEW x \in Int, NEW y \in Int, NEW M \in Nat \ {0}
    PROVE  (x - y) % M = IF x % M >= y % M THEN (x % M) - (y % M)
                                           ELSE (x % M) - (y % M) + M
<1> DEFINE q == (x \div M) - (y \div M)
           a == x % M
           b == y % M
<1>1. a \in 0 .. M - 1 /\ b \in 0 .. M - 1 /\ q \in Int /\ x - y \in Int
  BY ModRange
<1>2. x - y = M * q + (a - b) /\ M * (q - 1) = M * q - M
  <2>1. x = M * (x \div M) + a /\ y = M * (y \div M) + b
    BY ModRange
  <2>2. /\ M * q = M * (x \div M) - M * (y \div M)
        /\ M * (q - 1) = M * q - M
    BY ModRange, SMT
  <2> QED
    BY <1>1, <2>1, <2>2
<1> SUFFICES (x - y) % M = IF a >= b THEN a - b ELSE a - b + M
  OBVIOUS
<1> HIDE DEF q, a, b
<1>3. CASE a >= b
  <2>1. a - b \in 0 .. M - 1
    BY <1>1, <1>3
  <2> QED
    BY <1>1, <1>2, <1>3, <2>1, ModUnique
<1>4. CASE ~(a >= b)
  <2>1. a - b + M \in 0 .. M - 1 /\ q - 1 \in Int
    BY <1>1, <1>4
  <2>2. x - y = M * (q - 1) + (a - b + M)
    BY <1>1, <1>2
  <2> QED
    BY <1>1, <1>4, <2>1, <2>2, ModUnique
<1> QED
  BY <1>3, <1>4

LEMMA ModSmall ==
    ASSUME NEW M \in Nat \ {0}, NEW x \in 0 .. M - 1
    PROVE  x % M = x
  BY SMT

-----------------------------------------------------------------------------
(* The comparisons. *)

LEMMA Bodies ==
    /\ RelMod \in Nat \ {0} /\ ScreenBottom \in Nat
    /\ CarTop \in Nat /\ CarBottom \in Nat /\ ConeTop \in Nat /\ ConeBottom \in Nat
    /\ ConeBottom <= ConeTop /\ CarTop + ConeTop <= CarBottom + ConeBottom
    /\ CarBottom + ConeTop < RelMod
  BY RaceAssumption, BodyAssumption

\* Two bodies in one piece meet if and only if they overlap, but for two distances.
LEMMA MeetMeans ==
    ASSUME NEW a \in 0 .. RelMod - 1, NEW b \in 0 .. RelMod - 1, Whole(a, b)
    PROVE  Meet(a, b) <=> /\ BodyReach(b - a)
                          /\ b - a # CarTop + ConeTop /\ b - a # CarBottom + ConeBottom
<1>1. /\ a + CarTop \in 0 .. RelMod - 1 /\ a + CarBottom \in 0 .. RelMod - 1
      /\ b - ConeTop \in 0 .. RelMod - 1 /\ b - ConeBottom \in 0 .. RelMod - 1
  BY Bodies DEF Whole
<1>2. /\ (a + CarTop) % RelMod = a + CarTop /\ (a + CarBottom) % RelMod = a + CarBottom
      /\ (b - ConeTop) % RelMod = b - ConeTop /\ (b - ConeBottom) % RelMod = b - ConeBottom
  BY <1>1, Bodies, ModSmall
<1>3. Meet(a, b) <=> \/ a + CarTop < b - ConeTop /\ a + CarBottom > b - ConeBottom
                     \/ a + CarTop > b - ConeTop /\ a + CarTop < b - ConeBottom
                     \/ a + CarBottom > b - ConeTop /\ a + CarBottom < b - ConeBottom
  BY <1>2, Zenon DEF Meet
<1>4. /\ BodyReach(b - a) <=> b - a > CarTop + ConeBottom /\ b - a < CarBottom + ConeTop
      /\ b - a \in Int
  BY Bodies DEF BodyReach
<1>5. a \in Int /\ b \in Int
  BY Bodies
<1> QED
  BY <1>3, <1>4, <1>5, Bodies

\* The distance of two world positions, and that of their places on the screen.
LEMMA ScreenDistance ==
    ASSUME NEW c \in Int, NEW o \in Int, progress \in Int
    PROVE  /\ OnScreen(c) \in 0 .. RelMod - 1 /\ OnScreen(o) \in 0 .. RelMod - 1
           /\ (c - o) % RelMod = IF OnScreen(o) >= OnScreen(c)
                                 THEN OnScreen(o) - OnScreen(c)
                                 ELSE OnScreen(o) - OnScreen(c) + RelMod
<1> DEFINE x == ScreenBottom - (o - progress)
           y == ScreenBottom - (c - progress)
<1>1. x \in Int /\ y \in Int /\ x - y = c - o
  BY Bodies
<1>2. OnScreen(o) = x % RelMod /\ OnScreen(c) = y % RelMod
  BY DEF OnScreen
<1> HIDE DEF x, y
<1>3. x % RelMod \in 0 .. RelMod - 1 /\ y % RelMod \in 0 .. RelMod - 1
  BY <1>1, Bodies, ModRange
<1>4. (x - y) % RelMod = IF x % RelMod >= y % RelMod THEN (x % RelMod) - (y % RelMod)
                         ELSE (x % RelMod) - (y % RelMod) + RelMod
  BY <1>1, Bodies, ModDifference
<1> QED
  BY <1>1, <1>2, <1>3, <1>4

LEMMA TypesMean == TypeOK => CollisionMeaning
<1> SUFFICES ASSUME TypeOK, NEW p \in Players,
                    NEW l, l = car[p].lane,
                    NEW c, c = car[p].y, NEW o, o = obstacle_y[l],
                    Whole(OnScreen(c), OnScreen(o))
             PROVE  Hits(p) <=> /\ Exists[l]
                                /\ BodyReach((c - o) % RelMod)
                                /\ (c - o) % RelMod # CarTop + ConeTop
                                /\ (c - o) % RelMod # CarBottom + ConeBottom
  BY DEF CollisionMeaning
<1>1. c \in Int /\ o \in Int /\ progress \in Int
  BY Geometry DEF TypeOK, Cars
<1>2. PICK a \in 0 .. RelMod - 1, b \in 0 .. RelMod - 1, d \in Int :
        /\ a = OnScreen(c) /\ b = OnScreen(o) /\ d = (c - o) % RelMod
        /\ d = IF b >= a THEN b - a ELSE b - a + RelMod
  <2>1. (c - o) % RelMod \in Int
    <3>1. c - o \in Int
      BY <1>1
    <3>2. (c - o) % RelMod \in 0 .. RelMod - 1
      BY <3>1, Bodies, ModRange
    <3> QED
      BY <3>2, Bodies
  <2> QED
    BY <1>1, <2>1, ScreenDistance
<1>3. Hits(p) <=> Exists[l] /\ Meet(a, b)
  BY <1>2 DEF Hits
<1>4. Meet(a, b) <=> /\ BodyReach(b - a)
                     /\ b - a # CarTop + ConeTop /\ b - a # CarBottom + ConeBottom
  BY <1>2, MeetMeans
<1>5. Meet(a, b) <=> BodyReach(d) /\ d # CarTop + ConeTop /\ d # CarBottom + ConeBottom
  <2>1. CASE b >= a
    BY <1>2, <1>4, <2>1
  <2>2. CASE ~(b >= a)
    <3>1. ~BodyReach(b - a)
      BY <2>2, Bodies DEF BodyReach
    <3>2. d >= CarBottom + ConeTop
      BY <1>2, <2>2, Bodies DEF Whole
    <3>3. ~BodyReach(d)
      BY <3>2, Bodies DEF BodyReach
    <3> QED
      BY <1>4, <3>1, <3>3
  <2> QED
    BY <2>1, <2>2
<1> QED
  BY <1>2, <1>3, <1>5

\* Whenever neither body straddles the end of the ten-bit positions, the crash test
\* of Collision says what the overlap of the two bodies in the world says.
THEOREM CrashTestMeans == Spec => []CollisionMeaning
  BY TypeCorrect, TypesMean, PTL

-----------------------------------------------------------------------------
(* The countdown. *)

\* At the start no car meets a cone.
LEMMA NoHitAtStart == AtStart /\ transition /\ TypeOK => \A p \in Players : ~Hits(p)
<1> SUFFICES ASSUME AtStart, transition, TypeOK, NEW p \in Players PROVE ~Hits(p)
  OBVIOUS
<1>1. car[p].lane \in Lanes /\ car[p].y = StartY /\ progress = 0
  BY DEF AtStart, TypeOK, Cars
<1>2. obstacle_y[car[p].lane] = ConeInit
  BY <1>1 DEF AtStart
<1>3. /\ OnScreen(StartY) = (ScreenBottom - StartY) % RelMod
      /\ OnScreen(ConeInit) = (ScreenBottom - ConeInit) % RelMod
  BY <1>1, Geometry DEF OnScreen
<1> QED
  BY <1>1, <1>2, <1>3, StartAssumption DEF Hits

LEMMA CountdownStep == Inv /\ CountdownSafe /\ [Next]_vars => CountdownSafe'
<1> SUFFICES ASSUME Inv, CountdownSafe, [Next]_vars PROVE CountdownSafe'
  OBVIOUS
<1>1. CASE Frame
  <2>1. DrawGame /\ transition' => transition
    BY <1>1, Geometry DEF Frame, Countdown, transition, Inv, TypeOK
  <2>2. CASE transition /\ DrawGame
    <3>1. \A p \in Players : ~Hits(p)
      BY <2>2, NoHitAtStart DEF Inv
    <3>2. ded' = [p \in Players |-> FALSE]
      <4>1. ded' = [p \in Players |-> IF DrawGame THEN Hits(p)
                                                   ELSE DrawWinner /\ ded[p]]
        BY <1>1 DEF Frame, DetectCrashes
      <4>2. ASSUME NEW p \in Players
            PROVE  (IF DrawGame THEN Hits(p) ELSE DrawWinner /\ ded[p]) = FALSE
        BY <2>2, <3>1
      <4> QED
        BY <4>1, <4>2
    <3> QED
      BY <3>2 DEF CountdownSafe, GameOver
  <2>3. CASE ~DrawGame
    BY <1>1, <2>3 DEF Frame, CountdownSafe, DrawGame
  <2> QED
    BY <2>1, <2>2, <2>3 DEF CountdownSafe
<1>2. CASE StartGame
  BY <1>2 DEF StartGame, CountdownSafe, GameOver, race
<1>3. CASE ShowResults \/ LeaveGame
  BY <1>3 DEF ShowResults, LeaveGame, CountdownSafe, DrawGame
<1>4. CASE UNCHANGED vars
  BY <1>4 DEF vars, CountdownSafe, DrawGame, GameOver, transition
<1> QED
  BY <1>1, <1>2, <1>3, <1>4 DEF Next

\* Nobody crashes before the countdown is over, for any cones and any keys.
THEOREM SafeCountdown == Spec => []CountdownSafe
<1>1. Init => CountdownSafe
  BY DEF Init, CountdownSafe, DrawGame
<1>2. Inv /\ CountdownSafe /\ [Next]_vars => CountdownSafe'
  BY CountdownStep
<1> QED
  BY <1>1, <1>2, Invariance, PTL DEF Spec
=============================================================================
