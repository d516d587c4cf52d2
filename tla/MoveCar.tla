------------------------------ MODULE MoveCar ------------------------------
(***************************************************************************)
(* One car (Move_car.sv): the registers of a car after a frame, as a       *)
(* function of its registers before, of the other car, and of the keys its *)
(* player holds.  Both cars use it, each with the other's registers of the *)
(* frame before.                                                           *)
(***************************************************************************)
EXTENDS Integers

CONSTANTS
    YMod,          \* 2^14: world positions are 14 bits wide
    StartY,        \* 99: where both cars wait for the start
    JumpLength,    \* 150
    Gap            \* 100: how near the other car may be beside or before

ASSUME MoveCarAssumption ==
    /\ YMod \in Nat /\ StartY \in Nat
    /\ JumpLength \in Nat \ {0} /\ Gap \in Nat \ {0}
    /\ JumpLength < YMod /\ Gap < YMod /\ StartY < YMod

Lanes == 0 .. 2
Commands == {"Jump", "Left", "Right", "Break"}

Cars == [lane : Lanes, y : 0 .. YMod - 1,
         jump_released : BOOLEAN, left_released : BOOLEAN, right_released : BOOLEAN]

\* A sum or difference of two positions kept to their width.
Wrap(n) == IF n >= YMod THEN n - YMod ELSE IF n < 0 THEN n + YMod ELSE n

\* The lane left and right of the car's as the guards compute it: two bits, so
\* beyond the edge it is lane 3, which no car is in.
LeftLane(lane)  == (lane + 3) % 4
RightLane(lane) == (lane + 1) % 4

ToLeft(lane)  == IF lane = 0 THEN 0 ELSE lane - 1
ToRightUnclamped(lane) == lane + 1                      \* faulty variant
ToRight(lane) == IF lane = 2 THEN 2 ELSE lane + 1

\* The other car is not within Gap of this one in that lane.  Within Gap of the
\* start of the world the lower bound wraps, and every car is below it.
SideClearAlways(car, other, lane) == TRUE               \* faulty variant
SideClear(car, other, lane) ==
    \/ other.lane # lane
    \/ other.y < Wrap(car.y - Gap)
    \/ other.y > Wrap(car.y + Gap)

JumpClear(car, other) ==
    \/ other.lane # car.lane
    \/ other.y < car.y
    \/ other.y > Wrap(car.y + JumpLength)

Jumps(car, other, keys) ==
    "Jump" \in keys /\ car.jump_released /\ JumpClear(car, other)
GoesLeft(car, other, keys) ==
    /\ "Left" \in keys /\ car.left_released
    /\ SideClear(car, other, LeftLane(car.lane))
GoesRight(car, other, keys) ==
    /\ "Right" \in keys /\ car.right_released
    /\ SideClear(car, other, RightLane(car.lane))
BrakesAnywhere(car, other, keys) == "Break" \in keys    \* faulty variant
Brakes(car, other, keys) ==
    "Break" \in keys /\ SideClear(car, other, car.lane)

\* Faulty variant: a jump does not replace the frame's advance, but adds to it.
NextYJumpAndDrive(car, other, keys, speed) ==
    IF Brakes(car, other, keys) THEN car.y
    ELSE Wrap(car.y + speed + (IF Jumps(car, other, keys) THEN JumpLength ELSE 0))
\* Braking wins over jumping, and right over left.
NextY(car, other, keys, speed) ==
    IF Brakes(car, other, keys) THEN car.y
    ELSE IF Jumps(car, other, keys) THEN Wrap(car.y + JumpLength)
    ELSE Wrap(car.y + speed)
NextLane(car, other, keys) ==
    IF GoesRight(car, other, keys) THEN ToRight(car.lane)
    ELSE IF GoesLeft(car, other, keys) THEN ToLeft(car.lane)
    ELSE car.lane

\* One frame; hold is true when no game is on or it has not started yet.
Drive(car, other, keys, speed, hold, startLane) ==
    [lane |-> IF hold THEN startLane ELSE NextLane(car, other, keys),
     y |-> IF hold THEN StartY ELSE NextY(car, other, keys, speed),
     jump_released  |-> "Jump" \notin keys,
     left_released  |-> "Left" \notin keys,
     right_released |-> "Right" \notin keys]
=============================================================================
