------------------------------- MODULE Score --------------------------------
(***************************************************************************)
(* The scores (Draw_game.sv with Points.sv).  A player earns a point in a  *)
(* frame in which the car is seen in a later bucket of ten world positions *)
(* than the one remembered for it.  The memory is one if-else chain for    *)
(* both cars, so in a frame in which both cross only car 1 is remembered.  *)
(* The positions are inputs: between two frames a car stands, drives on,   *)
(* or jumps (module MoveCar says which).  The points are three decimal     *)
(* digits of four bits each.                                               *)
(***************************************************************************)
EXTENDS Integers

CONSTANTS
    Bucket,         \* 10
    Base,           \* 10, the base of the digits
    DigitMod,       \* 16, the values of four bits
    StartY,         \* 99
    Moves,          \* what a frame adds to a car's position: 0, 1, 150
    Horizon         \* bound on the positions

Players == {1, 2}

ASSUME ScoreAssumption ==
    /\ Bucket \in Nat \ {0} /\ Base \in Nat \ {0, 1}
    /\ DigitMod \in Nat /\ DigitMod >= Base
    /\ StartY \in Nat /\ Horizon \in Nat /\ Moves \subseteq Nat

VARIABLES
    stage,          \* "off" (~DrawGame), "countdown" (transition) or "race"
    car_y,          \* car1_y, car2_y
    y_old,          \* car1y_old, car2y_old
    points          \* p1_score, p2_score: digits [hundreds, tens, ones]
vars == <<stage, car_y, y_old, points>>

Digits == 0 .. DigitMod - 1
Zero == [hundreds |-> 0, tens |-> 0, ones |-> 0]

TypeOK ==
    /\ stage \in {"off", "countdown", "race"}
    /\ car_y \in [Players -> Nat] /\ y_old \in [Players -> Nat]
    /\ points \in [Players -> [hundreds : Digits, tens : Digits, ones : Digits]]

\* The sum of a score's digits at their places, also of one past its last nine.
Value(d) == d.hundreds * Base * Base + d.tens * Base + d.ones

-----------------------------------------------------------------------------
\* Only the lower two digits carry; the first one counts on to DigitMod.
\* Faulty variants: the first digit has no end; a digit carries one too late.
IncrementWide(d) ==
    IF d.ones = Base - 1
    THEN IF d.tens = Base - 1
         THEN [hundreds |-> d.hundreds + 1, tens |-> 0, ones |-> 0]
         ELSE [d EXCEPT !.tens = @ + 1, !.ones = 0]
    ELSE [d EXCEPT !.ones = @ + 1]
IncrementLate(d) ==
    IF d.ones = Base
    THEN IF d.tens = Base
         THEN [hundreds |-> (d.hundreds + 1) % DigitMod, tens |-> 0, ones |-> 0]
         ELSE [d EXCEPT !.tens = @ + 1, !.ones = 0]
    ELSE [d EXCEPT !.ones = @ + 1]
Increment(d) ==
    IF d.ones = Base - 1
    THEN IF d.tens = Base - 1
         THEN [hundreds |-> (d.hundreds + 1) % DigitMod, tens |-> 0, ones |-> 0]
         ELSE [d EXCEPT !.tens = @ + 1, !.ones = 0]
    ELSE [d EXCEPT !.ones = @ + 1]

Later(y, old) == y \div Bucket > old \div Bucket
Crosses(p) == Later(car_y[p], y_old[p])

\* Faulty variant: the second car comes first in the chain.
RememberSecondFirst ==
    IF Crosses(2) THEN [y_old EXCEPT ![2] = car_y[2]]
    ELSE IF Crosses(1) THEN [y_old EXCEPT ![1] = car_y[1]]
    ELSE y_old
Remember ==
    IF Crosses(1) THEN [y_old EXCEPT ![1] = car_y[1]]
    ELSE IF Crosses(2) THEN [y_old EXCEPT ![2] = car_y[2]]
    ELSE y_old

-----------------------------------------------------------------------------
Init ==
    /\ stage = "off"
    /\ car_y = [p \in Players |-> StartY]
    /\ y_old = [p \in Players |-> 0]
    /\ points = [p \in Players |-> Zero]

\* One frame of the registers, in the race and outside of it.  Faulty variant: the
\* memory of the last game is kept.
Count ==
    /\ y_old' = Remember
    /\ points' = [p \in Players |-> IF Crosses(p) THEN Increment(points[p])
                                                  ELSE points[p]]
ClearKeepingMemory ==
    /\ points' = [p \in Players |-> IF stage = "countdown" THEN points[p] ELSE Zero]
    /\ UNCHANGED y_old
Clear ==
    /\ points' = [p \in Players |-> IF stage = "countdown" THEN points[p] ELSE Zero]
    /\ y_old' = [p \in Players |-> 0]

RaceFrame ==
    /\ stage = "race" /\ UNCHANGED stage
    /\ Count
    /\ \E m \in [Players -> Moves] :
          /\ \A p \in Players : car_y[p] + m[p] <= Horizon
          /\ car_y' = [p \in Players |-> car_y[p] + m[p]]

\* The countdown ends with a frame.
NextStage == IF stage = "countdown" THEN {"countdown", "race"} ELSE {"off"}

IdleFrame ==
    /\ stage # "race" /\ stage' \in NextStage
    /\ Clear
    /\ car_y' = [p \in Players |-> StartY]

\* The start animation, frames without a game, comes before every game.
EnterGame ==
    /\ stage = "off" /\ stage' = "countdown"
    /\ \A p \in Players : points[p] = Zero /\ car_y[p] = StartY
    /\ UNCHANGED <<car_y, y_old, points>>
LeaveGame ==
    /\ stage \in {"countdown", "race"} /\ stage' = "off"
    /\ UNCHANGED <<car_y, y_old, points>>

Next == RaceFrame \/ IdleFrame \/ EnterGame \/ LeaveGame

Spec == Init /\ [][Next]_vars
=============================================================================
