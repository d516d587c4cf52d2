------------------------------- MODULE MCScore ------------------------------
(* Score with what a scorekeeper for each car alone would have counted.     *)
EXTENDS Score

MCMoves == {0, 1, 4}

VARIABLES fair_old, fair    \* per player: its memory and the points counted
hvars == <<vars, fair_old, fair>>

FairCrosses(p) == stage = "race" /\ Later(car_y[p], fair_old[p])

HInit == Init /\ fair_old = [p \in Players |-> 0] /\ fair = [p \in Players |-> 0]
KeepScore ==
    IF RaceFrame
    THEN /\ fair_old' = [p \in Players |-> IF FairCrosses(p) THEN car_y[p] ELSE fair_old[p]]
         /\ fair' = [p \in Players |-> IF FairCrosses(p) THEN fair[p] + 1 ELSE fair[p]]
    ELSE IF IdleFrame
    THEN /\ fair_old' = [p \in Players |-> 0]
         /\ fair' = IF stage = "off" THEN [p \in Players |-> 0] ELSE fair
    ELSE UNCHANGED <<fair_old, fair>>
HNext == Next /\ KeepScore
HSpec == HInit /\ [][HNext]_hvars

Worth(p) == Value(points[p])
Overflow == DigitMod * Base * Base  \* what a score counts up to

\* Player 1's score is the number of buckets its car was seen to enter, however
\* the two cars' crossings fall together.
FirstScoreExact == Worth(1) = fair[1] % Overflow

\* Player 2's score misses no bucket its car entered, and is at most one too
\* large for every frame in which car 1 crossed as well: the chain in Draw_game
\* forgets a crossing of car 2 in such a frame, and counts it again.
SecondScoreBounded ==
    fair[2] + fair[1] < Overflow => fair[2] <= Worth(2) /\ Worth(2) <= fair[2] + fair[1]

\* The lower digits are decimal for every score, the first one up to a score of
\* 999; from the thousandth point on it is a digit the number sheet has no
\* picture of.
DigitsDecimal ==
    \A p \in Players :
        /\ points[p].ones < Base /\ points[p].tens < Base
        /\ points[p].hundreds < Base <=> Worth(p) < Base * Base * Base
=============================================================================
