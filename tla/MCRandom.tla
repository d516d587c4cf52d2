------------------------------ MODULE MCRandom ------------------------------
(***************************************************************************)
(* Random with the program's numbers, and with the memory its properties   *)
(* need: how many rows this game has picked, which lanes they blocked and  *)
(* which they left free, and what any game so far picked as its nth row.   *)
(***************************************************************************)
EXTENDS Random

CONSTANT MaxPicks   \* bound on the rows of a game
ASSUME PicksAssumption == MaxPicks \in Nat

RealTaps == {12, 3, 2, 0}
RealSeed == {0, 1, 2, 3}

\* What the register holds i frames after bits (by halves, to keep TLC's stack low),
\* and at each count of the rounds that end in the first three rows of a game.
after[i \in Nat, bits \in SUBSET Bits] ==
    IF i = 0 THEN bits
    ELSE IF i = 1 THEN Shift(bits)
    ELSE after[i - i \div 2, after[i \div 2, bits]]
Rounds ==
    [n \in 0 .. 2 |-> [c \in 0 .. LastCount |-> after[n * (LastCount + 1) + c, Seed]]]
RoundsFollow(rounds) ==
    /\ rounds \in [0 .. 2 -> [0 .. LastCount -> SUBSET Bits]]
    /\ rounds[0][0] = Seed
    /\ \A n \in 0 .. 2, c \in 0 .. LastCount - 1 : rounds[n][c + 1] = Shift(rounds[n][c])
    /\ \A n \in 0 .. 1 : rounds[n + 1][0] = Shift(rounds[n][LastCount])

\* The row picked when the register moves on from bits, if some bits close late.
RowOf(bits, closing) ==
    {l \in Lanes : 2 - l \in (Low(bits) \ closing) \cup (Low(Shift(bits)) \cap closing)}

\* The first three rows of this register block every lane and leave every lane free.
RowsVary(rounds) ==
    \A closing \in SUBSET Lanes, l \in Lanes :
        /\ \E n \in 0 .. 2 : l \in RowOf(rounds[n][LastCount], closing)
        /\ \E n \in 0 .. 2 : l \notin RowOf(rounds[n][LastCount], closing)

\* The first holds of every register, by what Rounds is; the second is what the
\* program's register, seed and period give.
ASSUME RoundsAssumption == RoundsFollow(Rounds) /\ RowsVary(Rounds)

VARIABLES picks, blocked, free, seen
allvars == <<vars, picks, blocked, free, seen>>

MCInit ==
    /\ Init
    /\ picks = 0 /\ blocked = {} /\ free = {}
    /\ seen = [n \in 1 .. MaxPicks |-> {}]

\* A row counts once its latch has closed.
MCFrameEdge ==
    /\ picks < MaxPicks
    /\ FrameEdge
    /\ IF Picking
       THEN /\ picks' = picks + 1
            /\ blocked' = blocked \cup Row'
            /\ free' = free \cup (Lanes \ Row')
            /\ seen' = [seen EXCEPT ![picks'] = @ \cup {Row'}]
       ELSE UNCHANGED <<picks, blocked, free, seen>>

MCStartGame == StartGame /\ UNCHANGED <<picks, blocked, free, seen>>

MCLeaveGame ==
    /\ LeaveGame
    /\ picks' = 0 /\ blocked' = {} /\ free' = {}
    /\ UNCHANGED seen

MCNext == MCFrameEdge \/ MCStartGame \/ MCLeaveGame
MCSpec == MCInit /\ [][MCNext]_allvars
-----------------------------------------------------------------------------
\* No lane is safe, or hopeless, for a whole game: whatever the delays of the
\* build do to the bits of the latch (random.sv:35-44), the first three rows
\* leave every lane free at least once and block it at least once.
EveryLaneVaries ==
    picks >= 3 => blocked = Lanes /\ free = Lanes

\* The register is set back by the end of a game (random.sv:15-19, wired in
\* Draw_game.sv:113-118), and stands still until the next: the nth row is the same
\* in every game, whenever the games before it were broken off.
GamesAlike == \A n \in 1 .. MaxPicks : Cardinality(seen[n]) <= 1
=============================================================================
