-------------------------------- MODULE Match --------------------------------
(***************************************************************************)
(* A match as the two players see it, with no clocks, keys, counters or    *)
(* latches: scenes that follow each other, the cars lost in the game that  *)
(* is on or whose results are shown, and for how many frames they have     *)
(* been shown.  GameControl implements it.                                 *)
(***************************************************************************)
EXTENDS Naturals

CONSTANTS
    Players,
    ResultsFrames   \* for how many frames the results are shown

VARIABLES
    scene,          \* "title", "departure", "playing", "results" or "over"
    lost,           \* the players whose cars have crashed in this game
    shown           \* frames the results have been shown
vars == <<scene, lost, shown>>

Init == scene = "title" /\ lost = {} /\ shown = 0

\* The scene changes, and everything of the last game is forgotten.
Cut(from, to) ==
    scene = from /\ scene' = to /\ lost' = {} /\ shown' = 0

Depart == Cut("title", "departure")
Play   == Cut("departure", "playing")
Quit   == Cut("playing", "over")
Again  == Cut("over", "title")
Reset  == \E any \in {"departure", "playing", "results", "over"} : Cut(any, "title")

\* Some frame of the game finds the first crash, of one car or of both.
Crash ==
    /\ scene = "playing" /\ lost = {}
    /\ lost' \in (SUBSET Players) \ {{}}
    /\ UNCHANGED <<scene, shown>>

\* A game with a crash goes to its results, with no further one in between.
Finish ==
    /\ scene = "playing" /\ lost # {}
    /\ scene' = "results"
    /\ UNCHANGED <<lost, shown>>

Show ==
    /\ scene = "results" /\ shown < ResultsFrames
    /\ shown' = shown + 1
    /\ UNCHANGED <<scene, lost>>

\* The results stay for all of their frames.
End == shown = ResultsFrames /\ Cut("results", "over")

Next ==
    \/ Depart \/ Play \/ Quit \/ Again \/ Reset
    \/ Crash \/ Finish \/ Show \/ End

Spec == Init /\ [][Next]_vars
=============================================================================
