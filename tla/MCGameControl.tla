--------------------------- MODULE MCGameControl ---------------------------
(* GameControl on the keys that matter to it, and with a history of the     *)
(* Enter key.                                                               *)
EXTENDS GameControl

CONSTANT Other   \* any key the state machine does not know

Slot01(a, b) == [s \in Slots |-> IF s = 0 THEN a ELSE IF s = 1 THEN b ELSE NoKey]

MCKeycodes == {Slot01(NoKey, NoKey), Slot01(ENTER, NoKey), Slot01(GRAVE, NoKey),
               Slot01(Other, ENTER), Slot01(Other, GRAVE)}

\* Enter has been up at some moment since the start screen came on.
VARIABLE enter_seen_up
hvars == <<vars, enter_seen_up>>

HInit == Init /\ enter_seen_up = TRUE
HNext ==
    /\ Next
    /\ enter_seen_up' =
          (curr_state' = "START" /\ (FirstKey' # ENTER
                                       \/ (curr_state = "START" /\ enter_seen_up)))
HSpec == HInit /\ [][HNext]_hvars /\ Fairness

\* One press of Enter does one thing: the press that leaves the end screen, or
\* one held since before a reset, never also starts the next game.
OnePressOneScreen ==
    [][curr_state = "START" /\ curr_state' = "START_TRANSITION"
          => enter_seen_up]_hvars
=============================================================================
