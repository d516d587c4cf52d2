----------------------------- MODULE MCCrazyTaxi -----------------------------
(* CrazyTaxi on a short road, with few keys.                                *)
EXTENDS CrazyTaxi

Slots == 0 .. 3
FirstSlots(a, b) == [s \in Slots |-> IF s = 0 THEN a ELSE IF s = 1 THEN b ELSE NoKey]

MCKeyOf == [p \in {1, 2} |-> [c \in {"Jump", "Left", "Right", "Break"} |-> <<p, c>>]]

MCKeycodes ==
    {FirstSlots(NoKey, NoKey), FirstSlots(ENTER, NoKey), FirstSlots(GRAVE, NoKey),
     FirstSlots(<<1, "Jump">>, <<2, "Left">>), FirstSlots(<<2, "Jump">>, <<1, "Break">>)}

MCConeRows == {{0, 2}, {1}}
=============================================================================
