------------------------------- MODULE MCRace -------------------------------
(* Race on small roads: keys and cones the runs choose among.              *)
EXTENDS Race

Nothing == [p \in Players |-> {}]
OneEach == {[p \in Players |-> IF p = 1 THEN a ELSE b] :
              a \in {{}} \cup {{c} : c \in Commands},
              b \in {{}} \cup {{c} : c \in Commands}}
JumpsOf1 == {Nothing, [p \in Players |-> IF p = 1 THEN {"Jump"} ELSE {}]}

LeftOnly == {{0}}
FullRow == {Lanes}
MiddleOrOuter == {{1}, {0, 2}}
=============================================================================
