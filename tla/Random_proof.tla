---------------------------- MODULE Random_proof ----------------------------
(***************************************************************************)
(* The register never becomes all zeros, whatever its width, taps and      *)
(* seed, as long as its highest bit is a tap.  And all games pick the same *)
(* rows, whatever the delays of the build and however long the games.      *)
(* Neither uses RoundsAssumption; that every lane varies in every game     *)
(* follows from it.                                                        *)
(***************************************************************************)
EXTENDS MCRandom, FiniteSetTheorems, TLAPS

\* Shifting stays within the register, and loses no bit without feeding one in:
\* where only the highest bit is set, it is the only tap that is set.
LEMMA ShiftKeeps ==
    ASSUME random \subseteq Bits, random # {}
    PROVE  random_next \subseteq Bits /\ random_next # {}
<1> USE RandomAssumption DEF Bits
<1>1. random_next \subseteq Bits
  BY DEF random_next, Shift
<1>2. CASE random = {Width - 1}
  <2>1. random \cap Taps = {Width - 1}
    BY <1>2
  <2>2. Odd(random \cap Taps)
    <3>1. Cardinality({Width - 1}) = 1
      BY FS_Singleton
    <3> QED
      BY <2>1, <3>1 DEF Odd
  <2> QED
    BY <1>1, <2>2 DEF random_next, Shift
<1>3. CASE random # {Width - 1}
  <2>1. PICK b \in random : b # Width - 1
    BY <1>3
  <2>2. b + 1 \in random_next
    BY <2>1 DEF random_next, Shift
  <2> QED
    BY <1>1, <2>2
<1> QED
  BY <1>2, <1>3

\* The register is never all zeros (random.sv:17), and every other variable has
\* its type.
THEOREM Unstuck == Spec => [](TypeOK /\ NeverStuck)
<1> USE RandomAssumption DEF TypeOK, NeverStuck
<1>0. 0 \in 0 .. LastCount
  OBVIOUS
<1>1. Init => TypeOK /\ NeverStuck
  BY <1>0, Zenon DEF Init
<1>2. TypeOK /\ NeverStuck /\ [Next]_vars => TypeOK' /\ NeverStuck'
  <2> SUFFICES ASSUME TypeOK, NeverStuck, [Next]_vars
               PROVE  TypeOK' /\ NeverStuck'
    OBVIOUS
  <2>1. \A next \in SUBSET Bits, opens \in BOOLEAN :
            Latch(next, opens) => random_done' \subseteq Lanes
    BY DEF Latch, Low
  <2>2. CASE FrameEdge
    <3>1. random_next \subseteq Bits /\ random_next # {}
      BY ShiftKeeps
    <3>2. count' \in 0 .. LastCount
      BY <2>2 DEF FrameEdge, CountOn, Picking
    <3> QED
      BY <2>1, <2>2, <3>1, <3>2 DEF FrameEdge
  <2>3. CASE StartGame
    BY <2>3 DEF StartGame
  <2>4. CASE LeaveGame
    BY <1>0, <2>1, <2>4, Zenon DEF LeaveGame
  <2>5. CASE UNCHANGED vars
    BY <2>5 DEF vars
  <2> QED
    BY <2>2, <2>3, <2>4, <2>5 DEF Next
<1> QED
  BY <1>1, <1>2, PTL DEF Spec
-----------------------------------------------------------------------------
(* All games are alike.  What the register holds at a frame is computed      *)
(* from the seed by recursion, which no prover unfolds; instead the          *)
(* invariant speaks of the set of all moments so far, of all games, each     *)
(* with what the register held.  There is a moment before each but the       *)
(* first, and so no two moments with the same frame number differ.           *)

\* The row picked when the register moves on from bits.
RowAfter(bits) == RowOf(bits, late)

Moments == [row : Nat, frame : 0 .. LastCount, bits : SUBSET Bits]
Now == [row |-> picks, frame |-> count, bits |-> random]
First == [row |-> 0, frame |-> 0, bits |-> Seed]

\* m is the moment after l.
Follows(l, m) ==
    /\ m.bits = Shift(l.bits)
    /\ IF l.frame = LastCount
       THEN m.frame = 0 /\ m.row = l.row + 1
       ELSE m.frame = l.frame + 1 /\ m.row = l.row

\* A set of moments that knows the games so far.
Chronicle(been) ==
    /\ been \subseteq Moments /\ First \in been /\ Now \in been
    /\ \A m \in been : m = First \/ \E l \in been : Follows(l, m)
    /\ \A l, m \in been : l.row = m.row /\ l.frame = m.frame => l = m
    /\ \A n \in 1 .. MaxPicks : \A row \in seen[n] : \E m \in been :
          m.row = n - 1 /\ m.frame = LastCount /\ row = RowAfter(m.bits)

\* While a pick is due the latch is open.
Open == count = LastCount => random_done = Low(random)

Alike ==
    /\ TypeOK
    /\ picks \in Nat /\ seen \in [1 .. MaxPicks -> SUBSET SUBSET Lanes]
    /\ Open
    /\ \E been \in SUBSET Moments : Chronicle(been)

LEMMA FirstMoment == First \in Moments
<1>1. 0 \in Nat /\ 0 \in 0 .. LastCount /\ Seed \subseteq Bits
  BY RandomAssumption
<1> QED
  BY <1>1 DEF First, Moments

LEMMA AlikeInit == MCInit => Alike
<1> SUFFICES ASSUME MCInit PROVE Alike
  OBVIOUS
<1>1. TypeOK /\ picks \in Nat /\ count # LastCount
  <2>1. 0 \in 0 .. LastCount /\ 0 # LastCount /\ Seed \subseteq Bits
    BY RandomAssumption
  <2>2. picks \in Nat
    BY DEF MCInit
  <2> QED
    BY <2>1, <2>2, Zenon DEF MCInit, Init, TypeOK
<1>2. seen \in [1 .. MaxPicks -> SUBSET SUBSET Lanes] /\ \A n \in 1 .. MaxPicks : seen[n] = {}
  BY DEF MCInit
<1>3. Now = First
  BY DEF MCInit, Init, Now, First
<1>4. Chronicle({First})
  BY <1>2, <1>3, FirstMoment DEF Chronicle
<1> QED
  BY <1>1, <1>2, <1>4, FirstMoment DEF Alike, Open

LEMMA ShiftIs == random_next = Shift(random)
  BY DEF random_next

\* One moment more: it is the only one with its number, since the moment before
\* the other would be the present one.
LEMMA OneMore ==
    ASSUME Alike, NEW been \in SUBSET Moments, Chronicle(been),
           NEW now \in Moments, Follows(Now, now)
    PROVE  LET more == been \cup {now} IN
           /\ \A m \in more : m = First \/ \E l \in more : Follows(l, m)
           /\ \A l, m \in more : l.row = m.row /\ l.frame = m.frame => l = m
<1> DEFINE more == been \cup {now}
<1>0. Now \in been /\ been \subseteq Moments /\ First \in been
  BY DEF Chronicle
<1>1. \A m \in more : m = First \/ \E l \in more : Follows(l, m)
  BY <1>0, Zenon DEF Chronicle
<1>2. ASSUME NEW m \in been, m.row = now.row, m.frame = now.frame
      PROVE  m = now
  <2>0. /\ m \in Moments /\ now \in Moments /\ Now \in Moments
        /\ LastCount \in Nat
    BY <1>0, RandomAssumption
  <2>1. m # First
    <3>1. now.frame # 0 \/ now.row # 0
      BY <2>0 DEF Follows, Moments
    <3> QED
      BY <1>2, <3>1 DEF First
  <2>2. PICK l \in been : Follows(l, m)
    BY <2>1, Zenon DEF Chronicle
  <2>3. l \in Moments
    BY <1>0
  <2>4. l.row = Now.row /\ l.frame = Now.frame
    BY <1>2, <2>0, <2>2, <2>3 DEF Follows, Moments
  <2>5. l = Now
    BY <1>0, <2>4, Zenon DEF Chronicle
  <2>6. m.bits = now.bits
    BY <2>2, <2>5 DEF Follows
  <2> QED
    BY <1>2, <2>0, <2>6 DEF Moments
<1>3. \A l, m \in more : l.row = m.row /\ l.frame = m.frame => l = m
  <2>1. \A l, m \in been : l.row = m.row /\ l.frame = m.frame => l = m
    BY Zenon DEF Chronicle
  <2> QED
    BY <1>2, <2>1, Zenon
<1> QED
  BY <1>1, <1>3, Zenon

\* A frame of a game: the next moment follows on the present one, and the row that
\* counts is the one after the last moment of its round.
LEMMA FrameFollows ==
    ASSUME Alike, MCFrameEdge
    PROVE  Now' \in Moments /\ Follows(Now, Now')
<1> USE RandomAssumption DEF Alike, TypeOK
<1>1. random' \subseteq Bits /\ random' = Shift(random)
  <2>1. random' = random_next
    BY DEF MCFrameEdge, FrameEdge
  <2>2. random_next \subseteq Bits
    BY DEF random_next, Shift, Bits
  <2> QED
    BY <2>1, <2>2, ShiftIs
<1>2. /\ count' \in 0 .. LastCount /\ picks' \in Nat
      /\ IF count = LastCount
         THEN count' = 0 /\ picks' = picks + 1
         ELSE count' = count + 1 /\ picks' = picks
  BY DEF MCFrameEdge, FrameEdge, CountOn, Picking
<1> QED
  BY <1>1, <1>2 DEF Now, Moments, Follows

LEMMA FrameLatch ==
    ASSUME Alike, MCFrameEdge
    PROVE  /\ random_done' \subseteq Lanes
           /\ Open'
           /\ count = LastCount => Row' = RowAfter(random)
<1> USE RandomAssumption DEF Alike, TypeOK
<1>1. Latch(random_next, count' = LastCount) /\ random' = random_next
  BY DEF MCFrameEdge, FrameEdge
<1>2. Open'
  BY <1>1 DEF Latch, Open
<1>3. random_done' \subseteq Lanes
  BY <1>1 DEF Latch, Low
<1>4. ASSUME count = LastCount PROVE Row' = RowAfter(random)
  <2>1. count' # LastCount
    BY <1>4 DEF MCFrameEdge, FrameEdge, CountOn, Picking
  <2>2. random_done' = (Low(random) \ late) \cup (Low(Shift(random)) \cap late)
    BY <1>1, <1>4, <2>1, ShiftIs DEF Latch, Picking, Open
  <2> QED
    BY <2>2 DEF Row, RowAfter, RowOf
<1> QED
  BY <1>2, <1>3, <1>4

LEMMA FrameKeeps == Alike /\ MCFrameEdge => Alike'
<1> SUFFICES ASSUME Alike, MCFrameEdge PROVE Alike'
  OBVIOUS
<1>1. /\ UNCHANGED <<DrawGame, late>> /\ DrawGame
      /\ Now' \in Moments /\ Follows(Now, Now')
      /\ random_done' \subseteq Lanes /\ Open'
  BY FrameFollows, FrameLatch DEF MCFrameEdge, FrameEdge
<1>2. TypeOK' /\ picks' \in Nat
  <2>1. random' \subseteq Bits /\ count' \in 0 .. LastCount /\ picks' \in Nat
    BY <1>1 DEF Now, Moments
  <2> QED
    BY <1>1, <2>1, Zenon DEF Alike, TypeOK
<1>3. PICK been \in SUBSET Moments : Chronicle(been)
  BY DEF Alike
<1>0. PICK now : now = Now'
  OBVIOUS
<1> DEFINE more == been \cup {now}
<1>4. /\ more \subseteq Moments /\ First \in more /\ now \in more /\ Now \in more
      /\ Now \in Moments
  BY <1>0, <1>1, <1>3 DEF Chronicle
<1>5. /\ \A m \in more : m = First \/ \E l \in more : Follows(l, m)
      /\ \A l, m \in more : l.row = m.row /\ l.frame = m.frame => l = m
  BY <1>0, <1>1, <1>3, <1>4, OneMore
<1>6. /\ seen' \in [1 .. MaxPicks -> SUBSET SUBSET Lanes]
      /\ \A n \in 1 .. MaxPicks : \A row \in seen'[n] : row \in seen[n] \/
            (count = LastCount /\ n = picks + 1 /\ row = RowAfter(random))
  <2>1. CASE count = LastCount
    <3>1. seen' = [seen EXCEPT ![picks + 1] = @ \cup {Row'}]
      BY <2>1 DEF MCFrameEdge, Picking
    <3>2. Row' = RowAfter(random) /\ Row' \subseteq Lanes
      BY <2>1, FrameLatch DEF Row
    <3>3. seen' \in [1 .. MaxPicks -> SUBSET SUBSET Lanes]
      <4>1. picks + 1 \in 1 .. MaxPicks
        BY PicksAssumption DEF MCFrameEdge, Alike
      <4>2. seen[picks + 1] \cup {Row'} \in SUBSET SUBSET Lanes
        BY <3>2, <4>1, Zenon DEF Alike
      <4> QED
        BY <3>1, <4>1, <4>2 DEF Alike
    <3>4. \A n \in 1 .. MaxPicks :
              seen'[n] = IF n = picks + 1 THEN seen[n] \cup {Row'} ELSE seen[n]
      BY <3>1, Zenon DEF Alike
    <3> QED
      BY <2>1, <3>2, <3>3, <3>4, Zenon
  <2>2. CASE count # LastCount
    BY <2>2 DEF MCFrameEdge, Picking, Alike
  <2> QED
    BY <2>1, <2>2
<1>7. ASSUME NEW n \in 1 .. MaxPicks, NEW row \in seen'[n]
      PROVE  \E m \in more : m.row = n - 1 /\ m.frame = LastCount /\ row = RowAfter(m.bits)
  <2>1. CASE row \in seen[n]
    BY <1>3, <2>1 DEF Chronicle
  <2>2. CASE count = LastCount /\ n = picks + 1 /\ row = RowAfter(random)
    <3>1. Now.row = n - 1 /\ Now.frame = LastCount /\ Now.bits = random
      BY <2>2, <1>2 DEF Now, Alike
    <3> QED
      BY <1>4, <2>2, <3>1
  <2> QED
    BY <1>6, <2>1, <2>2
<1>8. more \in SUBSET Moments /\ Chronicle(more)'
  BY <1>0, <1>1, <1>4, <1>5, <1>7 DEF Chronicle, First, RowAfter
<1>9. \E b \in SUBSET Moments : Chronicle(b)'
  BY <1>8
<1> QED
  BY <1>1, <1>2, <1>6, <1>9, Zenon DEF Alike

LEMMA LeaveKeeps == Alike /\ MCLeaveGame => Alike'
<1> SUFFICES ASSUME Alike, MCLeaveGame PROVE Alike'
  OBVIOUS
<1>1. /\ DrawGame' = FALSE /\ random' = Seed /\ count' = 0 /\ picks' = 0
      /\ UNCHANGED <<late, seen>>
  BY DEF MCLeaveGame, LeaveGame
<1>2. random_done' \subseteq Lanes
  BY DEF MCLeaveGame, LeaveGame, Latch, Low, Alike, TypeOK
<1>3. Now' = First /\ First \in Moments
  BY <1>1, FirstMoment DEF Now, First
<1>4. TypeOK' /\ picks' \in Nat /\ Open'
  <2>1. count' \in 0 .. LastCount /\ count' # LastCount /\ random' \subseteq Bits /\ picks' \in Nat
    BY <1>1, RandomAssumption
  <2> QED
    BY <1>1, <1>2, <2>1, Zenon DEF Alike, TypeOK, Open
<1>5. PICK been \in SUBSET Moments : Chronicle(been)
  BY DEF Alike
<1>6. Chronicle(been)'
  BY <1>1, <1>3, <1>5 DEF Chronicle, First, RowAfter
<1> QED
  BY <1>1, <1>4, <1>6 DEF Alike

LEMMA NoneAlike ==
    ASSUME Alike, UNCHANGED <<random, count, random_done, late, picks, seen>>,
           DrawGame' \in BOOLEAN
    PROVE  Alike'
<1>1. PICK been \in SUBSET Moments : Chronicle(been)
  BY DEF Alike
<1>2. Chronicle(been)'
  BY <1>1 DEF Chronicle, First, RowAfter, Now
<1>3. TypeOK' /\ Open'
  BY Zenon DEF Alike, TypeOK, Open
<1> QED
  BY <1>2, <1>3 DEF Alike

\* A row picked as the nth follows on the one moment with that number.
LEMMA AlikeMeans == Alike => GamesAlike
<1> SUFFICES ASSUME Alike, NEW n \in 1 .. MaxPicks PROVE Cardinality(seen[n]) <= 1
  BY DEF GamesAlike
<1>1. PICK been \in SUBSET Moments : Chronicle(been)
  BY DEF Alike
<1>2. \A a, b \in seen[n] : a = b
  BY <1>1 DEF Chronicle
<1>3. CASE seen[n] = {}
  BY <1>3, FS_EmptySet
<1>4. CASE seen[n] # {}
  <2>1. PICK a \in seen[n] : seen[n] = {a}
    BY <1>2, <1>4
  <2>2. Cardinality({a}) = 1
    BY FS_Singleton
  <2> QED
    BY <2>1, <2>2
<1> QED
  BY <1>3, <1>4

LEMMA SpecAlike == MCSpec => []Alike
<1>1. Alike /\ [MCNext]_allvars => Alike'
  <2> SUFFICES ASSUME Alike, [MCNext]_allvars PROVE Alike'
    OBVIOUS
  <2>1. CASE MCFrameEdge
    BY <2>1, FrameKeeps
  <2>2. CASE MCStartGame
    BY <2>2, NoneAlike DEF MCStartGame, StartGame
  <2>3. CASE MCLeaveGame
    BY <2>3, LeaveKeeps
  <2>4. CASE UNCHANGED allvars
    BY <2>4, NoneAlike DEF allvars, vars, Alike, TypeOK
  <2> QED
    BY <2>1, <2>2, <2>3, <2>4 DEF MCNext
<1> QED
  BY AlikeInit, <1>1, PTL DEF MCSpec

\* The nth row is the same in every game, for every register, seed and period, in
\* builds with every set of late bits (random.sv:13-44, Draw_game.sv:113-118).
THEOREM SameRows == MCSpec => []GamesAlike
BY SpecAlike, AlikeMeans, PTL

-----------------------------------------------------------------------------
(* No lane is safe, or hopeless, for a whole game, if that is so in the     *)
(* first three rows that the register yields from its seed.  What they are  *)
(* is computed, for the program's register, when the assumption is checked; *)
(* that games go by them, in every build and however they are broken off,   *)
(* is proved.                                                               *)

Blocks(n) == RowOf(Rounds[n][LastCount], late)

\* A game goes through the rounds of its first three rows, and keeps in mind what they
\* block and leave free.
Tracks ==
    /\ picks \in 0 .. 2 =>
          /\ random = Rounds[picks][count]
          /\ blocked = {l \in Lanes : \E n \in 0 .. picks - 1 : l \in Blocks(n)}
          /\ free = {l \in Lanes : \E n \in 0 .. picks - 1 : l \notin Blocks(n)}
    /\ picks > 2 => blocked = Lanes /\ free = Lanes

LEMMA TracksStart ==
    ASSUME random = Seed, count = 0, picks = 0, blocked = {}, free = {}
    PROVE  Tracks
<1>1. Rounds[0][0] = Seed
  BY RoundsAssumption DEF RoundsFollow
<1>2. 0 .. picks - 1 = {}
  OBVIOUS
<1> QED
  BY <1>1, <1>2 DEF Tracks

LEMMA TracksFrame ==
    ASSUME Alike, Tracks, MCFrameEdge
    PROVE  Tracks'
<1>0. /\ LastCount \in Nat /\ picks \in Nat /\ count \in 0 .. LastCount
      /\ late \in SUBSET Lanes
  BY RandomAssumption DEF Alike, TypeOK
<1>1. random' = Shift(random) /\ late' = late
  BY ShiftIs DEF MCFrameEdge, FrameEdge
<1>2. \A n : Blocks(n)' = Blocks(n)
  BY <1>1 DEF Blocks, RowOf
<1>3. CASE count # LastCount
  <2>1. count' = count + 1 /\ UNCHANGED <<picks, blocked, free>>
    BY <1>3 DEF MCFrameEdge, FrameEdge, CountOn, Picking
  <2>2. picks \in 0 .. 2 => random' = Rounds[picks][count']
    <3> SUFFICES ASSUME picks \in 0 .. 2 PROVE random' = Rounds[picks][count']
      OBVIOUS
    <3>1. count \in 0 .. LastCount - 1
      BY <1>0, <1>3
    <3>2. Rounds[picks][count + 1] = Shift(Rounds[picks][count])
      BY <3>1, RoundsAssumption DEF RoundsFollow
    <3> QED
      BY <1>1, <2>1, <3>2 DEF Tracks
  <2> QED
    BY <1>2, <2>1, <2>2 DEF Tracks
<1>4. CASE count = LastCount
  <2>1. /\ count' = 0 /\ picks' = picks + 1
        /\ blocked' = blocked \cup Row' /\ free' = free \cup (Lanes \ Row')
    BY <1>4 DEF MCFrameEdge, FrameEdge, CountOn, Picking
  <2>2. Row' = RowAfter(random) /\ Row' \subseteq Lanes
    BY <1>4, FrameLatch DEF Row
  <2>3. CASE picks \in 0 .. 2
    <3>1. Row' = Blocks(picks)
      BY <1>4, <2>2, <2>3 DEF Tracks, RowAfter, Blocks
    <3>2. \A n : n \in 0 .. picks <=> n \in 0 .. picks - 1 \/ n = picks
      BY <2>3
    <3>3. /\ blocked' = {l \in Lanes : \E n \in 0 .. picks : l \in Blocks(n)}
          /\ free' = {l \in Lanes : \E n \in 0 .. picks : l \notin Blocks(n)}
      BY <2>1, <2>2, <2>3, <3>1, <3>2 DEF Tracks
    <3>4. CASE picks = 2
      <4>1. \A l \in Lanes : /\ \E n \in 0 .. 2 : l \in Blocks(n)
                            /\ \E n \in 0 .. 2 : l \notin Blocks(n)
        BY <1>0, RoundsAssumption DEF RowsVary, Blocks
      <4>2. blocked' = Lanes /\ free' = Lanes
        BY <3>3, <3>4, <4>1
      <4> QED
        BY <2>1, <3>4, <4>2 DEF Tracks
    <3>5. CASE picks \in 0 .. 1
      <4>1. Rounds[picks + 1][0] = Shift(Rounds[picks][LastCount])
        BY <3>5, RoundsAssumption DEF RoundsFollow
      <4>2. random' = Rounds[picks'][count']
        BY <1>1, <1>4, <2>1, <2>3, <4>1 DEF Tracks
      <4>3. picks' - 1 = picks /\ picks' \in 0 .. 2
        BY <2>1, <3>5
      <4>4. blocked' = {l \in Lanes : \E n \in 0 .. picks' - 1 : l \in Blocks(n)'}
        BY <1>2, <3>3, <4>3
      <4>5. free' = {l \in Lanes : \E n \in 0 .. picks' - 1 : l \notin Blocks(n)'}
        BY <1>2, <3>3, <4>3
      <4>6. ~(picks' > 2)
        BY <4>3
      <4> QED
        BY <4>2, <4>4, <4>5, <4>6, Zenon DEF Tracks
    <3> QED
      BY <2>3, <3>4, <3>5
  <2>4. CASE picks > 2
    <3>1. blocked' = Lanes /\ free' = Lanes
      BY <2>1, <2>2, <2>4 DEF Tracks
    <3> QED
      BY <1>0, <2>1, <2>4, <3>1 DEF Tracks
  <2> QED
    BY <1>0, <2>3, <2>4
<1> QED
  BY <1>3, <1>4

\* Whatever the delays of the build do to the bits of the latch, every game that gets to
\* its third row has by then blocked each lane and left it free (random.sv:35-44), for
\* games of any length, broken off at any frame.
THEOREM LanesVary == MCSpec => []EveryLaneVaries
<1>1. MCInit => Tracks
  BY TracksStart DEF MCInit, Init
<1>2. Alike /\ Tracks /\ [MCNext]_allvars => Tracks'
  <2> SUFFICES ASSUME Alike, Tracks, [MCNext]_allvars PROVE Tracks'
    OBVIOUS
  <2>1. CASE MCFrameEdge
    BY <2>1, TracksFrame
  <2>2. CASE MCLeaveGame
    <3>1. random' = Seed /\ count' = 0 /\ picks' = 0 /\ blocked' = {} /\ free' = {}
      BY <2>2 DEF MCLeaveGame, LeaveGame
    <3>2. Rounds[0][0] = Seed /\ 0 .. 0 - 1 = {}
      BY RoundsAssumption DEF RoundsFollow
    <3> QED
      BY <3>1, <3>2 DEF Tracks
  <2>3. CASE MCStartGame \/ UNCHANGED allvars
    <3>1. UNCHANGED <<random, count, late, picks, blocked, free>>
      BY <2>3 DEF MCStartGame, StartGame, allvars, vars
    <3> QED
      BY <3>1 DEF Tracks, Blocks, RowOf
  <2> QED
    BY <2>1, <2>2, <2>3 DEF MCNext
<1>3. Alike /\ Tracks => EveryLaneVaries
  BY DEF Alike, Tracks, EveryLaneVaries
<1> QED
  BY SpecAlike, <1>1, <1>2, <1>3, PTL DEF MCSpec
=============================================================================
