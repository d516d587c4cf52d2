----------------------------- MODULE Score_proof -----------------------------
(***************************************************************************)
(* What the scores are worth, for every length of the buckets, every base  *)
(* and width of the digits and all movements.  Two invariants relate the   *)
(* registers to the scorekeepers of MCScore: the first player's memory is  *)
(* the scorekeeper's, and the second one's, where it is behind, has been   *)
(* left behind in a frame in which the first player scored.                *)
(***************************************************************************)
EXTENDS MCScore, TLAPS

Scores == [hundreds : Digits, tens : Digits, ones : Digits]
Decimal == [hundreds : Digits, tens : 0 .. Base - 1, ones : 0 .. Base - 1]

-----------------------------------------------------------------------------
(* Arithmetic. *)

\* Quotient and remainder are unique.
LEMMA ModUnique ==
    ASSUME NEW m \in Nat \ {0}, NEW q \in Int, NEW r \in 0 .. m - 1, NEW n \in Int,
           n = m * q + r
    PROVE  n % m = r
<1> DEFINE p == n \div m
           s == n % m
<1>1. p \in Int /\ s \in 0 .. m - 1 /\ n = m * p + s
  BY SMT
<1> HIDE DEF p, s
<1>2. m * (p - q) = r - s
  BY <1>1, SMT
<1>3. p - q >= 1 => m * (p - q) >= m
  BY <1>1, SMT
<1>4. p - q <= -1 => m * (p - q) <= -m
  BY <1>1, SMT
<1>5. p = q
  BY <1>1, <1>2, <1>3, <1>4, SMT
<1>6. s = r
  BY <1>1, <1>2, <1>5, SMT
<1> QED
  BY <1>6 DEF s

\* Counting modulo m.
LEMMA ModNext ==
    ASSUME NEW m \in Nat \ {0}, NEW n \in Nat
    PROVE  /\ n % m \in 0 .. m - 1
           /\ (n + 1) % m = IF n % m = m - 1 THEN 0 ELSE (n % m) + 1
<1> DEFINE q == n \div m
           r == n % m
<1>1. q \in Int /\ r \in 0 .. m - 1 /\ n = m * q + r
  BY SMT
<1> HIDE DEF q, r
<1>2. CASE r = m - 1
  <2>1. n + 1 = m * (q + 1) + 0 /\ q + 1 \in Int /\ 0 \in 0 .. m - 1
    BY <1>1, <1>2, SMT
  <2>2. (n + 1) % m = 0
    BY <2>1, ModUnique, <1>1
  <2> QED
    BY <1>1, <2>2, <1>2 DEF r
<1>3. CASE r # m - 1
  <2>1. n + 1 = m * q + (r + 1) /\ r + 1 \in 0 .. m - 1
    BY <1>1, <1>3, SMT
  <2>2. (n + 1) % m = r + 1
    BY <2>1, ModUnique, <1>1
  <2> QED
    BY <1>1, <2>2, <1>3 DEF r
<1> QED
  BY <1>2, <1>3

\* Buckets follow each other like the positions in them.
LEMMA BucketsInOrder ==
    ASSUME NEW x \in Nat, NEW y \in Nat, x <= y
    PROVE  /\ x \div Bucket \in Nat /\ y \div Bucket \in Nat
           /\ x \div Bucket <= y \div Bucket
<1> DEFINE p == x \div Bucket
           q == y \div Bucket
<1>0. Bucket \in Nat \ {0}
  BY ScoreAssumption
<1>1. /\ p \in Int /\ Bucket * p <= x /\ x < Bucket * p + Bucket
      /\ q \in Int /\ Bucket * q <= y /\ y < Bucket * q + Bucket
  BY <1>0, SMT
<1> HIDE DEF p, q
<1>2. \A k \in Int : k <= -1 => Bucket * k <= -Bucket
  BY <1>0, SMT
<1>3. p >= 0 /\ q >= 0
  BY <1>0, <1>1, <1>2, SMT
<1>4. Bucket * (q - p) > -Bucket
  BY <1>0, <1>1, SMT
<1>5. q - p > -1
  BY <1>0, <1>1, <1>2, <1>4, SMT
<1> QED
  BY <1>1, <1>3, <1>5, SMT DEF p, q

LEMMA Constants ==
    /\ Base \in Nat \ {0, 1} /\ DigitMod \in Nat /\ DigitMod >= Base
    /\ Base * Base \in Nat \ {0} /\ Overflow \in Nat \ {0}
    /\ Overflow = DigitMod * (Base * Base)
    /\ StartY \in Nat /\ Bucket \in Nat \ {0} /\ Moves \subseteq Nat
<1>1. Base \in Nat \ {0, 1} /\ DigitMod \in Nat /\ DigitMod >= Base
  BY ScoreAssumption
<1>2. Base * Base \in Nat /\ Base * Base > 0
  BY <1>1, SMT
<1>3. DigitMod * (Base * Base) \in Nat /\ DigitMod * (Base * Base) > 0
  BY <1>1, <1>2, SMT
<1>4. Overflow = DigitMod * (Base * Base)
  BY <1>1, SMT DEF Overflow
<1> QED
  BY <1>1, <1>2, <1>3, <1>4, ScoreAssumption

\* A score of decimal digits is below the place of its first digit's end, and below
\* the place that a fourth digit would have exactly if its first digit is decimal.
LEMMA WorthOfDigits ==
    ASSUME NEW h \in Digits, NEW t \in 0 .. Base - 1, NEW o \in 0 .. Base - 1
    PROVE  /\ h * Base * Base + t * Base + o \in 0 .. Overflow - 1
           /\ h < Base <=> h * Base * Base + t * Base + o < Base * Base * Base
<1>0. h \in Nat /\ h <= DigitMod - 1 /\ Base \in Nat /\ DigitMod \in Nat
  BY Constants DEF Digits
<1>1. t * Base <= (Base - 1) * Base /\ t * Base \in Nat
  BY <1>0, SMT
<1>2. t * Base + o \in Nat /\ t * Base + o < Base * Base
  BY <1>0, <1>1, SMT
<1>3. \A x, y \in Nat : x <= y => x * Base * Base <= y * Base * Base /\ x * Base * Base \in Nat
  BY <1>0, SMT
<1>4. (h + 1) * Base * Base = h * Base * Base + Base * Base
  BY <1>0, SMT
<1>5. h < Base => (h + 1) * Base * Base <= Base * Base * Base
  BY <1>0, <1>3, SMT
<1>6. h >= Base => h * Base * Base >= Base * Base * Base
  BY <1>0, <1>3, SMT
<1>7. (h + 1) * Base * Base <= DigitMod * Base * Base /\ h * Base * Base \in Nat
  BY <1>0, <1>3, SMT
<1> QED
  BY <1>0, <1>2, <1>4, <1>5, <1>6, <1>7, SMT DEF Overflow

-----------------------------------------------------------------------------
(* One point. *)

\* A point adds one to the worth of a score, up to the last score, after which comes
\* zero; and no digit that carries leaves its base.
LEMMA IncrementValue ==
    ASSUME NEW d \in Decimal
    PROVE  /\ Increment(d) \in Decimal
           /\ Value(d) \in 0 .. Overflow - 1
           /\ Value(Increment(d)) = IF Value(d) = Overflow - 1 THEN 0 ELSE Value(d) + 1
<1> DEFINE h == d.hundreds
           t == d.tens
           o == d.ones
<1>0. Base \in Nat \ {0, 1} /\ DigitMod \in Nat \ {0}
  BY Constants, SMT
<1>1. h \in Digits /\ t \in 0 .. Base - 1 /\ o \in 0 .. Base - 1
  BY DEF Decimal
<1>2. d = [hundreds |-> h, tens |-> t, ones |-> o]
  BY DEF Decimal
<1>3. Value(d) = h * Base * Base + t * Base + o
  BY DEF Value
<1>4. Value(d) \in 0 .. Overflow - 1
  BY <1>1, <1>3, WorthOfDigits
<1>5. h \in Nat /\ h <= DigitMod - 1 /\ h * Base * Base \in Nat /\ t * Base \in Nat
  BY <1>0, <1>1, SMT DEF Digits
<1> HIDE DEF h, t, o
<1>6. CASE o # Base - 1
  <2>1. Increment(d) = [hundreds |-> h, tens |-> t, ones |-> o + 1]
    BY <1>2, <1>6 DEF Increment, o
  <2>2. o + 1 \in 0 .. Base - 1
    BY <1>0, <1>1, <1>6, SMT
  <2>3. Increment(d) \in Decimal
    BY <1>1, <2>1, <2>2 DEF Decimal
  <2>4. Value(Increment(d)) = h * Base * Base + t * Base + (o + 1)
    BY <2>1 DEF Value
  <2>5. Value(Increment(d)) \in 0 .. Overflow - 1
    BY <1>1, <2>2, <2>4, WorthOfDigits
  <2> QED
    BY <1>0, <1>1, <1>3, <1>4, <1>5, <2>3, <2>4, <2>5, Constants, SMT
<1>7. CASE o = Base - 1 /\ t # Base - 1
  <2>1. Increment(d) = [hundreds |-> h, tens |-> t + 1, ones |-> 0]
    <3>1. Increment(d) = [d EXCEPT !.tens = @ + 1, !.ones = 0]
      BY <1>7 DEF Increment, o, t
    <3>2. d = [hundreds |-> h, tens |-> t, ones |-> o]
      BY <1>2
    <3> QED
      BY <3>1, <3>2
  <2>2. t + 1 \in 0 .. Base - 1 /\ 0 \in 0 .. Base - 1
    BY <1>0, <1>1, <1>7, SMT
  <2>3. Increment(d) \in Decimal
    BY <1>1, <2>1, <2>2 DEF Decimal
  <2>4. Value(Increment(d)) = h * Base * Base + (t + 1) * Base + 0
    BY <2>1 DEF Value
  <2>5. Value(Increment(d)) \in 0 .. Overflow - 1
    BY <1>1, <2>2, <2>4, WorthOfDigits
  <2>6. (t + 1) * Base = t * Base + Base
    BY <1>0, <1>1, SMT
  <2> QED
    BY <1>0, <1>1, <1>3, <1>4, <1>5, <1>7, <2>3, <2>4, <2>5, <2>6, Constants, SMT
<1>8. CASE o = Base - 1 /\ t = Base - 1
  <2>1. Increment(d) = [hundreds |-> (h + 1) % DigitMod, tens |-> 0, ones |-> 0]
    BY <1>2, <1>8 DEF Increment, o, t, h
  <2>2. (h + 1) % DigitMod = IF h = DigitMod - 1 THEN 0 ELSE h + 1
    <3>1. CASE h = DigitMod - 1
      <4>1. h + 1 = DigitMod * 1 + 0 /\ 1 \in Int /\ 0 \in 0 .. DigitMod - 1 /\ h + 1 \in Int
        BY <1>0, <1>5, <3>1, SMT
      <4>2. (h + 1) % DigitMod = 0
        BY <1>0, <4>1, ModUnique
      <4> QED
        BY <3>1, <4>2
    <3>2. CASE h # DigitMod - 1
      <4>1. /\ h + 1 = DigitMod * 0 + (h + 1) /\ 0 \in Int
            /\ h + 1 \in 0 .. DigitMod - 1 /\ h + 1 \in Int
        BY <1>0, <1>5, <3>2, SMT
      <4>2. (h + 1) % DigitMod = h + 1
        BY <1>0, <4>1, ModUnique
      <4> QED
        BY <3>2, <4>2
    <3> QED
      BY <3>1, <3>2
  <2>3. (h + 1) % DigitMod \in Digits /\ 0 \in 0 .. Base - 1
    BY <1>0, <1>5, <2>2, SMT DEF Digits
  <2>4. Increment(d) \in Decimal
    BY <2>1, <2>3 DEF Decimal
  <2>5. Value(Increment(d)) = ((h + 1) % DigitMod) * Base * Base + 0 * Base + 0
    BY <2>1 DEF Value
  <2>6. (h + 1) * Base * Base = h * Base * Base + Base * Base
    BY <1>0, <1>5, SMT
  <2>7. (Base - 1) * Base = Base * Base - Base /\ Base * Base \in Nat
    BY <1>0, SMT
  <2>8. Value(d) + 1 = (h + 1) * Base * Base
    BY <1>0, <1>3, <1>5, <1>8, <2>6, <2>7, SMT
  <2>9. CASE h = DigitMod - 1
    <3>1. (h + 1) * Base * Base = Overflow
      BY <1>0, <2>9, SMT DEF Overflow
    <3>2. Value(d) = Overflow - 1
      BY <1>4, <2>8, <3>1, Constants, SMT
    <3>3. Value(Increment(d)) = 0
      BY <1>0, <2>2, <2>5, <2>9, SMT
    <3> QED
      BY <1>4, <2>4, <3>2, <3>3
  <2>10. CASE h # DigitMod - 1
    <3>1. Value(Increment(d)) = (h + 1) * Base * Base + 0 * Base + 0
      BY <2>2, <2>5, <2>10
    <3>2. Value(Increment(d)) \in 0 .. Overflow - 1
      BY <2>2, <2>3, <2>5, WorthOfDigits
    <3>3. Value(Increment(d)) = Value(d) + 1
      <4>1. (h + 1) * Base * Base \in Int /\ 0 * Base = 0
        BY <1>0, <1>5, <2>6, SMT
      <4>2. Value(Increment(d)) = (h + 1) * Base * Base
        BY <3>1, <4>1, SMT
      <4> QED
        BY <2>8, <4>2
    <3> QED
      BY <1>4, <2>4, <3>2, <3>3, Constants, SMT
  <2> QED
    BY <2>9, <2>10
<1> QED
  BY <1>6, <1>7, <1>8

-----------------------------------------------------------------------------
(* The invariant. *)

Bin(y) == y \div Bucket

\* A crossing of car 2 that the chain has forgotten and will count once more.
Owed == IF Bin(y_old[2]) < Bin(fair_old[2]) THEN 1 ELSE 0

Typed ==
    /\ stage \in {"off", "countdown", "race"}
    /\ points \in [Players -> Decimal]
    /\ car_y \in [Players -> Nat] /\ y_old \in [Players -> Nat]
    /\ fair_old \in [Players -> Nat] /\ fair \in [Players -> Nat]

FirstAgrees == y_old[1] = fair_old[1] /\ Worth(1) = fair[1] % Overflow

MemoryBehind ==
    /\ Bin(y_old[2]) <= Bin(fair_old[2])
    /\ Bin(fair_old[2]) <= Bin(car_y[2])

SecondPaid ==
    fair[1] + fair[2] < Overflow =>
        fair[2] <= Worth(2) /\ Worth(2) + Owed <= fair[1] + fair[2]

Inv == Typed /\ FirstAgrees /\ MemoryBehind /\ SecondPaid

LEMMA WorthZero == Zero \in Decimal /\ Value(Zero) = 0 /\ 0 % Overflow = 0
<1>1. Base \in Nat \ {0, 1} /\ DigitMod \in Nat \ {0} /\ Overflow \in Nat \ {0}
  BY Constants, SMT
<1>2. 0 \in Digits /\ 0 \in 0 .. Base - 1 /\ 0 * Base = 0
  BY <1>1, SMT DEF Digits
<1>3. Zero \in Decimal
  BY <1>2 DEF Zero, Decimal
<1>4. Value(Zero) = 0
  BY <1>2, SMT DEF Value, Zero
<1>5. 0 % Overflow = 0
  BY <1>1, ModUnique, 0 = Overflow * 0 + 0, 0 \in Int, 0 \in 0 .. Overflow - 1
<1> QED
  BY <1>3, <1>4, <1>5

\* At the start, and in a frame outside of the race, memories and scores agree.
LEMMA Clean ==
    ASSUME y_old = [p \in Players |-> 0], fair_old = [p \in Players |-> 0],
           car_y \in [Players -> Nat]
    PROVE  MemoryBehind /\ Owed = 0 /\ y_old[1] = fair_old[1]
<1>1. y_old[2] = 0 /\ fair_old[2] = 0 /\ y_old[1] = 0 /\ fair_old[1] = 0
  BY DEF Players
<1>2. car_y[2] \in Nat /\ 0 <= car_y[2]
  BY DEF Players
<1>3. Bin(0) <= Bin(car_y[2]) /\ Bin(0) \in Nat
  BY <1>2, BucketsInOrder, 0 \in Nat DEF Bin
<1>4. Bin(y_old[2]) = Bin(0) /\ Bin(fair_old[2]) = Bin(0)
  BY <1>1
<1> QED
  BY <1>1, <1>3, <1>4, SMT DEF MemoryBehind, Owed

LEMMA InvInit == HInit => Inv
<1> SUFFICES ASSUME HInit PROVE Inv
  OBVIOUS
<1> USE DEF HInit, Init
<1>1. points[1] = Zero /\ points[2] = Zero /\ fair[1] = 0 /\ fair[2] = 0
  BY DEF Players
<1>2. Typed
  BY WorthZero, Constants, 0 \in Nat DEF Typed
<1>3. MemoryBehind /\ Owed = 0 /\ y_old[1] = fair_old[1]
  BY <1>2, Clean DEF Typed
<1>4. Worth(1) = 0 /\ Worth(2) = 0
  BY <1>1, WorthZero DEF Worth
<1>5. FirstAgrees
  BY <1>1, <1>3, <1>4, WorthZero DEF FirstAgrees
<1>6. SecondPaid
  BY <1>1, <1>3, <1>4, SMT DEF SecondPaid
<1> QED
  BY <1>2, <1>3, <1>5, <1>6 DEF Inv

\* A frame in which nobody races clears the memories; the points stay for the
\* countdown only.
LEMMA IdleKeeps ==
    ASSUME Inv, HNext, IdleFrame
    PROVE  Inv'
<1> USE DEF IdleFrame, Clear
<1>1. ~RaceFrame
  BY DEF RaceFrame
<1>2. /\ fair_old' = [p \in Players |-> 0]
      /\ fair' = IF stage = "off" THEN [p \in Players |-> 0] ELSE fair
  BY <1>1 DEF HNext, KeepScore
<1>3. stage' \in {"off", "countdown", "race"}
  BY DEF NextStage
<1>4. points' \in [Players -> Decimal] /\ fair' \in [Players -> Nat]
  BY <1>2, WorthZero, 0 \in Nat DEF Inv, Typed
<1>5. Typed'
  BY <1>2, <1>3, <1>4, Constants, 0 \in Nat DEF Typed
<1>6. MemoryBehind' /\ Owed' = 0 /\ y_old'[1] = fair_old'[1]
  <2>1. y_old'[2] = 0 /\ fair_old'[2] = 0 /\ y_old'[1] = 0 /\ fair_old'[1] = 0
    BY <1>2 DEF Players
  <2>2. car_y'[2] \in Nat /\ 0 <= car_y'[2]
    BY <1>5 DEF Players, Typed
  <2>3. Bin(0) <= Bin(car_y'[2]) /\ Bin(0) \in Nat
    BY <2>2, BucketsInOrder, 0 \in Nat DEF Bin
  <2>4. Bin(y_old'[2]) = Bin(0) /\ Bin(fair_old'[2]) = Bin(0)
    BY <2>1
  <2>5. Bin(y_old'[2]) <= Bin(fair_old'[2]) /\ Bin(fair_old'[2]) <= Bin(car_y'[2])
    BY <2>3, <2>4, SMT
  <2>6. ~(Bin(y_old'[2]) < Bin(fair_old'[2]))
    BY <2>3, <2>4, SMT
  <2> QED
    BY <2>1, <2>5, <2>6 DEF MemoryBehind, Owed, Bin
<1>7. CASE stage = "countdown"
  <2>1. points' = points /\ fair' = fair
    BY <1>2, <1>7 DEF Inv, Typed
  <2>2. FirstAgrees'
    BY <1>6, <2>1 DEF Inv, FirstAgrees, Worth
  <2>3. Worth(2) \in Int /\ fair[1] \in Nat /\ fair[2] \in Nat /\ Owed \in {0, 1}
    BY IncrementValue DEF Inv, Typed, Players, Worth, Owed
  <2>4. SecondPaid'
    <3>1. Worth(2)' = Worth(2) /\ fair'[1] = fair[1] /\ fair'[2] = fair[2] /\ Owed' = 0
      BY <1>6, <2>1 DEF Worth
    <3> QED
      BY <2>3, <3>1, Constants, SMT DEF Inv, SecondPaid
  <2> QED
    BY <1>5, <1>6, <2>2, <2>4 DEF Inv
<1>8. CASE stage = "off"
  <2>1. points'[1] = Zero /\ points'[2] = Zero /\ fair'[1] = 0 /\ fair'[2] = 0
    BY <1>2, <1>8 DEF Players
  <2>2. Worth(1)' = 0 /\ Worth(2)' = 0
    BY <2>1, WorthZero DEF Worth
  <2>3. FirstAgrees'
    BY <1>6, <2>1, <2>2, WorthZero DEF FirstAgrees
  <2>4. SecondPaid'
    BY <1>6, <2>1, <2>2, SMT DEF SecondPaid
  <2> QED
    BY <1>5, <1>6, <2>3, <2>4 DEF Inv
<1> QED
  BY <1>7, <1>8 DEF Inv, Typed

\* Entering and leaving a game change neither points nor memories.
LEMMA StageKeeps ==
    ASSUME Inv, UNCHANGED <<car_y, y_old, points, fair_old, fair>>,
           stage' \in {"off", "countdown", "race"}
    PROVE  Inv'
  BY DEF Inv, Typed, FirstAgrees, MemoryBehind, SecondPaid, Owed, Worth, Bin, Value

\* A frame of the race.  Where the second player's memory is left behind, so that a
\* crossing will be counted again, the first player has just been paid.
LEMMA RaceKeeps ==
    ASSUME Inv, HNext, RaceFrame
    PROVE  Inv'
<1> DEFINE later(p) == Bin(car_y[p]) > Bin(y_old[p])
           fairly(p) == Bin(car_y[p]) > Bin(fair_old[p])
           W == Worth(2)
           f1 == fair[1]
           f2 == fair[2]
<1>1. /\ stage = "race" /\ stage' = "race"
      /\ y_old' = Remember
      /\ points' = [p \in Players |-> IF Crosses(p) THEN Increment(points[p])
                                                    ELSE points[p]]
      /\ \E m \in [Players -> Moves] : car_y' = [p \in Players |-> car_y[p] + m[p]]
  BY DEF RaceFrame, Count
<1>2. /\ fair_old' = [p \in Players |-> IF FairCrosses(p) THEN car_y[p] ELSE fair_old[p]]
      /\ fair' = [p \in Players |-> IF FairCrosses(p) THEN fair[p] + 1 ELSE fair[p]]
  BY DEF HNext, KeepScore
<1>3. \A p \in Players : (Crosses(p) <=> later(p)) /\ (FairCrosses(p) <=> fairly(p))
  BY <1>1 DEF Crosses, FairCrosses, Later, Bin
<1>4. 1 \in Players /\ 2 \in Players /\ \A p \in Players : p = 1 \/ p = 2
  BY DEF Players
<1>5. car_y' \in [Players -> Nat] /\ \A p \in Players : car_y[p] <= car_y'[p]
  <2>1. PICK m \in [Players -> Moves] : car_y' = [p \in Players |-> car_y[p] + m[p]]
    BY <1>1
  <2>2. \A p \in Players : m[p] \in Nat /\ car_y[p] \in Nat
    BY Constants DEF Inv, Typed
  <2> QED
    BY <2>1, <2>2, SMT
<1>6. Remember \in [Players -> Nat]
  BY DEF Remember, Inv, Typed
<1>7. points' \in [Players -> Decimal]
  BY <1>1, IncrementValue DEF Inv, Typed
<1>8. fair_old' \in [Players -> Nat] /\ fair' \in [Players -> Nat]
  BY <1>2, SMT DEF Inv, Typed
<1>9. Typed'
  BY <1>1, <1>5, <1>6, <1>7, <1>8 DEF Typed
<1>10. /\ \A p \in Players : /\ Bin(car_y[p]) \in Nat /\ Bin(car_y'[p]) \in Nat
                              /\ Bin(car_y[p]) <= Bin(car_y'[p])
                              /\ Bin(y_old[p]) \in Nat /\ Bin(fair_old[p]) \in Nat
  <2> SUFFICES ASSUME NEW p \in Players
               PROVE  /\ Bin(car_y[p]) \in Nat /\ Bin(car_y'[p]) \in Nat
                      /\ Bin(car_y[p]) <= Bin(car_y'[p])
                      /\ Bin(y_old[p]) \in Nat /\ Bin(fair_old[p]) \in Nat
    OBVIOUS
  <2>1. /\ car_y[p] \in Nat /\ car_y'[p] \in Nat /\ car_y[p] <= car_y'[p]
        /\ y_old[p] \in Nat /\ fair_old[p] \in Nat
        /\ y_old[p] <= y_old[p] /\ fair_old[p] <= fair_old[p]
    BY <1>5, SMT DEF Inv, Typed
  <2> QED
    BY <2>1, BucketsInOrder DEF Bin
<1>11. W \in 0 .. Overflow - 1 /\ f1 \in Nat /\ f2 \in Nat
  BY <1>4, IncrementValue DEF Inv, Typed, Worth
<1>12. /\ Worth(2)' = IF later(2) THEN IF W = Overflow - 1 THEN 0 ELSE W + 1 ELSE W
       /\ Worth(1)' = IF later(1)
                      THEN IF Worth(1) = Overflow - 1 THEN 0 ELSE Worth(1) + 1 ELSE Worth(1)
  <2> SUFFICES ASSUME NEW p \in Players
               PROVE  Worth(p)' = IF later(p) THEN IF Worth(p) = Overflow - 1 THEN 0
                                                   ELSE Worth(p) + 1 ELSE Worth(p)
    BY <1>4
  <2>1. points[p] \in Decimal
    BY DEF Inv, Typed
  <2>2. points'[p] = IF later(p) THEN Increment(points[p]) ELSE points[p]
    BY <1>1, <1>3
  <2> QED
    BY <2>1, <2>2, IncrementValue DEF Worth
<1>13. /\ fair'[1] = IF fairly(1) THEN f1 + 1 ELSE f1
       /\ fair'[2] = IF fairly(2) THEN f2 + 1 ELSE f2
       /\ fair_old'[1] = IF fairly(1) THEN car_y[1] ELSE fair_old[1]
       /\ fair_old'[2] = IF fairly(2) THEN car_y[2] ELSE fair_old[2]
  BY <1>2, <1>3, <1>4
<1>14. /\ y_old'[1] = IF later(1) THEN car_y[1] ELSE y_old[1]
       /\ y_old'[2] = IF later(2) /\ ~later(1) THEN car_y[2] ELSE y_old[2]
  <2>1. CASE later(1)
    BY <1>1, <1>3, <1>4, <2>1 DEF Remember, Inv, Typed
  <2>2. CASE ~later(1)
    BY <1>1, <1>3, <1>4, <2>2 DEF Remember, Inv, Typed
  <2> QED
    BY <2>1, <2>2
<1>15. (later(1) <=> fairly(1)) /\ (fairly(2) => later(2))
  BY <1>4, <1>10, SMT DEF Inv, FirstAgrees, MemoryBehind
<1>16. FirstAgrees'
  <2>1. y_old'[1] = fair_old'[1]
    BY <1>13, <1>14, <1>15 DEF Inv, FirstAgrees
  <2>2. /\ f1 % Overflow = Worth(1)
        /\ (f1 + 1) % Overflow = IF Worth(1) = Overflow - 1 THEN 0 ELSE Worth(1) + 1
    BY <1>11, Constants, ModNext DEF Inv, FirstAgrees
  <2>3. Worth(1)' = fair'[1] % Overflow
    BY <1>12, <1>13, <1>15, <2>2
  <2> QED
    BY <2>1, <2>3 DEF FirstAgrees
<1>17. /\ Bin(y_old'[2]) = IF later(2) /\ ~later(1) THEN Bin(car_y[2]) ELSE Bin(y_old[2])
       /\ Bin(fair_old'[2]) = IF fairly(2) THEN Bin(car_y[2]) ELSE Bin(fair_old[2])
  BY <1>13, <1>14
<1> DEFINE c == Bin(car_y[2])
           k == Bin(car_y'[2])
           o == Bin(y_old[2])
           g == Bin(fair_old[2])
           op == Bin(y_old'[2])
           gp == Bin(fair_old'[2])
           L1 == later(1)
           L2 == later(2)
           F2 == fairly(2)
<1>18. /\ c \in Nat /\ k \in Nat /\ o \in Nat /\ g \in Nat /\ c <= k /\ o <= g /\ g <= c
       /\ op = (IF c > o /\ ~L1 THEN c ELSE o) /\ gp = (IF c > g THEN c ELSE g)
  BY <1>4, <1>10, <1>17 DEF Inv, MemoryBehind
<1>19. MemoryBehind'
  <2>1. op <= gp /\ gp <= k
    <3> HIDE DEF c, k, o, g, op, gp, L1
    <3> QED BY <1>18, SMT
  <2> QED
    BY <2>1 DEF MemoryBehind, Bin
<1>20. SecondPaid'
  <2>1. Owed = (IF o < g THEN 1 ELSE 0) /\ Owed' = (IF op < gp THEN 1 ELSE 0)
    BY DEF Owed, Bin
  <2>2. /\ Worth(2)' = IF c > o THEN IF W = Overflow - 1 THEN 0 ELSE W + 1 ELSE W
        /\ fair'[1] = IF L1 THEN f1 + 1 ELSE f1
        /\ fair'[2] = IF c > g THEN f2 + 1 ELSE f2
    BY <1>12, <1>13, <1>15
  <2>3. f1 + f2 < Overflow => f2 <= W /\ W + Owed <= f1 + f2
    BY DEF Inv, SecondPaid
  <2> DEFINE a == fair'[1]
             b == fair'[2]
             V == Worth(2)'
             w == Owed
             wp == Owed'
  <2>4. a + b < Overflow => b <= V /\ V + wp <= a + b
    <3> HIDE DEF c, k, o, g, op, gp, L1, W, f1, f2, a, b, V, w, wp
    <3>0. Overflow \in Nat \ {0}
      BY Constants
    <3>1. CASE L1
      BY <1>11, <1>18, <2>1, <2>2, <2>3, <3>0, <3>1, SMT DEF a, b, V, w, wp
    <3>2. CASE ~L1
      BY <1>11, <1>18, <2>1, <2>2, <2>3, <3>0, <3>2, SMT DEF a, b, V, w, wp
    <3> QED
      BY <3>1, <3>2
  <2> QED
    BY <2>4 DEF SecondPaid
<1> QED
  BY <1>9, <1>16, <1>19, <1>20 DEF Inv

LEMMA InvStep == Inv /\ [HNext]_hvars => Inv'
<1> SUFFICES ASSUME Inv, [HNext]_hvars PROVE Inv'
  OBVIOUS
<1>1. CASE HNext
  <2>1. CASE RaceFrame
    BY <1>1, <2>1, RaceKeeps
  <2>2. CASE IdleFrame
    BY <1>1, <2>2, IdleKeeps
  <2>3. CASE ~RaceFrame /\ ~IdleFrame
    <3>1. EnterGame \/ LeaveGame
      BY <1>1, <2>3 DEF HNext, KeepScore, Next
    <3>2. UNCHANGED <<fair_old, fair>>
      BY <1>1, <2>3 DEF HNext, KeepScore
    <3>3. UNCHANGED <<car_y, y_old, points>> /\ stage' \in {"off", "countdown", "race"}
      BY <3>1 DEF EnterGame, LeaveGame
    <3> QED
      BY <3>2, <3>3, StageKeeps
  <2> QED
    BY <2>1, <2>2, <2>3
<1>2. CASE UNCHANGED hvars
  BY <1>2, StageKeeps DEF hvars, vars, Inv, Typed
<1> QED
  BY <1>1, <1>2

LEMMA Always == HSpec => []Inv
  BY InvInit, InvStep, PTL DEF HSpec

-----------------------------------------------------------------------------
(* The theorems. *)

LEMMA Meaning == Inv => TypeOK /\ DigitsDecimal /\ FirstScoreExact /\ SecondScoreBounded
<1> SUFFICES ASSUME Inv PROVE TypeOK /\ DigitsDecimal /\ FirstScoreExact /\ SecondScoreBounded
  OBVIOUS
<1>1. TypeOK
  <2>1. Decimal \subseteq Scores
    BY Constants, SMT DEF Decimal, Scores, Digits
  <2>2. points \in [Players -> Scores]
    BY <2>1 DEF Inv, Typed
  <2> QED
    BY <2>2 DEF Inv, Typed, TypeOK, Scores
<1>2. DigitsDecimal
  <2> SUFFICES ASSUME NEW p \in Players
               PROVE  /\ points[p].ones < Base /\ points[p].tens < Base
                      /\ points[p].hundreds < Base <=> Worth(p) < Base * Base * Base
    BY DEF DigitsDecimal
  <2>1. /\ points[p].hundreds \in Digits
        /\ points[p].tens \in 0 .. Base - 1 /\ points[p].ones \in 0 .. Base - 1
    BY DEF Inv, Typed, Decimal
  <2>2. points[p].hundreds < Base <=> Worth(p) < Base * Base * Base
    BY <2>1, WorthOfDigits DEF Worth, Value
  <2>3. points[p].ones < Base /\ points[p].tens < Base
    BY <2>1, Constants, SMT
  <2> QED
    BY <2>2, <2>3
<1>3. FirstScoreExact
  BY DEF Inv, FirstAgrees, FirstScoreExact
<1>4. SecondScoreBounded
  <2>1. Worth(2) \in Int /\ fair[1] \in Nat /\ fair[2] \in Nat /\ Owed \in {0, 1}
    BY IncrementValue DEF Inv, Typed, Players, Worth, Owed
  <2> QED
    BY <2>1, Constants, SMT DEF Inv, SecondPaid, SecondScoreBounded
<1> QED
  BY <1>1, <1>2, <1>3, <1>4

\* Every register keeps its width: the digits four bits, whatever the cars do.
THEOREM TypeCorrect == HSpec => []TypeOK
  BY Always, Meaning, PTL

\* The lower digits of the scores stay decimal in every game of any length, and the
\* first one leaves the decimal digits exactly from the thousandth point on.
THEOREM DigitsStayDecimal == HSpec => []DigitsDecimal
  BY Always, Meaning, PTL

\* Player 1 is paid for the buckets its car was seen to enter, no more and no less,
\* up to the width of the score, for every movement of the two cars.
THEOREM FirstPlayerPaid == HSpec => []FirstScoreExact
  BY Always, Meaning, PTL

\* Player 2 is paid for every bucket its car entered, and too much at most once for
\* every point of player 1.
THEOREM SecondPlayerPaid == HSpec => []SecondScoreBounded
  BY Always, Meaning, PTL
=============================================================================
