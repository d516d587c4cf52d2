---------------------------- MODULE HpiBus_proof ----------------------------
(***************************************************************************)
(* The bus is never driven from both ends, for every size of the memory,   *)
(* every pace of the software from three clocks on, and every moment of a  *)
(* reset.  A write turns the read strobe off first; by the next statement  *)
(* the strobe has left the pin and the answer has left the bus.            *)
(*                                                                         *)
(* And the calls of the software act on the controller as HpiPorts says,   *)
(* each once, between call and return.                                     *)
(***************************************************************************)
EXTENDS HpiBus, TLAPS

Ops == {"IO_init", "IO_write", "IO_read"}

Typed ==
    /\ call.op \in Ops
    /\ pc \in 0 .. 10 /\ (call.op # "IO_init" => pc <= 7)
    /\ since \in 0 .. Pace
    /\ DOMAIN hpi = {"reset", "cs", "r", "w", "address", "data"}
    /\ awake \in BOOLEAN

\* The chip sleeps until IO_init is over, and says nothing.
Asleep ==
    /\ call.op = "IO_init" /\ pc # 0 => ~awake
    /\ ~awake => out = P!NoWord

\* The write strobe is on from the power-up on until IO_init ends it, and in the
\* sixth statement of IO_write.
Writing ==
    hpi.w = 0 => \/ call.op = "IO_init" /\ pc \in 1 .. 4
                 \/ call.op = "IO_write" /\ pc = 6

\* What the first statement of IO_write brings about, and by when.
ReadOver ==
    call.op = "IO_write" /\ pc >= 2 =>
        /\ hpi.r = 1
        /\ pc > 2 \/ since >= 1 => pins.r = 1
        /\ pc > 2 \/ since >= 2 => out = P!NoWord

Inv == Typed /\ Asleep /\ Writing /\ ReadOver

LEMMA InvInit == Init => Inv
<1> SUFFICES ASSUME Init PROVE Inv
  OBVIOUS
<1> USE PaceAssumption
<1>1. Typed
  <2>1. call.op = "IO_init" /\ pc = 1 /\ since = 0 /\ awake = FALSE
    BY DEF Init
  <2>2. DOMAIN hpi = {"reset", "cs", "r", "w", "address", "data"}
    <3>1. hpi = [reset |-> 0, cs |-> 0, r |-> 0, w |-> 0, address |-> "HPI_DATA", data |-> 0]
      BY DEF Init
    <3> QED
      BY <3>1, Zenon
  <2>3. call.op \in Ops /\ awake \in BOOLEAN
    BY <2>1, Zenon DEF Ops
  <2>4. pc \in 0 .. 10 /\ pc <= 7 /\ since \in 0 .. Pace
    BY <2>1, SMT
  <2> QED
    BY <2>2, <2>3, <2>4, Zenon DEF Typed
<1>2. Asleep /\ Writing /\ ReadOver
  BY DEF Init, Asleep, Writing, ReadOver
<1> QED
  BY <1>1, <1>2 DEF Inv

LEMMA CallKeeps == Inv /\ CallIO => Inv'
<1> SUFFICES ASSUME Inv, CallIO PROVE Inv'
  OBVIOUS
<1>1. call'.op \in {"IO_write", "IO_read"} /\ pc' = 1
  BY DEF CallIO, P!Calls
<1>2. UNCHANGED <<hpi, since, pins, out, awake>> /\ pc = 0
  BY DEF CallIO, controller
<1>3. Typed'
  BY <1>1, <1>2 DEF Inv, Typed, Ops
<1>4. Asleep' /\ Writing' /\ ReadOver'
  BY <1>1, <1>2 DEF Inv, Asleep, Writing, ReadOver
<1> QED
  BY <1>3, <1>4 DEF Inv

\* The statements one by one: what each does to the two strobes.
LEMMA StrobesOf ==
    ASSUME Typed, WritePort
    PROVE  /\ call.op = "IO_init" =>
                hpi'.w = IF pc = 4 THEN 1 ELSE hpi.w
           /\ call.op = "IO_write" =>
                /\ hpi'.r = IF pc = 1 THEN 1 ELSE hpi.r
                /\ hpi'.w = IF pc = 5 THEN 0 ELSE IF pc = 6 THEN 1 ELSE hpi.w
           /\ call.op = "IO_read" =>
                hpi'.w = IF pc = 1 THEN 1 ELSE hpi.w
           /\ DOMAIN hpi' = DOMAIN hpi
<1> DEFINE port == Statements[pc][1]
           value == Statements[pc][2]
<1>1. hpi' = [hpi EXCEPT ![port] = value] /\ pc # 0
  BY DEF WritePort, Statement
<1>2. DOMAIN hpi = {"reset", "cs", "r", "w", "address", "data"} /\ DOMAIN hpi' = DOMAIN hpi
  BY <1>1 DEF Typed
<1>3. /\ hpi'.w = IF port = "w" THEN value ELSE hpi.w
      /\ hpi'.r = IF port = "r" THEN value ELSE hpi.r
  BY <1>1, <1>2
<1>4. CASE call.op = "IO_init"
  <2>1. pc \in 1 .. 10 /\ Statements = IO_init
    BY <1>1, <1>4 DEF Typed, Statements
  <2>2. IF pc = 4 THEN port = "w" /\ value = 1 ELSE port # "w"
    BY <2>1 DEF IO_init
  <2> QED
    BY <1>2, <1>3, <1>4, <2>2
<1>5. CASE call.op = "IO_write"
  <2>1. pc \in 1 .. 7 /\ Statements = IO_write
    BY <1>1, <1>5 DEF Typed, Statements
  <2>2. IF pc = 1 THEN port = "r" /\ value = 1 ELSE port # "r"
    BY <2>1 DEF IO_write
  <2>3. IF pc = 5 THEN port = "w" /\ value = 0
        ELSE IF pc = 6 THEN port = "w" /\ value = 1 ELSE port # "w"
    BY <2>1 DEF IO_write
  <2> QED
    BY <1>2, <1>3, <1>5, <2>2, <2>3
<1>6. CASE call.op = "IO_read"
  <2>1. pc \in 1 .. 7 /\ Statements = IO_read
    BY <1>1, <1>6 DEF Typed, Statements
  <2>2. IF pc = 1 THEN port = "w" /\ value = 1 ELSE port # "w"
    BY <2>1 DEF IO_read
  <2> QED
    BY <1>2, <1>3, <1>6, <2>2
<1> QED
  BY <1>4, <1>5, <1>6 DEF Typed, Ops

\* After the last statement the call returns.
LEMMA NextPc ==
    ASSUME Typed, Statement
    PROVE  /\ call.op = "IO_init" => pc' = IF pc = 10 THEN 0 ELSE pc + 1
           /\ call.op # "IO_init" => pc' = IF pc = 7 THEN 0 ELSE pc + 1
           /\ pc # 0 /\ since = Pace /\ since' = 0
           /\ UNCHANGED <<call, pins, out, awake>>
<1>1. pc # 0 /\ since = Pace /\ since' = 0 /\ UNCHANGED <<call, pins, out, awake>>
  BY DEF Statement, controller
<1>2. pc' = IF pc = Len(Statements) THEN 0 ELSE pc + 1
  BY DEF Statement, NextStatement
<1>3. /\ call.op = "IO_init" => Len(Statements) = 10
      /\ call.op = "IO_write" => Len(Statements) = 7
      /\ call.op = "IO_read" => Len(Statements) = 7
  BY DEF Statements, IO_init, IO_write, IO_read
<1> QED
  BY <1>1, <1>2, <1>3 DEF Typed, Ops

LEMMA StatementKeeps == Inv /\ (WritePort \/ ReadPort) => Inv'
<1> SUFFICES ASSUME Inv, WritePort \/ ReadPort PROVE Inv'
  OBVIOUS
<1>0. Typed /\ Statement
  BY DEF Inv, WritePort, ReadPort
<1>1. /\ call.op = "IO_init" => pc' = IF pc = 10 THEN 0 ELSE pc + 1
      /\ call.op # "IO_init" => pc' = IF pc = 7 THEN 0 ELSE pc + 1
      /\ pc # 0 /\ since = Pace /\ since' = 0
      /\ UNCHANGED <<call, pins, out, awake>>
  BY <1>0, NextPc
<1>2. /\ call.op = "IO_init" => hpi'.w = IF pc = 4 THEN 1 ELSE hpi.w
      /\ call.op = "IO_write" =>
           /\ hpi'.r = IF pc = 1 THEN 1 ELSE hpi.r
           /\ hpi'.w = IF pc = 5 THEN 0 ELSE IF pc = 6 THEN 1 ELSE hpi.w
      /\ call.op = "IO_read" => hpi'.w = IF pc = 1 THEN 1 ELSE hpi.w
      /\ DOMAIN hpi' = DOMAIN hpi
  <2>1. CASE WritePort
    BY <1>0, <2>1, StrobesOf
  <2>2. CASE ReadPort
    <3>1. hpi' = hpi /\ Statements[pc][1] = "data_in"
      BY <2>2 DEF ReadPort
    <3>2. call.op = "IO_read" /\ pc = 5
      <4>1. call.op \in Ops /\ pc \in 1 .. 10 /\ (call.op # "IO_init" => pc <= 7)
        BY <1>0, <1>1 DEF Typed
      <4> QED
        BY <3>1, <4>1 DEF Ops, Statements, IO_init, IO_write, IO_read
    <3> QED
      BY <3>1, <3>2
  <2> QED
    BY <2>1, <2>2
<1>3. Typed'
  BY <1>1, <1>2, PaceAssumption DEF Inv, Typed, Ops
<1>4. Asleep'
  BY <1>1 DEF Inv, Asleep
<1>5. Writing'
  BY <1>1, <1>2 DEF Inv, Typed, Ops, Writing
<1>6. ReadOver'
  BY <1>1, <1>2, PaceAssumption DEF Inv, Typed, ReadOver
<1> QED
  BY <1>3, <1>4, <1>5, <1>6 DEF Inv

LEMMA ClkKeeps == Inv /\ Clk => Inv'
<1> SUFFICES ASSUME Inv, Clk PROVE Inv'
  OBVIOUS
<1>1. /\ UNCHANGED <<call, pc, hpi, awake>>
      /\ since' = IF since = Pace THEN Pace ELSE since + 1
      /\ pins' = IF Reset_h THEN Inactive ELSE hpi
      /\ out' = IF awake /\ Strobed(pins, "r") THEN PortReads(pins.address) ELSE P!NoWord
  BY DEF Clk, Controller
<1>2. Typed'
  BY <1>1, PaceAssumption DEF Inv, Typed
<1>3. Asleep'
  BY <1>1 DEF Inv, Asleep
<1>4. Writing'
  BY <1>1 DEF Inv, Writing
<1>5. ReadOver'
  <2> SUFFICES ASSUME call.op = "IO_write", pc >= 2 PROVE ReadOver'
    BY <1>1 DEF ReadOver
  <2>1. hpi.r = 1 /\ hpi'.r = 1
    BY <1>1 DEF Inv, ReadOver
  <2>2. pins'.r = 1
    BY <1>1, <2>1 DEF Inactive
  <2>3. pins.r = 1 => out' = P!NoWord
    BY <1>1 DEF Strobed
  <2>4. pc > 2 \/ since' >= 2 => pins.r = 1
    BY <1>1, PaceAssumption DEF Inv, Typed, ReadOver
  <2> QED
    BY <1>1, <2>1, <2>2, <2>3, <2>4 DEF ReadOver
<1> QED
  BY <1>2, <1>3, <1>4, <1>5 DEF Inv

LEMMA WakeKeeps == Inv /\ WakeUp => Inv'
<1> SUFFICES ASSUME Inv, WakeUp PROVE Inv'
  OBVIOUS
<1>1. UNCHANGED <<call, pc, hpi, since, pins, out>> /\ pc = 0 /\ awake'
  BY DEF WakeUp, software
<1>2. awake' \in BOOLEAN
  BY DEF WakeUp
<1>3. Typed'
  BY <1>1, <1>2 DEF Inv, Typed
<1>4. Asleep' /\ Writing' /\ ReadOver'
  BY <1>1, <1>2 DEF Inv, Asleep, Writing, ReadOver
<1> QED
  BY <1>3, <1>4 DEF Inv

\* The write strobe is on only while the controller is asleep, or in a write that has
\* long ended the last read.
LEMMA Meaning == Inv => NoContention
  BY DEF Inv, Typed, Asleep, Writing, ReadOver, NoContention, Drives

\* The data bus is never driven from both ends (hpi_io_intf.sv:43): whatever the calls,
\* wherever the reset button is pressed, and however large the memory.
THEOREM NeverContends == Spec => []NoContention
<1>1. Inv /\ [Next]_vars => Inv'
  <2> SUFFICES ASSUME Inv, [Next]_vars PROVE Inv'
    OBVIOUS
  <2>1. CASE Next
    BY <2>1, CallKeeps, StatementKeeps, ClkKeeps, WakeKeeps DEF Next
  <2>2. CASE UNCHANGED vars
    BY <2>2 DEF vars, software, controller, Inv, Typed, Asleep, Writing, ReadOver
  <2> QED
    BY <2>1, <2>2
<1> QED
  BY <1>1, InvInit, Meaning, PTL DEF Spec

-----------------------------------------------------------------------------
(* The calls implement what their callers take for granted.  For this, more *)
(* of the way from port to pin has to be known, and of the way back.        *)

\* Every word is one of the memory's, and the controller is up before the first call.
Worded ==
    /\ call.op # "IO_init" => call \in P!Calls /\ awake
    /\ pointer \in P!Words /\ cell \in [P!Words -> P!Words]
    /\ out \in P!Words \cup {P!NoWord}
    /\ held \in P!Words /\ data \in P!Words /\ from_sw_data_in \in P!Words
    /\ hpi.data \in P!Words /\ pins.data \in P!Words
    /\ shaken \in BOOLEAN

\* Which statements have which strobe on at the port.
AtPorts ==
    /\ hpi.w = IF \/ call.op = "IO_init" /\ pc \in 1 .. 4
                  \/ call.op = "IO_write" /\ pc = 6 THEN 0 ELSE 1
    /\ hpi.r = IF \/ call.op = "IO_init" /\ pc \in 1 .. 3
                  \/ call.op = "IO_read" /\ pc \in 5 .. 6 THEN 0 ELSE 1
    /\ \/ call.op = "IO_init" /\ pc # 0
       \/ hpi.cs = IF \/ call.op = "IO_write" /\ pc \in 5 .. 7
                      \/ call.op = "IO_read" /\ pc \in 4 .. 7 THEN 0 ELSE 1
    /\ call.op # "IO_init" /\ pc >= 3 => hpi.address = call.port
    /\ call.op = "IO_write" /\ pc >= 4 => hpi.data = call.data

\* The strobes at the pins lag by one clock; a reset only ever turns them off.
AtPins ==
    /\ pins.w \in {0, 1} /\ pins.r \in {0, 1}
    /\ pins.w = 0 =>
          \/ call.op = "IO_init" /\ (pc \in 1 .. 4 \/ (pc = 5 /\ since = 0))
          \/ call.op = "IO_write" /\ ((pc = 6 /\ since >= 1) \/ (pc = 7 /\ since = 0))
    /\ pins.r = 0 =>
          \/ call.op = "IO_init" /\ (pc \in 1 .. 3 \/ (pc = 4 /\ since = 0))
          \/ call.op = "IO_read" /\ ((pc = 5 /\ since >= 1) \/ pc = 6 \/ (pc = 7 /\ since = 0))

\* Without a reset, the pins show the ports from the first clock after a statement on,
\* and before it what the ports were; so when a strobe has left the port, it is still
\* at the pin, and the word of a write still on the bus.
Calm == ~shaken /\ call.op # "IO_init"
InStep ==
    Calm =>
        /\ pc >= 2 /\ since >= 1 => pins = hpi
        /\ pc = 7 /\ since = 0 =>
              /\ pins.cs = 0 /\ pins[Strobe] = 0 /\ pins.address = call.port
              /\ call.op = "IO_write" => held = call.data

\* How the answer to a read comes: onto the bus, into the register, to the software.
Answered ==
    Calm /\ call.op = "IO_read" =>
        /\ pc = 5 /\ since >= 2 => out = PortReads(call.port)
        /\ pc = 5 /\ since >= 3 => from_sw_data_in = PortReads(call.port)
        /\ pc = 6 \/ (pc = 7 /\ since = 0) => data = PortReads(call.port)

FullInv == Inv /\ Worded /\ AtPorts /\ AtPins /\ InStep /\ Answered

LEMMA Words ==
    /\ 0 \in P!Words /\ Status \in P!Words /\ P!NoWord \notin P!Words /\ Last \in Nat
    /\ \A a \in P!Words : P!After(a) \in P!Words
<1>1. Last \in Nat /\ Status \in 0 .. Last
  BY PortsAssumption
<1>2. ASSUME NEW a \in 0 .. Last PROVE (a + 1) % (Last + 1) \in 0 .. Last
  BY <1>1, SMT
<1> QED
  BY <1>1, <1>2 DEF P!Words, P!NoWord, P!After

LEMMA FullInit == Init => FullInv
<1> SUFFICES ASSUME Init PROVE FullInv
  OBVIOUS
<1>1. Inv
  BY InvInit
<1>2. /\ call.op = "IO_init" /\ pc = 1 /\ since = 0
      /\ hpi.w = 0 /\ hpi.r = 0 /\ hpi.data = 0 /\ pins = hpi
  BY DEF Init
<1>3. Worded
  BY <1>2, Words DEF Init, Worded
<1>4. AtPorts /\ AtPins /\ InStep /\ Answered
  BY <1>2 DEF AtPorts, AtPins, InStep, Calm, Answered
<1> QED
  BY <1>1, <1>3, <1>4 DEF FullInv

\* A call in detail.
LEMMA CallTypes ==
    ASSUME NEW c \in P!Calls
    PROVE  /\ c.op \in {"IO_write", "IO_read"}
           /\ c.op = "IO_write" => c.data \in P!Words /\ c.port \in {"HPI_ADDR", "HPI_DATA"}
           /\ c.op = "IO_read" => c.port \in {"HPI_DATA", "HPI_STATUS"}
  BY DEF P!Calls

LEMMA CallFull == FullInv /\ CallIO => FullInv'
<1> SUFFICES ASSUME FullInv, CallIO PROVE FullInv'
  OBVIOUS
<1>1. /\ call' \in P!Calls /\ call'.op \in {"IO_write", "IO_read"} /\ pc' = 1 /\ pc = 0 /\ awake
      /\ UNCHANGED <<hpi, since, data, pins, from_sw_data_in, held, pointer, cell, out, awake>>
  BY CallTypes DEF CallIO, controller
<1>2. Inv'
  BY CallKeeps DEF FullInv
<1>3. Worded'
  <2>1. shaken' \in BOOLEAN
    BY DEF CallIO
  <2> QED
    BY <1>1, <2>1 DEF FullInv, Worded
<1>4. AtPorts'
  <2>1. hpi.w = 1 /\ hpi.r = 1 /\ hpi.cs = 1
    BY <1>1 DEF FullInv, AtPorts
  <2> QED
    BY <1>1, <2>1 DEF AtPorts
<1>5. AtPins'
  <2>1. pins.w = 1 /\ pins.r = 1
    BY <1>1 DEF FullInv, AtPins
  <2> QED
    BY <1>1, <2>1 DEF AtPins
<1>6. InStep' /\ Answered'
  BY <1>1 DEF InStep, Answered
<1> QED
  BY <1>2, <1>3, <1>4, <1>5, <1>6 DEF FullInv

LEMMA WakeFull == FullInv /\ WakeUp => FullInv'
<1> SUFFICES ASSUME FullInv, WakeUp PROVE FullInv'
  OBVIOUS
<1>1. /\ pc = 0 /\ awake'
      /\ UNCHANGED <<call, pc, hpi, since, data, pins, from_sw_data_in, held, pointer, cell, out,
                     Reset_h, shaken>>
  BY DEF WakeUp, software
<1>2. Inv'
  BY WakeKeeps DEF FullInv
<1>3. Worded' /\ AtPorts' /\ AtPins'
  BY <1>1 DEF FullInv, Worded, AtPorts, AtPins
<1>4. InStep' /\ Answered'
  BY <1>1 DEF InStep, Answered
<1> QED
  BY <1>2, <1>3, <1>4 DEF FullInv

\* The bus always has a word on it.
LEMMA BusWord ==
    ASSUME Worded
    PROVE  /\ Bus \in P!Words
           /\ hpi.w # 0 /\ out \in P!Words => Bus = out
           /\ hpi.w # 0 /\ out = P!NoWord => Bus = held
           /\ hpi.w = 0 => Bus = pins.data
  BY Words DEF Worded, Bus, Drives

\* What the controller's ports read is a word, too.
LEMMA ReadsWord ==
    ASSUME Worded, NEW port
    PROVE  PortReads(port) \in P!Words
  BY Words DEF Worded, PortReads

\* A clock, without what it does to the controller.
LEMMA ClkWires ==
    ASSUME FullInv, Clk
    PROVE  /\ UNCHANGED <<call, pc, hpi, data, awake>>
           /\ since \in 0 .. Pace /\ since' \in 1 .. Pace /\ Pace \in 3 .. 6
           /\ since' = IF since = Pace THEN Pace ELSE since + 1
           /\ Reset_h => pins' = Inactive
           /\ ~Reset_h => pins' = hpi
           /\ from_sw_data_in' = (IF Reset_h THEN 0 ELSE Bus) /\ held' = Bus
           /\ out' = IF awake /\ Strobed(pins, "r") THEN PortReads(pins.address) ELSE P!NoWord
           /\ pc \in 0 .. 10 /\ call.op \in Ops
  BY PaceAssumption DEF Clk, Controller, FullInv, Inv, Typed

\* Clocks of a calm call are no clocks of a reset.
LEMMA CalmClk ==
    ASSUME FullInv, Clk, Calm', pc # 0
    PROVE  Calm /\ ~Reset_h
<1>1. shaken' = (shaken \/ (Reset_h /\ Stage # "idle")) /\ call' = call
  BY DEF Clk
<1>2. call.op # "IO_init" /\ ~shaken'
  BY <1>1 DEF Calm
<1>3. Stage # "idle"
  BY <1>2 DEF Stage
<1> QED
  BY <1>1, <1>2, <1>3 DEF Calm

\* What ends at a clock: the strobe of a write whose sixth statement has just been
\* executed, or is cut off; likewise for a read.
LEMMA EndsOf ==
    ASSUME FullInv, Clk
    PROVE  /\ Ends("w") => pins.w = 0 /\ pins.cs = 0 /\ call.op = "IO_write" /\ pc # 0
           /\ Ends("r") => pins.r = 0 /\ pins.cs = 0 /\ call.op = "IO_read" /\ pc # 0
<1>1. Ends("w") => awake /\ pins.w = 0 /\ pins.cs = 0
  BY DEF Ends, Strobed
<1>2. Ends("r") => awake /\ pins.r = 0 /\ pins.cs = 0
  BY DEF Ends, Strobed
<1>3. call.op = "IO_init" /\ pc # 0 => ~awake
  BY DEF FullInv, Inv, Asleep
<1> QED
  BY <1>1, <1>2, <1>3 DEF FullInv, AtPins

\* The controller's pointer and memory after a clock.
LEMMA ControllerMoves ==
    ASSUME FullInv, Clk
    PROVE  /\ pointer' \in P!Words /\ cell' \in [P!Words -> P!Words]
           /\ ~Ends("w") => cell' = cell
           /\ ~Ends("w") /\ ~Ends("r") => pointer' = pointer
           /\ Ends("w") /\ pins.address = "HPI_ADDR" => cell' = cell /\ pointer' = Bus
           /\ Ends("w") /\ pins.address = "HPI_DATA" =>
                cell' = [cell EXCEPT ![pointer] = Bus] /\ pointer' = P!After(pointer)
           /\ ~Ends("w") /\ Ends("r") /\ pins.address = "HPI_DATA" => pointer' = P!After(pointer)
           /\ ~Ends("w") /\ pins.address = "HPI_STATUS" => pointer' = pointer
<1> DEFINE stores == Ends("w") /\ pins.address = "HPI_DATA"
           reads == Ends("r") /\ pins.address = "HPI_DATA"
           points == Ends("w") /\ pins.address = "HPI_ADDR"
<1>1. /\ cell' = IF stores THEN [cell EXCEPT ![pointer] = Bus] ELSE cell
      /\ pointer' = IF points THEN Bus ELSE IF stores \/ reads THEN P!After(pointer) ELSE pointer
  BY DEF Clk, Controller
<1>2. Bus \in P!Words /\ pointer \in P!Words /\ cell \in [P!Words -> P!Words]
  BY BusWord DEF FullInv, Worded
<1>3. pointer' \in P!Words /\ cell' \in [P!Words -> P!Words]
  BY <1>1, <1>2, Words
<1> QED
  BY <1>1, <1>3

LEMMA ClkWorded == FullInv /\ Clk => Worded'
<1> SUFFICES ASSUME FullInv, Clk PROVE Worded'
  OBVIOUS
<1>1. Worded /\ pointer' \in P!Words /\ cell' \in [P!Words -> P!Words]
  BY ControllerMoves DEF FullInv
<1>2. held' \in P!Words /\ from_sw_data_in' \in P!Words
  BY <1>1, ClkWires, BusWord, Words
<1>3. out' \in P!Words \cup {P!NoWord}
  BY <1>1, ClkWires, ReadsWord
<1>4. pins'.data \in P!Words
  <2>1. CASE Reset_h
    BY <2>1, ClkWires, Words DEF Inactive
  <2>2. CASE ~Reset_h
    BY <1>1, <2>2, ClkWires DEF Worded
  <2> QED
    BY <2>1, <2>2
<1>5. UNCHANGED <<call, hpi, data, awake>>
  BY ClkWires
<1>6. shaken' \in BOOLEAN
  BY DEF Clk
<1> QED
  BY <1>1, <1>2, <1>3, <1>4, <1>5, <1>6 DEF Worded

LEMMA ClkPins == FullInv /\ Clk => AtPorts' /\ AtPins'
<1> SUFFICES ASSUME FullInv, Clk PROVE AtPorts' /\ AtPins'
  OBVIOUS
<1>1. /\ UNCHANGED <<call, pc, hpi>> /\ since' \in 1 .. Pace /\ Pace \in 3 .. 6
      /\ pc \in 0 .. 10
  BY ClkWires
<1>2. AtPorts /\ AtPorts'
  BY <1>1 DEF FullInv, AtPorts
<1>3. pins'.w \in {0, 1} /\ pins'.r \in {0, 1}
      /\ (pins'.w = 0 => hpi.w = 0) /\ (pins'.r = 0 => hpi.r = 0)
  <2>1. CASE Reset_h
    BY <2>1, ClkWires DEF Inactive
  <2>2. CASE ~Reset_h
    BY <1>2, <2>2, ClkWires DEF AtPorts
  <2> QED
    BY <2>1, <2>2
<1>4. AtPins'
  BY <1>1, <1>2, <1>3 DEF AtPorts, AtPins
<1> QED
  BY <1>2, <1>4

LEMMA ClkInStep == FullInv /\ Clk => InStep'
<1> SUFFICES ASSUME FullInv, Clk PROVE InStep'
  OBVIOUS
<1>1. since' >= 1 /\ UNCHANGED <<call, pc, hpi>>
  BY ClkWires
<1>2. ASSUME Calm', pc' >= 2 PROVE pins' = hpi'
  <2>1. pc # 0
    BY <1>1, <1>2
  <2> QED
    BY <1>1, <1>2, <2>1, ClkWires, CalmClk
<1> QED
  BY <1>1, <1>2 DEF InStep

\* An answer needs a clock to come onto the bus, and another one into the register.
LEMMA ClkAnswered == FullInv /\ Clk => Answered'
<1> SUFFICES ASSUME FullInv, Clk, Calm', call'.op = "IO_read", pc' \in 5 .. 7,
                    pc' = 7 => since' = 0
             PROVE  /\ pc' = 5 /\ since' >= 2 => out' = PortReads(call.port)'
                    /\ pc' = 5 /\ since' >= 3 => from_sw_data_in' = PortReads(call.port)'
                    /\ pc' = 6 => data' = PortReads(call.port)'
  <2>1. FullInv /\ Clk => pc' \in 0 .. 10 /\ since' >= 1
    BY ClkWires
  <2> QED
    BY <2>1 DEF Answered
<1>1. /\ UNCHANGED <<call, pc, hpi, data>> /\ call.op = "IO_read" /\ pc \in 5 .. 6
      /\ Calm /\ ~Reset_h
  BY ClkWires, CalmClk
<1>2. hpi.w = 1 /\ hpi.r = 0 /\ hpi.cs = 0 /\ hpi.address = call.port /\ pins' = hpi
  BY <1>1, ClkWires DEF FullInv, AtPorts
<1>3. ~Ends("w") /\ ~Ends("r")
  BY <1>1, <1>2, EndsOf DEF Ends, Strobed
<1>4. pointer' = pointer /\ cell' = cell
  BY <1>3, ControllerMoves
<1>5. PortReads(call.port)' = PortReads(call.port)
  BY <1>1, <1>4 DEF PortReads
<1>6. ASSUME pc = 5, since >= 1
      PROVE  out' = PortReads(call.port)
  <2>1. pins = hpi /\ awake
    BY <1>1, <1>6 DEF FullInv, InStep, Worded, Calm
  <2>2. Strobed(pins, "r")
    BY <1>2, <2>1 DEF Strobed
  <2> QED
    BY <1>2, <2>1, <2>2, ClkWires
<1>7. ASSUME pc = 5, since >= 2
      PROVE  from_sw_data_in' = PortReads(call.port)
  <2>1. out = PortReads(call.port) /\ Worded
    BY <1>1, <1>7 DEF FullInv, Answered
  <2>2. Bus = out
    BY <1>2, <2>1, ReadsWord, BusWord
  <2> QED
    BY <1>1, <2>1, <2>2, ClkWires
<1>8. pc = 6 => data = PortReads(call.port)
  BY <1>1 DEF FullInv, Answered
<1>9. /\ since' >= 2 => since >= 1
      /\ since' >= 3 => since >= 2
  BY ClkWires
<1> QED
  BY <1>1, <1>5, <1>6, <1>7, <1>8, <1>9

LEMMA ClkFull == FullInv /\ Clk => FullInv'
  BY ClkKeeps, ClkWorded, ClkPins, ClkInStep, ClkAnswered DEF FullInv

\* What the statements of the calls do to the ports, one by one.
LEMMA WritesOf ==
    ASSUME Typed, WritePort
    PROVE  /\ hpi'.w = IF \/ call.op = "IO_init" /\ pc = 4
                          \/ call.op = "IO_write" /\ pc = 6
                          \/ call.op = "IO_read" /\ pc = 1 THEN 1
                       ELSE IF call.op = "IO_write" /\ pc = 5 THEN 0 ELSE hpi.w
           /\ hpi'.r = IF \/ call.op = "IO_init" /\ pc = 3
                          \/ call.op = "IO_read" /\ pc = 6
                          \/ call.op = "IO_write" /\ pc = 1 THEN 1
                       ELSE IF call.op = "IO_read" /\ pc = 4 THEN 0 ELSE hpi.r
           /\ call.op = "IO_init" /\ pc = 10 => hpi'.cs = 1
           /\ call.op = "IO_write" => hpi'.cs = IF pc = 4 THEN 0 ELSE IF pc = 7 THEN 1 ELSE hpi.cs
           /\ call.op = "IO_read" => hpi'.cs = IF pc = 3 THEN 0 ELSE IF pc = 7 THEN 1 ELSE hpi.cs
           /\ call.op # "IO_init" =>
                hpi'.address = IF pc = 2 THEN call.port ELSE hpi.address
           /\ hpi'.data = IF call.op = "IO_write" /\ pc = 3 THEN call.data
                          ELSE IF call.op = "IO_init" /\ pc = 6 THEN 0 ELSE hpi.data
<1> DEFINE port == Statements[pc][1]
           value == Statements[pc][2]
<1>1. hpi' = [hpi EXCEPT ![port] = value] /\ pc # 0
  BY DEF WritePort, Statement
<1>2. DOMAIN hpi = {"reset", "cs", "r", "w", "address", "data"}
  BY DEF Typed
<1>3. /\ hpi'.w = IF port = "w" THEN value ELSE hpi.w
      /\ hpi'.r = IF port = "r" THEN value ELSE hpi.r
      /\ hpi'.cs = IF port = "cs" THEN value ELSE hpi.cs
      /\ hpi'.address = IF port = "address" THEN value ELSE hpi.address
      /\ hpi'.data = IF port = "data" THEN value ELSE hpi.data
  BY <1>1, <1>2
<1>4. CASE call.op = "IO_init"
  <2>1. pc \in 1 .. 10 /\ Statements = IO_init
    BY <1>1, <1>4 DEF Typed, Statements
  <2>2. /\ IF pc = 4 THEN port = "w" /\ value = 1 ELSE port # "w"
        /\ IF pc = 3 THEN port = "r" /\ value = 1 ELSE port # "r"
        /\ pc = 10 => port = "cs" /\ value = 1
        /\ IF pc = 6 THEN port = "data" /\ value = 0 ELSE port # "data"
    BY <2>1 DEF IO_init
  <2> HIDE DEF port, value
  <2> QED
    BY <1>3, <1>4, <2>2
<1>5. CASE call.op = "IO_write"
  <2>1. pc \in 1 .. 7 /\ Statements = IO_write
    BY <1>1, <1>5 DEF Typed, Statements
  <2>2. /\ IF pc = 5 THEN port = "w" /\ value = 0
           ELSE IF pc = 6 THEN port = "w" /\ value = 1 ELSE port # "w"
        /\ IF pc = 1 THEN port = "r" /\ value = 1 ELSE port # "r"
        /\ IF pc = 4 THEN port = "cs" /\ value = 0
           ELSE IF pc = 7 THEN port = "cs" /\ value = 1 ELSE port # "cs"
        /\ IF pc = 2 THEN port = "address" /\ value = call.port ELSE port # "address"
        /\ IF pc = 3 THEN port = "data" /\ value = call.data ELSE port # "data"
    BY <2>1 DEF IO_write
  <2> HIDE DEF port, value
  <2> QED
    BY <1>3, <1>5, <2>2
<1>6. CASE call.op = "IO_read"
  <2>1. pc \in 1 .. 7 /\ Statements = IO_read
    BY <1>1, <1>6 DEF Typed, Statements
  <2>2. /\ IF pc = 1 THEN port = "w" /\ value = 1 ELSE port # "w"
        /\ IF pc = 4 THEN port = "r" /\ value = 0
           ELSE IF pc = 6 THEN port = "r" /\ value = 1 ELSE port # "r"
        /\ IF pc = 3 THEN port = "cs" /\ value = 0
           ELSE IF pc = 7 THEN port = "cs" /\ value = 1 ELSE port # "cs"
        /\ IF pc = 2 THEN port = "address" /\ value = call.port ELSE port # "address"
        /\ port # "data"
    BY <2>1 DEF IO_read
  <2> HIDE DEF port, value
  <2> QED
    BY <1>3, <1>6, <2>2
<1> QED
  BY <1>4, <1>5, <1>6 DEF Typed, Ops

\* The same for either kind of statement, and the one that reads the register.
LEMMA StatementsOf ==
    ASSUME Typed, WritePort \/ ReadPort
    PROVE  /\ hpi'.w = IF \/ call.op = "IO_init" /\ pc = 4
                          \/ call.op = "IO_write" /\ pc = 6
                          \/ call.op = "IO_read" /\ pc = 1 THEN 1
                       ELSE IF call.op = "IO_write" /\ pc = 5 THEN 0 ELSE hpi.w
           /\ hpi'.r = IF \/ call.op = "IO_init" /\ pc = 3
                          \/ call.op = "IO_read" /\ pc = 6
                          \/ call.op = "IO_write" /\ pc = 1 THEN 1
                       ELSE IF call.op = "IO_read" /\ pc = 4 THEN 0 ELSE hpi.r
           /\ call.op = "IO_init" /\ pc = 10 => hpi'.cs = 1
           /\ call.op = "IO_write" => hpi'.cs = IF pc = 4 THEN 0 ELSE IF pc = 7 THEN 1 ELSE hpi.cs
           /\ call.op = "IO_read" => hpi'.cs = IF pc = 3 THEN 0 ELSE IF pc = 7 THEN 1 ELSE hpi.cs
           /\ call.op # "IO_init" =>
                hpi'.address = IF pc = 2 THEN call.port ELSE hpi.address
           /\ hpi'.data = IF call.op = "IO_write" /\ pc = 3 THEN call.data
                          ELSE IF call.op = "IO_init" /\ pc = 6 THEN 0 ELSE hpi.data
           /\ data' = IF call.op = "IO_read" /\ pc = 5 THEN from_sw_data_in ELSE data
<1>0. call.op \in Ops /\ pc \in 1 .. 10 /\ (call.op # "IO_init" => pc <= 7)
  BY DEF Typed, WritePort, ReadPort, Statement
<1>1. Statements[pc][1] = "data_in" <=> (call.op = "IO_read" /\ pc = 5)
  BY <1>0 DEF Ops, Statements, IO_init, IO_write, IO_read
<1>2. CASE WritePort
  <2>1. data' = data /\ ~(call.op = "IO_read" /\ pc = 5)
    BY <1>1, <1>2 DEF WritePort
  <2> QED
    BY <1>2, <2>1, WritesOf
<1>3. CASE ReadPort
  <2>1. hpi' = hpi /\ data' = from_sw_data_in /\ call.op = "IO_read" /\ pc = 5
    BY <1>1, <1>3 DEF ReadPort
  <2> QED
    BY <2>1
<1> QED
  BY <1>2, <1>3

\* What a statement leaves alone, and when it comes.
LEMMA StatementFrame ==
    ASSUME FullInv, WritePort \/ ReadPort
    PROVE  /\ Typed /\ Worded /\ AtPorts /\ AtPins
           /\ call.op \in Ops /\ pc \in 1 .. 10 /\ (call.op # "IO_init" => pc <= 7)
           /\ since = Pace /\ Pace \in 3 .. 6 /\ since' = 0 /\ held' = Bus
           /\ pc' = IF call.op = "IO_init" THEN (IF pc = 10 THEN 0 ELSE pc + 1)
                    ELSE IF pc = 7 THEN 0 ELSE pc + 1
           /\ UNCHANGED <<call, pins, from_sw_data_in, pointer, cell, out, awake, Reset_h, shaken>>
<1>1. Statement /\ Typed
  BY DEF WritePort, ReadPort, FullInv, Inv
<1> QED
  BY <1>1, NextPc, PaceAssumption DEF FullInv, Statement, controller, Typed

LEMMA StatementFull == FullInv /\ (WritePort \/ ReadPort) => FullInv'
<1> SUFFICES ASSUME FullInv, WritePort \/ ReadPort PROVE FullInv'
  OBVIOUS
<1>1. Inv'
  BY StatementKeeps DEF FullInv
<1>2. Worded'
  <2>1. held' \in P!Words
    BY StatementFrame, BusWord
  <2>2. hpi'.data \in P!Words
    <3>1. call.op = "IO_write" => call.data \in P!Words
      BY StatementFrame, CallTypes DEF Worded
    <3>2. hpi.data \in P!Words /\ 0 \in P!Words
      BY StatementFrame, Words DEF Worded
    <3> QED
      BY <3>1, <3>2, StatementFrame, StatementsOf
  <2>3. data' \in P!Words
    <3>1. data \in P!Words /\ from_sw_data_in \in P!Words
      BY StatementFrame DEF Worded
    <3> QED
      BY <3>1, StatementFrame, StatementsOf
  <2> QED
    BY <2>1, <2>2, <2>3, StatementFrame DEF Worded
<1>3. AtPorts'
  <2>1. /\ call.op = "IO_init" => AtPorts'
    BY StatementFrame, StatementsOf DEF AtPorts
  <2>2. call.op = "IO_write" => AtPorts'
    BY StatementFrame, StatementsOf DEF AtPorts
  <2>3. call.op = "IO_read" => AtPorts'
    BY StatementFrame, StatementsOf DEF AtPorts
  <2> QED
    BY <2>1, <2>2, <2>3, StatementFrame DEF Ops
<1>4. AtPins'
  BY StatementFrame DEF AtPins
<1>5. InStep'
  <2> SUFFICES ASSUME Calm', pc' = 7
               PROVE  /\ pins.cs = 0 /\ pins[Strobe] = 0 /\ pins.address = call.port
                      /\ call.op = "IO_write" => held' = call.data
    BY StatementFrame DEF InStep, Strobe
  <2>1. Calm /\ pc = 6 /\ call.op \in {"IO_write", "IO_read"}
    BY StatementFrame DEF Calm, Ops
  <2>2. pins = hpi
    BY <2>1, StatementFrame DEF FullInv, InStep
  <2>3. /\ hpi.cs = 0 /\ hpi.address = call.port
        /\ call.op = "IO_write" => hpi.w = 0 /\ hpi.data = call.data
        /\ call.op = "IO_read" => hpi.r = 0
    BY <2>1, StatementFrame DEF AtPorts
  <2>4. call.op = "IO_write" => held' = call.data
    BY <2>2, <2>3, StatementFrame, BusWord
  <2> QED
    BY <2>1, <2>2, <2>3, <2>4 DEF Strobe
<1>6. Answered'
  <2> SUFFICES ASSUME Calm', call.op = "IO_read", pc' \in 6 .. 7
               PROVE  data' = PortReads(call.port)'
    BY StatementFrame DEF Answered
  <2>1. Calm /\ pc \in 5 .. 6
    BY StatementFrame DEF Calm
  <2>2. PortReads(call.port)' = PortReads(call.port)
    BY StatementFrame DEF PortReads
  <2>3. pc = 5 => from_sw_data_in = PortReads(call.port)
    BY <2>1, StatementFrame DEF FullInv, Answered
  <2>4. pc = 6 => data = PortReads(call.port)
    BY <2>1 DEF FullInv, Answered
  <2> QED
    BY <2>1, <2>2, <2>3, <2>4, StatementFrame, StatementsOf
<1> QED
  BY <1>1, <1>2, <1>3, <1>4, <1>5, <1>6 DEF FullInv

LEMMA AlwaysFull == Spec => []FullInv
<1>1. FullInv /\ UNCHANGED vars => FullInv'
  <2> SUFFICES ASSUME FullInv, UNCHANGED vars PROVE FullInv'
    OBVIOUS
  <2>1. Inv' /\ Worded'
    BY DEF FullInv, vars, software, controller, Inv, Typed, Asleep, Writing, ReadOver, Worded
  <2>2. AtPorts' /\ AtPins'
    BY DEF FullInv, vars, software, AtPorts, AtPins
  <2>3. InStep'
    BY DEF FullInv, vars, software, InStep, Calm, Strobe
  <2>4. Answered'
    BY DEF FullInv, vars, software, controller, Answered, Calm, PortReads
  <2> QED
    BY <2>1, <2>2, <2>3, <2>4 DEF FullInv
<1> QED
  BY <1>1, FullInit, CallFull, StatementFull, ClkFull, WakeFull, PTL DEF Spec, Next

-----------------------------------------------------------------------------
(* Every step is one of the callers' view, or none that they see. *)

Seen == IF call.op = "IO_init" THEN [op |-> "none"] ELSE call
Result == IF Stage = "done" /\ call.op = "IO_read" THEN data ELSE -1

LEMMA Stages ==
    ASSUME Typed
    PROVE  /\ pc = 0 \/ call.op = "IO_init" => Stage = "idle"
           /\ pc # 0 /\ call.op # "IO_init" => Stage = IF pc = 7 /\ pins[Strobe] = 1 THEN "done"
                                                       ELSE "called"
           /\ Stage \in {"idle", "called", "done"}
  BY DEF Typed, Stage

LEMMA InitPorts == Init => P!Init
<1> SUFFICES ASSUME Init PROVE P!Init
  OBVIOUS
<1>1. call.op = "IO_init"
  BY DEF Init
<1>2. Stage = "idle"
  BY <1>1 DEF Stage
<1>3. pointer \in P!Words /\ cell \in [P!Words -> P!Words] /\ shaken = FALSE
  BY Words DEF Init
<1> QED
  BY <1>1, <1>2, <1>3 DEF P!Init, P!NoCall, P!NoWord

LEMMA CallPorts == FullInv /\ CallIO => P!Call
<1> SUFFICES ASSUME FullInv, CallIO PROVE P!Call
  OBVIOUS
<1>1. /\ call' \in P!Calls /\ call'.op \in {"IO_write", "IO_read"} /\ pc' = 1 /\ pc = 0
      /\ shaken' = FALSE /\ UNCHANGED <<pins, data, pointer, cell>>
  BY CallTypes DEF CallIO, controller
<1>2. Stage = "idle" /\ Stage' = "called"
  BY <1>1 DEF Stage
<1>3. Seen' = call' /\ Result = -1 /\ Result' = -1
  BY <1>1, <1>2 DEF Seen, Result
<1> QED
  BY <1>1, <1>2, <1>3 DEF P!Call, Seen, Result

\* In a call disturbed by a reset anything goes.
LEMMA Disturbed ==
    ASSUME FullInv, FullInv', call.op # "IO_init", pc # 0, pc' # 0, call' = call, shaken'
    PROVE  P!Disturb
<1>1. Typed /\ Typed' /\ Worded'
  BY DEF FullInv, Inv
<1>2. Stage # "idle" /\ Stage' \in {"called", "done"}
  BY <1>1, Stages DEF Stage
<1>3. Result' \in P!Words \cup {P!NoWord}
  BY <1>1 DEF Result, Worded, P!NoWord
<1> QED
  BY <1>1, <1>2, <1>3 DEF P!Disturb, Worded, Result

\* The statements of a call do not show, but for the last one, which is its return.
LEMMA StatementPorts ==
    ASSUME FullInv, FullInv', WritePort \/ ReadPort
    PROVE  [P!Next]_(P!vars)
<1>1. /\ Typed /\ call' = call /\ pins' = pins /\ UNCHANGED <<pointer, cell, shaken>>
      /\ pc \in 1 .. 10 /\ (call.op # "IO_init" => pc <= 7) /\ since = Pace /\ Pace \in 3 .. 6
      /\ call.op # "IO_init" => pc' = IF pc = 7 THEN 0 ELSE pc + 1
  BY StatementFrame
<1>2. CASE call.op = "IO_init"
  <2>1. Stage = "idle" /\ Stage' = "idle"
    BY <1>1, <1>2 DEF Stage
  <2> QED
    BY <1>1, <1>2, <2>1 DEF P!vars
<1>3. CASE call.op # "IO_init" /\ pc <= 5
  <2>1. Stage = "called" /\ Stage' = "called"
    BY <1>1, <1>3 DEF Stage
  <2> QED
    BY <1>1, <2>1 DEF P!vars
<1>4. CASE call.op # "IO_init" /\ pc = 6 /\ shaken
  BY <1>1, <1>4, Disturbed DEF P!Next
<1>5. CASE call.op # "IO_init" /\ pc = 6 /\ ~shaken
  <2>1. pc' = 7 /\ since' = 0
    BY <1>1, <1>5, StatementFrame
  <2>2. pins'[Strobe'] = 0
    BY <1>1, <1>5, <2>1 DEF FullInv, InStep, Calm
  <2>3. Stage = "called" /\ Stage' = "called"
    BY <1>1, <1>5, <2>1, <2>2 DEF Stage
  <2> QED
    BY <1>1, <2>3 DEF P!vars
<1>6. CASE call.op # "IO_init" /\ pc = 7
  <2>1. Stage' = "idle"
    BY <1>1, <1>6 DEF Stage
  <2>2. ~shaken => Stage = "done"
    <3> SUFFICES ASSUME ~shaken PROVE pins[Strobe] = 1
      BY <1>1, <1>6 DEF Stage
    <3>1. pins = hpi
      BY <1>1, <1>6 DEF FullInv, InStep, Calm
    <3>2. hpi.w = 1 /\ hpi.r = 1
      BY <1>6 DEF FullInv, AtPorts
    <3> QED
      BY <3>1, <3>2 DEF Strobe
  <2>3. Stage = "done" \/ Stage = "called"
    BY <1>1, <1>6 DEF Stage
  <2>4. P!Return
    BY <1>1, <1>6, <2>1, <2>2, <2>3 DEF P!Return, P!NoWord
  <2> QED
    BY <2>4 DEF P!Next
<1> QED
  BY <1>1, <1>2, <1>3, <1>4, <1>5, <1>6

\* The clock at which the strobe of a calm call ends at the pin is the moment at which
\* the call acts.
LEMMA WriteActs ==
    ASSUME FullInv, Clk, Calm', call.op = "IO_write", pc = 7, since = 0
    PROVE  P!SetPointer \/ P!Write
<1>1. /\ Calm /\ ~Reset_h /\ UNCHANGED <<call, pc, hpi, data>> /\ pins' = hpi /\ awake
      /\ shaken' = shaken /\ shaken = FALSE
  <2>1. Calm /\ ~Reset_h
    BY CalmClk
  <2> QED
    BY <2>1, ClkWires DEF Clk, Calm, FullInv, Worded
<1>2. /\ pins.cs = 0 /\ pins.w = 0 /\ pins.address = call.port /\ held = call.data
  BY <1>1 DEF FullInv, InStep, Strobe
<1>3. hpi.w = 1 /\ call \in P!Calls /\ out = P!NoWord
  BY DEF FullInv, AtPorts, Worded, Inv, ReadOver
<1>4. Ends("w")
  BY <1>1, <1>2, <1>3 DEF Ends, Strobed
<1>5. Bus = call.data
  BY <1>2, <1>3 DEF Bus, Drives
<1>6. Stage = "called" /\ Stage' = "done"
  BY <1>1, <1>2, <1>3 DEF Stage, Strobe
<1>7. Result = -1 /\ Result' = -1
  BY <1>1 DEF Result
<1>8. call.port = "HPI_ADDR" => P!SetPointer
  BY <1>1, <1>2, <1>4, <1>5, <1>6, <1>7, ControllerMoves DEF P!SetPointer, P!Act, Result
<1>9. call.port = "HPI_DATA" => P!Write
  BY <1>1, <1>2, <1>4, <1>5, <1>6, <1>7, ControllerMoves DEF P!Write, P!Act, Result
<1> QED
  BY <1>3, <1>8, <1>9, CallTypes

LEMMA ReadActs ==
    ASSUME FullInv, Clk, Calm', call.op = "IO_read", pc = 7, since = 0
    PROVE  P!Read \/ P!ReadStatus
<1>1. /\ Calm /\ ~Reset_h /\ UNCHANGED <<call, pc, hpi, data>> /\ pins' = hpi /\ awake
      /\ shaken' = shaken /\ shaken = FALSE
  <2>1. Calm /\ ~Reset_h
    BY CalmClk
  <2> QED
    BY <2>1, ClkWires DEF Clk, Calm, FullInv, Worded
<1>2. /\ pins.cs = 0 /\ pins.r = 0 /\ pins.address = call.port
      /\ data = PortReads(call.port)
  BY <1>1 DEF FullInv, InStep, Strobe, Answered
<1>3. hpi.r = 1 /\ call \in P!Calls
  BY DEF FullInv, AtPorts, Worded
<1>4. Ends("r") /\ ~Ends("w")
  BY <1>1, <1>2, <1>3, EndsOf DEF Ends, Strobed
<1>5. Stage = "called" /\ Stage' = "done"
  BY <1>1, <1>2, <1>3 DEF Stage, Strobe
<1>6. Result = -1 /\ Result' = data
  BY <1>1, <1>5 DEF Result
<1>7. cell' = cell
  BY <1>4, ControllerMoves
<1>8. call.port = "HPI_DATA" => P!Read
  BY <1>1, <1>2, <1>4, <1>5, <1>6, <1>7, ControllerMoves DEF P!Read, P!Act, Result, PortReads
<1>9. call.port = "HPI_STATUS" => P!ReadStatus
  BY <1>1, <1>2, <1>4, <1>5, <1>6, <1>7, ControllerMoves DEF P!ReadStatus, P!Act, Result, PortReads
<1> QED
  BY <1>3, <1>8, <1>9, CallTypes

LEMMA ClkPorts ==
    ASSUME FullInv, FullInv', Clk
    PROVE  [P!Next]_(P!vars)
<1>1. /\ UNCHANGED <<call, pc, hpi, data>> /\ Typed
      /\ pc \in 0 .. 10 /\ (call.op # "IO_init" => pc <= 7) /\ call.op \in Ops
      /\ shaken \in BOOLEAN /\ shaken' = (shaken \/ (Reset_h /\ Stage # "idle"))
      /\ since \in 0 .. Pace
  BY ClkWires DEF FullInv, Inv, Typed, Worded, Clk
<1>2. CASE call.op = "IO_init" \/ pc = 0
  <2>1. Stage = "idle" /\ Stage' = "idle"
    BY <1>1, <1>2 DEF Stage
  <2>2. ~Ends("w") /\ ~Ends("r")
    BY <1>2, EndsOf
  <2>3. pointer' = pointer /\ cell' = cell
    BY <2>2, ControllerMoves
  <2>4. shaken' = shaken
    BY <1>1, <2>1
  <2> QED
    BY <1>1, <2>1, <2>3, <2>4 DEF P!vars
<1>3. CASE call.op # "IO_init" /\ pc # 0 /\ shaken'
  BY <1>1, <1>3, Disturbed DEF P!Next
<1>4. CASE call.op # "IO_init" /\ pc # 0 /\ ~shaken'
  <2>1. Calm' /\ Calm /\ ~Reset_h /\ pins' = hpi
    <3>1. Calm'
      BY <1>1, <1>4 DEF Calm
    <3> QED
      BY <1>4, <3>1, CalmClk, ClkWires
  <2>2. call.op \in {"IO_write", "IO_read"}
    BY <1>1, <1>4 DEF Ops
  <2>3. CASE pc = 7 /\ since = 0
    BY <2>1, <2>2, <2>3, WriteActs, ReadActs DEF P!Next
  <2>4. CASE ~(pc = 7 /\ since = 0)
    <3>1. /\ pins.w = 0 => hpi.w = 0 /\ hpi.cs = 0
          /\ pins.r = 0 => hpi.r = 0 /\ hpi.cs = 0
      BY <1>4, <2>4 DEF FullInv, AtPins, AtPorts
    <3>2. ~Ends("w") /\ ~Ends("r")
      BY <2>1, <3>1 DEF Ends, Strobed
    <3>3. pointer' = pointer /\ cell' = cell
      BY <3>2, ControllerMoves
    <3>4. pc = 7 => pins = hpi
      BY <1>1, <2>1, <2>4 DEF FullInv, InStep
    <3>5. Stage' = Stage
      BY <1>1, <1>4, <2>1, <3>4 DEF Stage, Strobe
    <3>6. shaken' = shaken
      BY <1>1, <1>4
    <3> QED
      BY <1>1, <3>3, <3>5, <3>6 DEF P!vars
  <2> QED
    BY <2>3, <2>4
<1> QED
  BY <1>2, <1>3, <1>4

LEMMA WakePorts == WakeUp \/ UNCHANGED vars => UNCHANGED P!vars
  BY DEF WakeUp, vars, software, controller, P!vars, Stage, Strobe

\* The calls of IO_write and IO_read act on the controller as usb.c and main.c take
\* for granted: once, between call and return, at the address and with the word of
\* the call, and a read returns the word that was there; only a reset in the middle
\* of one may disturb it.
THEOREM PortsImplemented == Spec => ActsAsPorts
<1>1. FullInv /\ FullInv' /\ [Next]_vars => [P!Next]_(P!vars)
  <2> SUFFICES ASSUME FullInv, FullInv', [Next]_vars PROVE [P!Next]_(P!vars)
    OBVIOUS
  <2>1. CASE CallIO
    BY <2>1, CallPorts DEF P!Next
  <2>2. CASE WakeUp \/ UNCHANGED vars
    BY <2>2, WakePorts
  <2> QED
    BY <2>1, <2>2, StatementPorts, ClkPorts DEF Next
<1> QED
  BY <1>1, InitPorts, AlwaysFull, PTL DEF Spec, ActsAsPorts, P!Spec
=============================================================================
