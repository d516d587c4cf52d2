------------------------------- MODULE HpiBus -------------------------------
(***************************************************************************)
(* IO_init, IO_write and IO_read of io_handler.c, port write by port       *)
(* write, and hpi_io_intf.sv, which copies the ports to the pins of the    *)
(* CY7C67200 on every clock but drives the data bus from the write strobe  *)
(* at once.  The controller's side of the bus is external: it answers one  *)
(* clock after the read strobe, takes a word when the write strobe ends,   *)
(* and moves its pointer on when an access of the data port ends.          *)
(*                                                                         *)
(* So the bus is released one clock before the strobe at the pin ends.     *)
(* That the word is still there is a property of the board: a bus nobody   *)
(* drives keeps its last value.                                            *)
(***************************************************************************)
EXTENDS Integers, Sequences

CONSTANTS
    Last, Status,   \* of HpiPorts
    Pace            \* clocks between two accesses of the software, at least

ASSUME PortsAssumption == Last \in Nat /\ Status \in 0 .. Last
\* An instruction of the processor ("Tiny", lab7_soc.qsys:468) takes six or more;
\* with two, IO_read would take the word before the controller has answered.
ASSUME PaceAssumption == Pace \in 3 .. 6

VARIABLES
    call, pc,       \* the call, and the statement to execute; 0: returned
    hpi,            \* the software's output ports
    since,          \* clocks since its last access, up to Pace
    data,           \* what IO_read has read
    pins,           \* the registers of hpi_io_intf
    from_sw_data_in,
    held,           \* what was last on the bus
    out,            \* what the controller drives onto it
    awake,          \* it has come up after its reset
    pointer, cell,  \* its pointer and its memory
    Reset_h,
    shaken          \* it was on during the call
software == <<call, pc, hpi, since, data>>
controller == <<pointer, cell, out, awake>>
vars == <<software, pins, from_sw_data_in, held, controller, Reset_h, shaken>>

\* A call is done once its strobe has ended at the pin.
Strobe == IF call.op = "IO_read" THEN "r" ELSE "w"
Stage ==
    IF pc = 0 \/ call.op = "IO_init" THEN "idle"
    ELSE IF pc > 6 /\ pins[Strobe] = 1 THEN "done"
    ELSE "called"

P == INSTANCE HpiPorts WITH
         call <- IF call.op = "IO_init" THEN [op |-> "none"] ELSE call,
         stage <- Stage,
         result <- IF Stage = "done" /\ call.op = "IO_read" THEN data ELSE -1

-----------------------------------------------------------------------------
(* The statements: a port and the value written to it. *)

IO_init ==
    << <<"reset", 1>>, <<"cs", 1>>, <<"r", 1>>, <<"w", 1>>, <<"address", "HPI_DATA">>,
       <<"data", 0>>, <<"cs", 0>>, <<"reset", 0>>, <<"reset", 1>>, <<"cs", 1>> >>
\* Faulty variant: the word is put out when the strobe is over.
IO_writeLate ==
    << <<"r", 1>>, <<"address", call.port>>, <<"cs", 0>>, <<"w", 0>>,
       <<"w", 1>>, <<"data", call.data>>, <<"cs", 1>> >>
IO_write ==
    << <<"r", 1>>, <<"address", call.port>>, <<"data", call.data>>,
       <<"cs", 0>>, <<"w", 0>>, <<"w", 1>>, <<"cs", 1>> >>
IO_read ==
    << <<"w", 1>>, <<"address", call.port>>, <<"cs", 0>>, <<"r", 0>>,
       <<"data_in", 0>>, <<"r", 1>>, <<"cs", 1>> >>

Statements ==
    CASE call.op = "IO_init"  -> IO_init
      [] call.op = "IO_write" -> IO_write
      [] call.op = "IO_read"  -> IO_read

NextStatement == IF pc = Len(Statements) THEN 0 ELSE pc + 1

\* The wires.  Faulty variant: the bus is driven whenever the chip is selected.
DrivesSelected == hpi.cs = 0
Drives == hpi.w = 0
Bus ==
    IF Drives THEN pins.data
    ELSE IF out # P!NoWord THEN out
    ELSE held

-----------------------------------------------------------------------------
\* The ports are all zero at power-up, which holds the controller in its reset.
Init ==
    /\ call = [op |-> "IO_init"] /\ pc = 1 /\ since = 0
    /\ hpi = [reset |-> 0, cs |-> 0, r |-> 0, w |-> 0, address |-> "HPI_DATA", data |-> 0]
    /\ pins = hpi
    /\ data = 0 /\ from_sw_data_in = 0 /\ held = 0
    /\ pointer = 0 /\ cell \in [P!Words -> P!Words]
    /\ out = P!NoWord /\ awake = FALSE
    /\ Reset_h = FALSE /\ shaken = FALSE

\* usb.c and main.c call one after the other, in any order.
CallIO ==
    /\ pc = 0 /\ awake
    /\ call' \in P!Calls /\ pc' = 1
    /\ shaken' = FALSE
    /\ UNCHANGED <<hpi, since, data, pins, from_sw_data_in, held, controller, Reset_h>>

Statement ==
    /\ pc # 0 /\ since = Pace
    /\ pc' = NextStatement /\ since' = 0
    /\ held' = Bus
    /\ UNCHANGED <<call, pins, from_sw_data_in, controller, Reset_h, shaken>>

WritePort ==
    LET port == Statements[pc][1]  value == Statements[pc][2] IN
    /\ Statement
    /\ port # "data_in"
    /\ hpi' = [hpi EXCEPT ![port] = value]
    /\ UNCHANGED data

ReadPort ==
    /\ Statement
    /\ Statements[pc][1] = "data_in"
    /\ data' = from_sw_data_in
    /\ UNCHANGED hpi

\* The controller during a clock, and at the clock edge that ends a strobe.
Strobed(p, strobe) == p.cs = 0 /\ p[strobe] = 0
Ends(strobe) == awake /\ Strobed(pins, strobe) /\ ~Strobed(pins', strobe)
PortReads(port) == IF port = "HPI_STATUS" THEN Status ELSE cell[pointer]

Controller ==
    LET stores == Ends("w") /\ pins.address = "HPI_DATA"
        reads == Ends("r") /\ pins.address = "HPI_DATA"
        points == Ends("w") /\ pins.address = "HPI_ADDR" IN
    /\ cell' = IF stores THEN [cell EXCEPT ![pointer] = Bus] ELSE cell
    /\ pointer' = IF points THEN Bus ELSE IF stores \/ reads THEN P!After(pointer) ELSE pointer
    /\ out' = IF awake /\ Strobed(pins, "r") THEN PortReads(pins.address) ELSE P!NoWord
    /\ UNCHANGED awake

Inactive == [reset |-> 1, cs |-> 1, r |-> 1, w |-> 1, address |-> "HPI_DATA", data |-> 0]

Clk ==
    /\ pins' = IF Reset_h THEN Inactive ELSE hpi
    /\ from_sw_data_in' = IF Reset_h THEN 0 ELSE Bus
    /\ held' = Bus
    /\ Controller
    /\ since' = IF since = Pace THEN Pace ELSE since + 1
    /\ shaken' = (shaken \/ (Reset_h /\ Stage # "idle"))
    /\ Reset_h' \in BOOLEAN
    /\ UNCHANGED <<call, pc, hpi, data>>

\* It takes milliseconds to come up, IO_init microseconds.
WakeUp ==
    /\ ~awake /\ pc = 0 /\ pins.reset = 1
    /\ awake' = TRUE
    /\ UNCHANGED <<software, pins, from_sw_data_in, held, pointer, cell, out, Reset_h, shaken>>

Next == CallIO \/ WritePort \/ ReadPort \/ Clk \/ WakeUp

Spec == Init /\ [][Next]_vars
-----------------------------------------------------------------------------
\* The calls act on the controller as usb.c and main.c take for granted: once, in
\* their order, at the address and with the word of the call, although every pin
\* lags the port behind it and the bus is released before the strobe ends
\* (hpi_io_intf.sv:17-43).  Only a call during a reset may fail.
ActsAsPorts == P!Spec

\* The bus is never driven from both ends (hpi_io_intf.sv:43), in a reset or not:
\* the write strobe at the port is not on while the controller answers a read.
NoContention == Drives => out = P!NoWord
=============================================================================
