--------------------------- MODULE TransferLists ---------------------------
(***************************************************************************)
(* The transfer lists of usb.c and of main's polling loop.  A list is      *)
(* written into the controller's memory from 0x500 on: a descriptor of six *)
(* words for the setup packet, the eight bytes of that packet, and one     *)
(* descriptor for each further transfer.  Buffers, links, toggles and the  *)
(* keyboard's address are numbers written out by hand in the code; the     *)
(* controller (external) follows them through its memory, in which the     *)
(* answers it receives come to lie among what the driver has written.      *)
(***************************************************************************)
EXTENDS Integers, Sequences, FiniteSetsExt

CONSTANTS
    Lengths,        \* the keyboard's descriptors: how many bytes each has
    PacketSize      \* 8: the most a keyboard sends at once

\* The buffers are cut for packets of this size and a keyboard whose descriptors end
\* within them; main reads the bytes 2 to 5 of its reports.
ASSUME ListsAssumption ==
    /\ PacketSize = 8
    /\ Lengths \subseteq [Device : Nat, Config : 0 .. 34, Hid : Nat, Report : 0 .. 59,
                          Keys : Nat \ (0 .. 5)]

VARIABLES
    step,           \* the list at hand: the enumeration's, then even and odd polls
    at,             \* the descriptor the controller comes to; 0: none
    done,           \* how many of the list's descriptors it has executed
    mem,            \* the controller's memory: what each byte is
    toggle,         \* the toggle bit of the data transfer the keyboard expects
    sent,           \* bytes of the answer the keyboard has sent
    dev_addr,       \* the keyboard's address
    length          \* of its descriptors
vars == <<step, at, done, mem, toggle, sent, dev_addr, length>>

-----------------------------------------------------------------------------
(* The lists, with the numbers of the code. *)

Start == \h500
SetupBytes == \h50C .. \h513
Memory == Start .. \h5D0

\* A transfer: kind, keyboard's address, buffer, room in it, toggle, link.
Xfer(kind, addr, base, len, tog, next) ==
    [kind |-> kind, addr |-> addr, base |-> base, len |-> len, toggle |-> tog, next |-> next]
Setup(addr) == Xfer("SETUP", addr, \h50C, 8, 0, \h514)
In(base, len, tog, next) == Xfer("IN", 2, base, len, tog, next)
StatusIn(addr) == Xfer("IN", addr, 0, 0, 1, 0)
StatusOut      == Xfer("OUT", 2, 0, 0, 1, 0)

\* The descriptor asked for, and the most bytes of it.
List(answer, ask, xfers) == [answer |-> answer, ask |-> ask, xfers |-> xfers]

UsbSetAddress == List("", 0, <<Setup(0), StatusIn(0)>>)
\* Faulty variant: the new address is used one list too late.
DeviceDesc1Early ==
    List("Device", 8, <<Setup(0), In(\h52C, 8, 1, \h520), StatusOut>>)
UsbGetDeviceDesc1 ==
    List("Device", 8, <<Setup(2), In(\h52C, 8, 1, \h520), StatusOut>>)
UsbGetDeviceDesc2 ==
    List("Device", 18, <<Setup(2), In(\h544, 8, 1, \h520), In(\h54C, 8, 0, \h52C),
                     In(\h554, 2, 1, \h538), StatusOut>>)
\* Faulty variant: a buffer that is a byte short.
ConfigDesc1Short ==
    List("Config", 9, <<Setup(2), In(\h544, 7, 1, \h520), In(\h54C, 1, 0, \h52C), StatusOut>>)
UsbGetConfigDesc1 ==
    List("Config", 9, <<Setup(2), In(\h544, 8, 1, \h520), In(\h54C, 1, 0, \h52C), StatusOut>>)
\* Faulty variants: buffers laid over the last descriptor; a hole between two of
\* them.
ConfigDesc2Low ==
    List("Config", 255, <<Setup(2), In(\h550, 8, 1, \h520), In(\h558, 8, 0, \h52C),
                     In(\h560, 8, 1, \h538), In(\h568, 8, 0, \h544),
                     In(\h570, 2, 1, \h550), StatusOut>>)
ConfigDesc2Hole ==
    List("Config", 255, <<Setup(2), In(\h55C, 8, 1, \h520), In(\h566, 8, 0, \h52C),
                     In(\h56E, 8, 1, \h538), In(\h576, 8, 0, \h544),
                     In(\h57E, 2, 1, \h550), StatusOut>>)
UsbGetConfigDesc2 ==
    List("Config", 255, <<Setup(2), In(\h55C, 8, 1, \h520), In(\h564, 8, 0, \h52C),
                     In(\h56C, 8, 1, \h538), In(\h574, 8, 0, \h544),
                     In(\h57C, 2, 1, \h550), StatusOut>>)
UsbSetConfig    == List("", 0, <<Setup(2), StatusIn(2)>>)
UsbClassRequest == List("", 0, <<Setup(2), StatusIn(2)>>)
UsbGetHidDesc ==
    List("Hid", 123, <<Setup(2), In(\h544, 8, 1, \h520), StatusOut>>)
\* Faulty variant: a toggle not changed.
ReportDescToggle ==
    List("Report", 123, <<Setup(2), In(\h580, 8, 1, \h520), In(\h588, 8, 0, \h52C),
                     In(\h590, 8, 1, \h538), In(\h598, 8, 0, \h544),
                     In(\h5A0, 8, 1, \h550), In(\h5A8, 8, 0, \h55C),
                     In(\h5B0, 8, 0, \h568), In(\h5B8, 3, 1, \h574), StatusOut>>)
UsbGetReportDesc ==
    List("Report", 123, <<Setup(2), In(\h580, 8, 1, \h520), In(\h588, 8, 0, \h52C),
                     In(\h590, 8, 1, \h538), In(\h598, 8, 0, \h544),
                     In(\h5A0, 8, 1, \h550), In(\h5A8, 8, 0, \h55C),
                     In(\h5B0, 8, 1, \h568), In(\h5B8, 3, 0, \h574), StatusOut>>)

\* main counts its polls; the first one, the odd ones by its count, ask for toggle 0.
PollToggle == step % 2
PollList == List("Keys", 8, <<In(\h51C, PacketSize, PollToggle, 0)>>)

Enumeration == <<UsbSetAddress, UsbGetDeviceDesc1, UsbGetDeviceDesc2, UsbGetConfigDesc1,
                 UsbGetConfigDesc2, UsbSetConfig, UsbClassRequest, UsbGetHidDesc,
                 UsbGetReportDesc>>
FirstPoll == Len(Enumeration) + 1
list == IF step < FirstPoll THEN Enumeration[step] ELSE PollList
xfers == list.xfers

-----------------------------------------------------------------------------
(* The controller's memory and its way through a list. *)

\* Where the driver's writes, word after word, put the k-th descriptor.
Position(k) == IF k = 1 THEN Start ELSE \h514 + 12 * (k - 2)
Bytes(k) == Position(k) .. Position(k) + 11

Intact(k) == at = Position(k) /\ \A a \in Bytes(k) : mem[a] = <<"xfer", k>>

\* The data transfers, and the last one of a list, which only confirms.
IsStatus(k) == step < FirstPoll /\ k = Len(xfers)

\* How many bytes the keyboard still has for this request, and sends at once.
Rest == Min({list.ask, length[list.answer]}) - sent
Packet == Min({PacketSize, Rest})

Init ==
    /\ step = 1 /\ at = 0 /\ done = 0
    /\ mem = [a \in Memory |-> <<"other", 0>>]
    /\ toggle = 0 /\ sent = 0 /\ dev_addr = 0
    /\ length \in Lengths

\* Before the configuration is set main overwrites the end of the descriptor it
\* has read with a report size of its own.
EndpointBytes == IF xfers = UsbSetConfig.xfers THEN \h576 .. \h57F ELSE {}

WriteList ==
    /\ at = 0 /\ done = 0
    /\ at' = Start
    /\ mem' = [a \in Memory |->
                 IF \E k \in 1 .. Len(xfers) : a \in Bytes(k)
                 THEN <<"xfer", CHOOSE k \in 1 .. Len(xfers) : a \in Bytes(k)>>
                 ELSE IF step < FirstPoll /\ a \in SetupBytes THEN <<"setup", step>>
                 ELSE IF a \in EndpointBytes THEN <<"main", a>>
                 ELSE mem[a]]
    /\ sent' = 0
    /\ UNCHANGED <<step, done, toggle, dev_addr, length>>

\* A data transfer stores the packet, as far as there is room for it.
Receive(k) ==
    LET n == Min({Packet, xfers[k].len})
    IN  /\ mem' = [a \in Memory |->
                    IF a \in xfers[k].base .. xfers[k].base + n - 1
                    THEN <<list.answer, sent + (a - xfers[k].base)>> ELSE mem[a]]
        /\ sent' = sent + n
        /\ toggle' = 1 - toggle

Transfer(k) ==
    /\ at # 0 /\ Intact(k)
    /\ CASE xfers[k].kind = "SETUP" -> toggle' = 1 /\ UNCHANGED <<mem, sent>>
         [] xfers[k].kind # "SETUP" /\ ~IsStatus(k) -> Receive(k)
         [] IsStatus(k) -> toggle' = 0 /\ UNCHANGED <<mem, sent>>
    /\ at' = xfers[k].next
    /\ done' = done + 1
    /\ dev_addr' = IF IsStatus(k) /\ step = 1 THEN 2 ELSE dev_addr
    /\ UNCHANGED <<step, length>>

\* The driver goes on to its next list.
NextList ==
    /\ at = 0 /\ done # 0
    /\ done' = 0
    /\ step' = IF step > FirstPoll THEN FirstPoll ELSE step + 1
    /\ UNCHANGED <<at, mem, toggle, sent, dev_addr, length>>

Next == WriteList \/ (\E k \in DOMAIN xfers : Transfer(k)) \/ NextList

Spec == Init /\ [][Next]_vars
-----------------------------------------------------------------------------
(* What the hand-written numbers have to fulfil. *)

\* The links lead through every descriptor of a list, once and in order, and no
\* answer is stored over one the controller has still to come to.
WellLinked ==
    IF at # 0 THEN done < Len(xfers) /\ Intact(done + 1)
              ELSE done \in {0, Len(xfers)}

\* Every transfer has the toggle the keyboard expects: 0 for the setup packet, 1
\* for the first data packet, and alternating from then on; 1 for the last; and
\* for polls alternating from 0.
TogglesAlternate ==
    at # 0 /\ xfers[done + 1].kind # "SETUP" =>
        xfers[done + 1].toggle = IF IsStatus(done + 1) THEN 1 ELSE toggle

\* Every transfer is sent to the address the keyboard then has.
AddressKnown == at # 0 => xfers[done + 1].addr = dev_addr

\* There is room for every packet of a keyboard of these lengths.
RoomEnough ==
    at # 0 /\ xfers[done + 1].kind = "IN" /\ ~IsStatus(done + 1)
        => Packet <= xfers[done + 1].len

\* The answers lie where main reads them.  The packets of the configuration descriptor
\* follow each other in memory, so that the interface's protocol (byte 16) is at 0x56C,
\* and the endpoint's descriptor (byte 27) begins at 0x577; the keys of a report, its
\* bytes 2 to 5, are at 0x51E and 0x520.
AnswersReadable ==
    at = 0 /\ done # 0 =>
        /\ list = UsbGetConfigDesc2 =>
              /\ length.Config > 16 => mem[\h56C] = <<"Config", 16>>
              /\ length.Config > 27 => mem[\h577] = <<"Config", 27>>
        /\ step >= FirstPoll => \A i \in 2 .. 5 : mem[\h51C + i] = <<"Keys", i>>
=============================================================================
