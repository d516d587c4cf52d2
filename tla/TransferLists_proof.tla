------------------------- MODULE TransferLists_proof -------------------------
(***************************************************************************)
(* The numbers of the transfer lists, for keyboards of all lengths they    *)
(* are cut for.  The lists have one shape, which is checked number by      *)
(* number; the rest follows from the shape alone: links lead on, buffers   *)
(* lie behind the last descriptor, toggles alternate, and what is still to *)
(* come fits.                                                              *)
(***************************************************************************)
EXTENDS TransferLists, TLAPS

Size == Len(xfers)
Answers == {"Device", "Config", "Hid", "Report", "Keys"}
IsData(k) == xfers[k].kind # "SETUP" /\ ~IsStatus(k)

\* How long an answer the keyboard gives to the list at hand.
Total == Min({list.ask, length[list.answer]})

Shape ==
    /\ Size \in 1 .. 10 /\ DOMAIN xfers = 1 .. Size
    /\ step < FirstPoll => Size >= 2
    /\ step >= FirstPoll => Size = 1
    /\ \A k \in 1 .. Size :
          /\ xfers[k].next = IF k = Size THEN 0 ELSE Position(k + 1)
          /\ xfers[k].kind = "SETUP" <=> k = 1 /\ step < FirstPoll
          /\ xfers[k].addr = IF step = 1 THEN 0 ELSE 2
          /\ IsStatus(k) => xfers[k].toggle = 1
          /\ IsData(k) =>
                /\ xfers[k].kind = "IN"
                /\ xfers[k].base \in Nat /\ xfers[k].len \in Nat
                /\ xfers[k].base >= Position(Size) + 12
                /\ xfers[k].toggle = IF step < FirstPoll THEN (k - 1) % 2 ELSE step % 2
                /\ list.answer \in Answers /\ list.ask \in Nat
                /\ xfers[k].len >= 8 \/ Total <= 8 * (k - 2) + xfers[k].len

LEMMA MinOfTwo ==
    ASSUME NEW a \in Int, NEW b \in Int
    PROVE  Min({a, b}) = IF a <= b THEN a ELSE b
  BY DEF Min

LEMMA Polls == FirstPoll = 10
  BY DEF FirstPoll, Enumeration

LEMMA Sizes ==
    ASSUME length \in Lengths
    PROVE  /\ length.Device \in Nat /\ length.Config \in 0 .. 34 /\ length.Hid \in Nat
           /\ length.Report \in 0 .. 59 /\ length.Keys \in Nat /\ length.Keys > 5
  BY ListsAssumption

LEMMA ListShape ==
    ASSUME step \in 1 .. 11, length \in Lengths
    PROVE  Shape
<1> USE Polls, Sizes, MinOfTwo, ListsAssumption
    DEF Shape, xfers, List, Xfer, Setup, In, StatusIn, StatusOut, Position, Start,
        IsStatus, IsData, Answers, Total, Size
<1>0. ASSUME NEW addr, addr = IF step = 1 THEN 0 ELSE 2, step < FirstPoll,
             xfers = <<Setup(addr), StatusIn(addr)>>
      PROVE  Shape
  <2>1. /\ Len(xfers) = 2 /\ DOMAIN xfers = 1 .. 2
        /\ xfers[1].kind = "SETUP" /\ xfers[1].addr = addr /\ xfers[1].next = Position(2)
        /\ xfers[2].kind = "IN" /\ xfers[2].addr = addr /\ xfers[2].next = 0
        /\ xfers[2].toggle = 1
    BY <1>0
  <2> HIDE DEF xfers, Position
  <2>2. \A k \in 1 .. 2 : k = 1 \/ k = 2
    OBVIOUS
  <2>3. ~IsData(1) /\ ~IsData(2) /\ ~IsStatus(1)
    BY <1>0, <2>1
  <2> HIDE DEF IsData, IsStatus
  <2> QED
    BY <1>0, <2>1, <2>2, <2>3
<1>1. CASE step = 1
  <2>1. list = UsbSetAddress
    BY <1>1 DEF list, Enumeration
  <2>2. xfers = <<Setup(0), StatusIn(0)>> /\ 0 = IF step = 1 THEN 0 ELSE 2
    BY <1>1, <2>1 DEF UsbSetAddress
  <2> HIDE DEF Shape, xfers, Setup, StatusIn
  <2> QED
    BY <1>0, <1>1, <2>2
<1>2. CASE step = 2
  <2>1. list = UsbGetDeviceDesc1
    BY <1>2 DEF list, Enumeration
  <2> QED
    BY <1>2, <2>1 DEF UsbGetDeviceDesc1
<1>3. CASE step = 3
  <2>1. list = UsbGetDeviceDesc2
    BY <1>3 DEF list, Enumeration
  <2> QED
    BY <1>3, <2>1 DEF UsbGetDeviceDesc2
<1>4. CASE step = 4
  <2>1. list = UsbGetConfigDesc1
    BY <1>4 DEF list, Enumeration
  <2> QED
    BY <1>4, <2>1 DEF UsbGetConfigDesc1
<1>5. CASE step = 5
  <2>1. list = UsbGetConfigDesc2
    BY <1>5 DEF list, Enumeration
  <2> QED
    BY <1>5, <2>1, SMTT(60) DEF UsbGetConfigDesc2
<1>6. CASE step = 6
  <2>1. list = UsbSetConfig
    BY <1>6 DEF list, Enumeration
  <2>2. xfers = <<Setup(2), StatusIn(2)>>
    BY <2>1 DEF UsbSetConfig
  <2> HIDE DEF Shape, xfers, Setup, StatusIn
  <2> QED
    BY <1>0, <1>6, <2>2
<1>7. CASE step = 7
  <2>1. list = UsbClassRequest
    BY <1>7 DEF list, Enumeration
  <2>2. xfers = <<Setup(2), StatusIn(2)>>
    BY <2>1 DEF UsbClassRequest
  <2> HIDE DEF Shape, xfers, Setup, StatusIn
  <2> QED
    BY <1>0, <1>7, <2>2
<1>8. CASE step = 8
  <2>1. list = UsbGetHidDesc
    BY <1>8 DEF list, Enumeration
  <2> QED
    BY <1>8, <2>1 DEF UsbGetHidDesc
<1>9. CASE step = 9
  <2>1. list = UsbGetReportDesc
    BY <1>9 DEF list, Enumeration
  <2> QED
    BY <1>9, <2>1, SMTT(60) DEF UsbGetReportDesc
<1>10. CASE step \in {10, 11}
  <2>1. list = PollList
    BY <1>10 DEF list, Enumeration
  <2> QED
    BY <1>10, <2>1 DEF PollList, PollToggle
<1>11. step \in {1, 2, 3, 4, 5, 6, 7, 8, 9} \/ step \in {10, 11}
  OBVIOUS
<1> HIDE DEF Shape
<1> QED
  BY <1>1, <1>2, <1>3, <1>4, <1>5, <1>6, <1>7, <1>8, <1>9, <1>10, <1>11

\* Three lists in particular: the one that sets the address, the one main looks into,
\* and the polls.
LEMMA SetAddressSize ==
    ASSUME step = 1
    PROVE  Len(xfers) = 2
<1>1. list = UsbSetAddress
  BY DEF list, FirstPoll, Enumeration
<1> QED
  BY <1>1 DEF xfers, UsbSetAddress, List

LEMMA ConfigBuffers ==
    ASSUME step = 5
    PROVE  /\ Len(xfers) = 7 /\ list.answer = "Config" /\ list.ask = 255
           /\ \A k \in 2 .. 6 : xfers[k].base = \h55C + 8 * (k - 2)
<1>1. list = UsbGetConfigDesc2
  BY DEF list, FirstPoll, Enumeration
<1> QED
  BY <1>1 DEF xfers, UsbGetConfigDesc2, List, Setup, In, StatusOut, Xfer

LEMMA PollBuffer ==
    ASSUME step \in {10, 11}
    PROVE  list.answer = "Keys" /\ list.ask = 8 /\ xfers[1].base = \h51C
<1>1. list = PollList
  BY DEF list, FirstPoll, Enumeration
<1> QED
  BY <1>1 DEF xfers, PollList, List, In, Xfer

LEMMA OnlyConfig ==
    ASSUME step \in 1 .. 11, list = UsbGetConfigDesc2
    PROVE  step = 5
<1>1. list.ask = 255
  BY DEF UsbGetConfigDesc2, List
<1>2. /\ step = 1 => list = UsbSetAddress
      /\ step = 2 => list = UsbGetDeviceDesc1
      /\ step = 3 => list = UsbGetDeviceDesc2
      /\ step = 4 => list = UsbGetConfigDesc1
      /\ step = 6 => list = UsbSetConfig
      /\ step = 7 => list = UsbClassRequest
      /\ step = 8 => list = UsbGetHidDesc
      /\ step = 9 => list = UsbGetReportDesc
      /\ step \in {10, 11} => list = PollList
  BY DEF list, FirstPoll, Enumeration
<1>3. /\ UsbSetAddress.ask = 0 /\ UsbGetDeviceDesc1.ask = 8 /\ UsbGetDeviceDesc2.ask = 18
      /\ UsbGetConfigDesc1.ask = 9 /\ UsbSetConfig.ask = 0 /\ UsbClassRequest.ask = 0
      /\ UsbGetHidDesc.ask = 123 /\ UsbGetReportDesc.ask = 123 /\ PollList.ask = 8
  BY DEF UsbSetAddress, UsbGetDeviceDesc1, UsbGetDeviceDesc2, UsbGetConfigDesc1, UsbSetConfig,
         UsbClassRequest, UsbGetHidDesc, UsbGetReportDesc, PollList, List
<1> QED
  BY <1>1, <1>2, <1>3

\* Descriptors follow each other without overlap, and stay in the memory.
LEMMA Positions ==
    ASSUME NEW j \in 1 .. 10, NEW k \in 1 .. 10
    PROVE  /\ Position(k) \in Nat /\ Position(k) > 0
           /\ j < k => Position(j) + 12 <= Position(k)
           /\ Position(j) = Position(k) => j = k
           /\ Bytes(k) \subseteq Memory
  BY DEF Position, Start, Bytes, Memory

-----------------------------------------------------------------------------
(* The inductive invariant. *)

\* The controller has executed the descriptors in order, and those to come are as
\* they were written.
InOrder ==
    /\ done \in Nat
    /\ IF at # 0 THEN done < Size /\ at = Position(done + 1)
                 ELSE done = 0 \/ done = Size
    /\ at # 0 => \A k \in done + 1 .. Size : \A a \in Bytes(k) : mem[a] = <<"xfer", k>>

\* The toggle is set by each list's first transfer, and left at 0 by its last one;
\* the polls, which have neither, carry it on.
ToggleKept ==
    toggle = IF step >= FirstPoll THEN (step + done) % 2
             ELSE IF done = Size THEN 0 ELSE done % 2

AddressGiven == dev_addr = IF step = 1 /\ done < 2 THEN 0 ELSE 2

\* All packets but the last are full ones.
SentInFull ==
    at # 0 => sent = IF done <= 1 THEN 0 ELSE Min({8 * (done - 1), Total})

\* The bytes that main reads are where it reads them from the moment on that their
\* packet has come.
InPlace ==
    /\ step = 5 =>
          /\ done >= 4 /\ length.Config > 16 => mem[\h56C] = <<"Config", 16>>
          /\ done >= 5 /\ length.Config > 27 => mem[\h577] = <<"Config", 27>>
    /\ step >= FirstPoll /\ done = 1 =>
          \A i \in 2 .. 5 : mem[\h51C + i] = <<"Keys", i>>

Typed == step \in 1 .. 11 /\ length \in Lengths

Inv == Typed /\ InOrder /\ ToggleKept /\ AddressGiven /\ SentInFull /\ InPlace

LEMMA SameList ==
    ASSUME UNCHANGED step
    PROVE  /\ list' = list /\ xfers' = xfers /\ Size' = Size
           /\ length' = length => Total' = Total
<1>1. list' = list
  BY DEF list, PollList, PollToggle
<1> QED
  BY <1>1 DEF xfers, Total, Size

LEMMA InvInit == Init => Inv
<1> SUFFICES ASSUME Init PROVE Inv
  OBVIOUS
<1>1. Typed /\ Shape
  BY ListShape DEF Init, Typed
<1>2. InOrder /\ AddressGiven /\ SentInFull /\ InPlace
  BY <1>1, Polls DEF Init, InOrder, AddressGiven, SentInFull, InPlace
<1>3. ToggleKept
  BY Polls DEF Init, ToggleKept
<1> QED
  BY <1>1, <1>2, <1>3 DEF Inv

LEMMA WriteKeeps == Inv /\ WriteList => Inv'
<1> SUFFICES ASSUME Inv, WriteList PROVE Inv'
  OBVIOUS
<1>1. /\ Shape /\ Size \in 1 .. 10 /\ list' = list /\ xfers' = xfers /\ Size' = Size
      /\ Typed /\ Typed' /\ at' = Start /\ done = 0 /\ done' = 0 /\ sent' = 0
      /\ UNCHANGED <<step, toggle, dev_addr, length>>
  BY ListShape, SameList DEF WriteList, Inv, Typed, Shape
<1>2. ASSUME NEW k \in 1 .. Size, NEW a \in Bytes(k)
      PROVE  mem'[a] = <<"xfer", k>>
  <2>0. k \in 1 .. 10 /\ \A j \in 1 .. Size : j \in 1 .. 10
    BY <1>1
  <2>1. a \in Memory
    BY <2>0, <1>2, Positions
  <2>2. ASSUME NEW j \in 1 .. Size, a \in Bytes(j)
        PROVE  j = k
    <3>1. /\ Position(j) \in Nat /\ Position(k) \in Nat
          /\ j < k => Position(j) + 12 <= Position(k)
          /\ k < j => Position(k) + 12 <= Position(j)
      BY <2>0, Positions
    <3>2. /\ a \in Position(j) .. Position(j) + 11
          /\ a \in Position(k) .. Position(k) + 11
      BY <1>2, <2>2 DEF Bytes
    <3> QED
      BY <2>0, <3>1, <3>2
  <2>3. (CHOOSE j \in 1 .. Size : a \in Bytes(j)) = k
    BY <1>2, <2>2
  <2> QED
    <3>1. mem'[a] = IF \E j \in 1 .. Size : a \in Bytes(j)
                    THEN <<"xfer", CHOOSE j \in 1 .. Size : a \in Bytes(j)>> ELSE mem'[a]
      BY <2>1 DEF WriteList, Size
    <3> QED
      BY <1>2, <2>3, <3>1
<1>3. InOrder'
  <2>1. Position(1) = Start /\ Start # 0
    BY DEF Position, Start
  <2>2. \A k \in 1 .. Size : \A a \in Bytes(k) : mem'[a] = <<"xfer", k>>
    BY <1>2
  <2> QED
    BY <1>1, <2>1, <2>2 DEF InOrder
<1>4. ToggleKept' /\ AddressGiven'
  BY <1>1 DEF Inv, ToggleKept, AddressGiven
<1>5. SentInFull' /\ InPlace'
  BY <1>1 DEF SentInFull, InPlace
<1> QED
  BY <1>1, <1>3, <1>4, <1>5 DEF Inv

LEMMA NextKeeps == Inv /\ NextList => Inv'
<1> SUFFICES ASSUME Inv, NextList PROVE Inv'
  OBVIOUS
<1>1. /\ Shape /\ Size \in 1 .. 10 /\ at = 0 /\ at' = 0 /\ done = Size /\ done' = 0
      /\ step \in 1 .. 11 /\ step' = IF step > FirstPoll THEN FirstPoll ELSE step + 1
      /\ UNCHANGED <<mem, toggle, sent, dev_addr, length>>
  BY ListShape DEF NextList, Inv, Typed, InOrder, Shape
<1>2. Typed'
  BY <1>1, Polls DEF Inv, Typed
<1>3. InOrder' /\ SentInFull'
  BY <1>1 DEF InOrder, SentInFull
<1>4. ToggleKept'
  <2>2. step < FirstPoll => toggle = 0
    BY <1>1, Polls DEF Inv, ToggleKept
  <2>3. step >= FirstPoll => done = 1 /\ toggle = (step + 1) % 2
    BY <1>1 DEF Inv, ToggleKept, Shape
  <2> QED
    BY <1>1, <2>2, <2>3, Polls DEF ToggleKept
<1>5. AddressGiven'
  <2>1. step = 1 => done >= 2
    BY <1>1, Polls DEF Shape
  <2>2. dev_addr = 2
    BY <1>1, <2>1 DEF Inv, AddressGiven
  <2> QED
    BY <1>1, <2>2, Polls DEF AddressGiven
<1>6. InPlace'
  BY <1>1 DEF InPlace
<1> QED
  BY <1>2, <1>3, <1>4, <1>5, <1>6 DEF Inv

-----------------------------------------------------------------------------
(* A transfer. *)

\* The one that can happen is the next one, and leaves the list as it is.
LEMMA TheNext ==
    ASSUME Inv, NEW k \in DOMAIN xfers, Transfer(k)
    PROVE  /\ k = done + 1 /\ k \in 1 .. Size /\ Size \in 1 .. 10 /\ done \in 0 .. 9
           /\ at # 0 /\ done < Size /\ done' = k /\ at' = xfers[k].next
           /\ Shape /\ list' = list /\ xfers' = xfers /\ Size' = Size /\ Total' = Total
           /\ UNCHANGED <<step, length>>
<1>1. /\ Shape /\ UNCHANGED <<step, length>> /\ at # 0 /\ at = Position(k)
      /\ done' = done + 1 /\ at' = xfers[k].next
  BY ListShape DEF Transfer, Intact, Inv, Typed
<1>2. /\ k \in 1 .. Size /\ Size \in 1 .. 10
      /\ done \in Nat /\ done < Size /\ at = Position(done + 1)
  BY <1>1 DEF Shape, Inv, InOrder
<1>3. k = done + 1
  <2>1. k \in 1 .. 10 /\ done + 1 \in 1 .. 10
    BY <1>2
  <2> QED
    BY <1>1, <1>2, <2>1, Positions
<1> QED
  BY <1>1, <1>2, <1>3, SameList

LEMMA TotalType ==
    ASSUME Typed, list.answer \in Answers, list.ask \in Nat
    PROVE  Total \in Nat
<1>1. length[list.answer] \in Nat
  BY Sizes DEF Typed, Answers
<1> QED
  BY <1>1, MinOfTwo DEF Total

\* A packet is a full one, or all that is left, and there is room for it.
LEMMA PacketFits ==
    ASSUME Inv, at # 0, IsData(done + 1)
    PROVE  /\ Total \in Nat
           /\ sent = IF done <= 1 THEN 0 ELSE Min({8 * (done - 1), Total})
           /\ sent \in 0 .. Total
           /\ Packet = IF Total - sent >= 8 THEN 8 ELSE Total - sent
           /\ Packet <= xfers[done + 1].len
           /\ done >= 1 => sent + Packet = Min({8 * done, Total})
<1> DEFINE k == done + 1
<1>1. /\ Shape /\ done \in Nat /\ k \in 1 .. Size
  <2>1. Shape
    BY ListShape DEF Inv, Typed
  <2>2. Size \in 1 .. 10
    BY <2>1 DEF Shape
  <2>3. done \in Nat /\ done < Size
    BY DEF Inv, InOrder
  <2> QED
    BY <2>1, <2>2, <2>3
<1>2. /\ list.answer \in Answers /\ list.ask \in Nat /\ xfers[k].len \in Nat
      /\ xfers[k].len >= 8 \/ Total <= 8 * (k - 2) + xfers[k].len
  BY <1>1 DEF Shape
<1>3. Total \in Nat
  BY <1>2, TotalType DEF Inv
<1>4. sent = IF done <= 1 THEN 0 ELSE Min({8 * (done - 1), Total})
  BY DEF Inv, SentInFull
<1>5. sent = IF done <= 1 THEN 0 ELSE IF 8 * (done - 1) <= Total THEN 8 * (done - 1) ELSE Total
  BY <1>1, <1>3, <1>4, MinOfTwo
<1>6. sent \in 0 .. Total
  BY <1>1, <1>3, <1>5
<1>7. Packet = IF Total - sent >= 8 THEN 8 ELSE Total - sent
  <2>1. Rest = Total - sent /\ PacketSize = 8
    BY ListsAssumption DEF Rest, Total
  <2> QED
    BY <1>3, <1>6, <2>1, MinOfTwo DEF Packet
<1>8. Packet <= xfers[k].len
  <2>1. CASE xfers[k].len >= 8
    BY <1>2, <1>3, <1>6, <1>7, <2>1
  <2>2. CASE Total <= 8 * (k - 2) + xfers[k].len
    <3>1. done = 0 => xfers[k].len >= 8
      BY <1>2, <1>3, <2>2
    <3>2. done >= 1 => Total - sent <= xfers[k].len
      BY <1>1, <1>2, <1>3, <1>5, <2>2
    <3> QED
      BY <1>1, <1>2, <1>3, <1>6, <1>7, <3>1, <3>2
  <2> QED
    BY <1>2, <2>1, <2>2
<1>9. done >= 1 => sent + Packet = Min({8 * done, Total})
  BY <1>1, <1>3, <1>5, <1>7, MinOfTwo
<1> QED
  BY <1>3, <1>4, <1>6, <1>7, <1>8, <1>9

\* What a data transfer does to the memory and the count.
LEMMA Received ==
    ASSUME Inv, NEW k \in DOMAIN xfers, Transfer(k), IsData(k)
    PROVE  /\ sent' = sent + Packet /\ toggle' = 1 - toggle
           /\ mem' = [a \in Memory |->
                        IF a \in xfers[k].base .. xfers[k].base + Packet - 1
                        THEN <<list.answer, sent + (a - xfers[k].base)>> ELSE mem[a]]
<1>1. k = done + 1 /\ at # 0 /\ Shape /\ k \in 1 .. Size
  BY TheNext
<1>2. Receive(k)
  BY DEF Transfer, IsData
<1>3. Packet \in Int /\ xfers[k].len \in Int /\ Packet <= xfers[k].len
  <2>1. /\ Total \in Nat /\ sent \in 0 .. Total
        /\ Packet = IF Total - sent >= 8 THEN 8 ELSE Total - sent
        /\ Packet <= xfers[k].len
    BY <1>1, PacketFits
  <2>2. xfers[k].len \in Nat
    BY <1>1 DEF Shape
  <2> QED
    BY <2>1, <2>2
<1>4. Min({Packet, xfers[k].len}) = Packet
  BY <1>3, MinOfTwo
<1> QED
  BY <1>2, <1>4 DEF Receive

\* The others touch neither.
LEMMA NotReceived ==
    ASSUME Inv, NEW k \in DOMAIN xfers, Transfer(k), ~IsData(k)
    PROVE  /\ UNCHANGED <<mem, sent>>
           /\ toggle' = IF xfers[k].kind = "SETUP" THEN 1 ELSE 0
           /\ xfers[k].kind = "SETUP" \/ IsStatus(k)
           /\ step < FirstPoll
<1>1. k = done + 1 /\ Shape /\ k \in 1 .. Size
  BY TheNext
<1>2. xfers[k].kind = "SETUP" => ~IsStatus(k) /\ step < FirstPoll
  BY <1>1, Polls DEF Shape, IsStatus
<1>3. xfers[k].kind = "SETUP" \/ IsStatus(k)
  BY DEF IsData
<1> QED
  BY <1>2, <1>3, Zenon DEF Transfer, IsStatus

\* The buffers lie behind the last descriptor, so that what is received leaves the
\* descriptors alone.
LEMMA OrderKept ==
    ASSUME Inv, NEW k \in DOMAIN xfers, Transfer(k)
    PROVE  InOrder'
<1>1. /\ k = done + 1 /\ k \in 1 .. Size /\ Size \in 1 .. 10 /\ Shape /\ at # 0
      /\ done' = k /\ at' = xfers[k].next /\ Size' = Size
  BY TheNext
<1>2. /\ k = Size => at' = 0
      /\ k # Size => at' = Position(k + 1) /\ at' # 0
  <2>1. at' = IF k = Size THEN 0 ELSE Position(k + 1)
    BY <1>1 DEF Shape
  <2>2. k # Size => k + 1 \in 1 .. 10
    BY <1>1
  <2> QED
    BY <2>1, <2>2, Positions
<1>3. ASSUME NEW j \in k + 1 .. Size, NEW a \in Bytes(j)
      PROVE  mem'[a] = <<"xfer", j>>
  <2>1. mem[a] = <<"xfer", j>>
    <3>1. j \in done + 1 .. Size
      BY <1>1
    <3> QED
      BY <1>1, <1>3, <3>1 DEF Inv, InOrder
  <2>2. CASE ~IsData(k)
    BY <2>1, <2>2, NotReceived
  <2>3. CASE IsData(k)
    <3>1. xfers[k].base \in Nat /\ xfers[k].base >= Position(Size) + 12
      BY <1>1, <2>3 DEF Shape
    <3>2. a < xfers[k].base /\ a \in Memory
      <4>1. j \in 1 .. 10 /\ Size \in 1 .. 10
        BY <1>1
      <4>2. /\ Position(j) \in Nat /\ Position(Size) \in Nat /\ Bytes(j) \subseteq Memory
            /\ j < Size => Position(j) + 12 <= Position(Size)
        BY <4>1, Positions
      <4>3. a \in Position(j) .. Position(j) + 11
        BY <1>3 DEF Bytes
      <4>4. j < Size \/ j = Size
        BY <1>1
      <4> QED
        BY <1>3, <3>1, <4>2, <4>3, <4>4
    <3>3. a \notin xfers[k].base .. xfers[k].base + Packet - 1
      BY <3>1, <3>2
    <3>4. mem'[a] = mem[a]
      BY <2>3, <3>2, <3>3, Received
    <3> QED
      BY <2>1, <3>4
  <2> QED
    BY <2>2, <2>3
<1>4. CASE k = Size
  BY <1>1, <1>2, <1>4 DEF InOrder
<1>5. CASE k # Size
  <2>1. \A j \in k + 1 .. Size : \A a \in Bytes(j) : mem'[a] = <<"xfer", j>>
    BY <1>3
  <2>2. done' \in Nat /\ done' < Size' /\ at' # 0 /\ at' = Position(done' + 1)
    BY <1>1, <1>2, <1>5
  <2> QED
    BY <1>1, <2>1, <2>2 DEF InOrder
<1> QED
  BY <1>4, <1>5

LEMMA TogglesKept ==
    ASSUME Inv, NEW k \in DOMAIN xfers, Transfer(k)
    PROVE  ToggleKept'
<1>1. /\ k = done + 1 /\ k \in 1 .. Size /\ Size \in 1 .. 10 /\ Shape
      /\ done' = k /\ Size' = Size /\ done \in 0 .. 9 /\ step' = step /\ step \in 1 .. 11
  BY TheNext DEF Inv, Typed
<1>2. toggle = IF step >= FirstPoll THEN (step + done) % 2 ELSE done % 2
  BY <1>1 DEF Inv, ToggleKept
<1>3. /\ step < FirstPoll => Size >= 2
      /\ step >= FirstPoll => Size = 1
      /\ xfers[k].kind = "SETUP" <=> (k = 1 /\ step < FirstPoll)
  BY <1>1 DEF Shape
<1>4. IsStatus(k) <=> (step < FirstPoll /\ k = Size)
  BY DEF IsStatus, Size
<1>5. CASE IsData(k)
  <2>1. toggle' = 1 - toggle
    BY <1>5, Received
  <2>2. step >= FirstPoll \/ (k # Size /\ k > 1)
    BY <1>1, <1>3, <1>4, <1>5, Polls DEF IsData
  <2>3. /\ \A n \in Nat : 1 - (n % 2) = (n + 1) % 2
        /\ (step + done) + 1 = step + k
    BY <1>1
  <2>4. toggle' = IF step >= FirstPoll THEN (step + k) % 2 ELSE k % 2
    BY <1>1, <1>2, <2>1, <2>3
  <2> QED
    BY <1>1, <2>2, <2>4, Polls DEF ToggleKept
<1>6. CASE ~IsData(k)
  <2>1. step < FirstPoll /\ toggle' = IF k = 1 THEN 1 ELSE 0
    BY <1>1, <1>3, <1>6, NotReceived
  <2>2. k = 1 \/ k = Size
    BY <1>3, <1>4, <1>6, NotReceived
  <2> QED
    BY <1>1, <1>3, <2>1, <2>2, Polls DEF ToggleKept
<1> QED
  BY <1>5, <1>6

LEMMA AddressKept ==
    ASSUME Inv, NEW k \in DOMAIN xfers, Transfer(k)
    PROVE  AddressGiven'
<1>1. /\ k = done + 1 /\ k \in 1 .. Size /\ Size \in 1 .. 10 /\ Shape
      /\ done' = k /\ done \in 0 .. 9 /\ step' = step /\ step \in 1 .. 11
  BY TheNext DEF Inv, Typed
<1>2. dev_addr = IF step = 1 /\ done < 2 THEN 0 ELSE 2
  BY DEF Inv, AddressGiven
<1>3. dev_addr' = IF IsStatus(k) /\ step = 1 THEN 2 ELSE dev_addr
  BY DEF Transfer
<1>4. IsStatus(k) <=> (step < FirstPoll /\ k = Size)
  BY DEF IsStatus, Size
<1>5. step = 1 => Size = 2
  BY SetAddressSize DEF Size
<1> QED
  BY <1>1, <1>2, <1>3, <1>4, <1>5, Polls DEF AddressGiven

LEMMA SentKept ==
    ASSUME Inv, NEW k \in DOMAIN xfers, Transfer(k)
    PROVE  SentInFull'
<1>1. /\ k = done + 1 /\ k \in 1 .. Size /\ Size \in 1 .. 10 /\ Shape /\ at # 0
      /\ done' = k /\ at' = xfers[k].next /\ Total' = Total /\ done \in 0 .. 9
  BY TheNext
<1>2. SUFFICES ASSUME k # Size
      PROVE  sent' = IF k <= 1 THEN 0 ELSE Min({8 * (k - 1), Total})
  <2>1. k = Size => at' = 0
    BY <1>1 DEF Shape
  <2> QED
    BY <1>1, <2>1 DEF SentInFull
<1>3. /\ step < FirstPoll /\ ~IsStatus(k)
      /\ xfers[k].kind = "SETUP" <=> (k = 1 /\ step < FirstPoll)
  <2>1. step < FirstPoll
    BY <1>1, <1>2, Polls DEF Shape, Inv, Typed
  <2> QED
    BY <1>1, <1>2, <2>1 DEF Shape, IsStatus, Size
<1>4. CASE k = 1
  <2>1. ~IsData(k)
    BY <1>3, <1>4 DEF IsData
  <2>2. sent = 0
    BY <1>1, <1>4 DEF Inv, SentInFull
  <2> QED
    BY <1>4, <2>1, <2>2, NotReceived
<1>5. CASE k # 1
  <2>1. IsData(k)
    BY <1>3, <1>5 DEF IsData
  <2>2. sent + Packet = Min({8 * done, Total})
    BY <1>1, <1>5, <2>1, PacketFits
  <2>3. done = k - 1
    BY <1>1
  <2> QED
    BY <1>1, <1>5, <2>1, <2>2, <2>3, Received
<1> QED
  BY <1>4, <1>5

\* The third packet of the configuration descriptor begins with its byte 16 and lies
\* at 0x56C, the fourth with byte 24 at 0x574; the packets after them lie behind.
LEMMA ConfigInPlace ==
    ASSUME Inv, NEW k \in DOMAIN xfers, Transfer(k), step = 5
    PROVE  /\ k >= 4 /\ length.Config > 16 => mem'[\h56C] = <<"Config", 16>>
           /\ k >= 5 /\ length.Config > 27 => mem'[\h577] = <<"Config", 27>>
<1>1. /\ k = done + 1 /\ k \in 1 .. 7 /\ done \in 0 .. 9 /\ at # 0 /\ Shape /\ Size = 7
  BY TheNext, ConfigBuffers DEF Size
<1>2. /\ done >= 4 /\ length.Config > 16 => mem[\h56C] = <<"Config", 16>>
      /\ done >= 5 /\ length.Config > 27 => mem[\h577] = <<"Config", 27>>
  BY DEF Inv, InPlace
<1>3. CASE ~IsData(k)
  <2>1. k \in {1, 7}
    BY <1>1, <1>3, Polls DEF Shape, IsData, IsStatus, Size
  <2> QED
    BY <1>1, <1>2, <1>3, <2>1, NotReceived
<1>4. CASE IsData(k)
  <2>1. k \in 2 .. 6
    BY <1>1, <1>4, Polls DEF Shape, IsData, IsStatus, Size
  <2>2. Total = length.Config /\ length.Config \in 0 .. 34
    <3>1. length.Config \in 0 .. 34
      BY Sizes DEF Inv, Typed
    <3>2. Total = Min({255, length.Config})
      BY ConfigBuffers DEF Total
    <3> QED
      BY <3>1, <3>2, MinOfTwo
  <2>3. /\ sent = IF done <= 1 THEN 0 ELSE Min({8 * (done - 1), length.Config})
        /\ Packet = IF length.Config - sent >= 8 THEN 8 ELSE length.Config - sent
    BY <1>1, <1>4, <2>2, PacketFits
  <2>4. done >= 2 => sent = IF 8 * (done - 1) <= length.Config THEN 8 * (done - 1) ELSE length.Config
    BY <1>1, <2>2, <2>3, MinOfTwo
  <2> DEFINE base == 1372 + 8 * (k - 2)
             stored == base .. base + Packet - 1
  <2>5. ASSUME NEW a \in Memory
        PROVE  /\ a \in stored => mem'[a] = <<"Config", sent + (a - base)>>
               /\ a \notin stored => mem'[a] = mem[a]
    BY <1>4, <2>1, Received, ConfigBuffers
  <2>6. \h56C \in Memory /\ \h577 \in Memory
    BY DEF Memory, Start
  <2>7. CASE k = 4
    <3> SUFFICES ASSUME length.Config > 16 PROVE mem'[\h56C] = <<"Config", 16>>
      BY <2>7
    <3>1. sent = 16 /\ Packet >= 1 /\ Packet <= 8
      BY <1>1, <2>2, <2>3, <2>4, <2>7
    <3>2. \h56C \in stored /\ sent + (\h56C - base) = 16
      BY <2>7, <3>1, <2>2, <2>3, <1>1
    <3> HIDE DEF stored, base
    <3> QED
      BY <2>5, <2>6, <3>2
  <2>8. CASE k = 5
    <3>1. length.Config > 27 => mem'[\h577] = <<"Config", 27>>
      <4> SUFFICES ASSUME length.Config > 27 PROVE mem'[\h577] = <<"Config", 27>>
        OBVIOUS
      <4>1. sent = 24 /\ Packet >= 4 /\ Packet <= 8
        BY <1>1, <2>2, <2>3, <2>4, <2>8
      <4>2. \h577 \in stored /\ sent + (\h577 - base) = 27
        BY <2>8, <4>1, <2>2, <2>3, <1>1
      <4> HIDE DEF stored, base
      <4> QED
        BY <2>5, <2>6, <4>2
    <3>2. \h56C \notin stored
      BY <2>8
    <3> HIDE DEF stored, base
    <3>3. mem'[\h56C] = mem[\h56C]
      BY <2>5, <2>6, <3>2
    <3> QED
      BY <1>1, <1>2, <2>8, <3>1, <3>3
  <2>9. CASE k = 6
    <3>1. \h56C \notin stored /\ \h577 \notin stored
      BY <2>9
    <3> HIDE DEF stored, base
    <3>2. mem'[\h56C] = mem[\h56C] /\ mem'[\h577] = mem[\h577]
      BY <2>5, <2>6, <3>1
    <3> QED
      BY <1>1, <1>2, <2>9, <3>2
  <2>10. CASE k \in {2, 3}
    BY <2>10
  <2> QED
    BY <2>1, <2>7, <2>8, <2>9, <2>10
<1> QED
  BY <1>3, <1>4

LEMMA KeysInPlace ==
    ASSUME Inv, NEW k \in DOMAIN xfers, Transfer(k), step >= FirstPoll
    PROVE  \A i \in 2 .. 5 : mem'[\h51C + i] = <<"Keys", i>>
<1>1. /\ k = 1 /\ done = 0 /\ Shape /\ at # 0 /\ step \in {10, 11}
  BY TheNext, Polls DEF Shape, Inv, Typed
<1>2. IsData(k)
  BY <1>1, Polls DEF Shape, IsData, IsStatus
<1>3. Total = Min({8, length.Keys}) /\ length.Keys \in Nat /\ length.Keys > 5
  BY <1>1, PollBuffer, Sizes DEF Total, Inv, Typed
<1>4. Total >= 6 /\ Total \in Nat
  BY <1>3, MinOfTwo
<1>5. sent = 0 /\ Packet >= 6 /\ Packet \in Nat
  BY <1>1, <1>2, <1>4, PacketFits
<1>6. ASSUME NEW a \in Memory, a \in \h51C .. \h51C + Packet - 1
      PROVE  mem'[a] = <<"Keys", sent + (a - \h51C)>>
  BY <1>1, <1>2, <1>6, PollBuffer, Received
<1>7. ASSUME NEW i \in 2 .. 5
      PROVE  mem'[\h51C + i] = <<"Keys", i>>
  <2>1. \h51C + i \in Memory /\ \h51C + i \in \h51C .. \h51C + Packet - 1
    BY <1>5 DEF Memory, Start
  <2>2. mem'[\h51C + i] = <<"Keys", sent + ((\h51C + i) - \h51C)>>
    BY <1>6, <2>1
  <2>3. sent + ((\h51C + i) - \h51C) = i
    BY <1>5
  <2> QED
    BY <2>2, <2>3
<1> QED
  BY <1>7

LEMMA TransferKeeps == Inv /\ (\E k \in DOMAIN xfers : Transfer(k)) => Inv'
<1> SUFFICES ASSUME Inv, NEW k \in DOMAIN xfers, Transfer(k) PROVE Inv'
  OBVIOUS
<1>1. done' = k /\ UNCHANGED <<step, length>>
  BY TheNext
<1>2. Typed'
  BY <1>1 DEF Inv, Typed
<1>3. InPlace'
  BY <1>1, ConfigInPlace, KeysInPlace DEF InPlace
<1> QED
  BY <1>2, <1>3, OrderKept, TogglesKept, AddressKept, SentKept DEF Inv

LEMMA Always == Spec => []Inv
<1>1. Inv /\ UNCHANGED vars => Inv'
  <2> SUFFICES ASSUME Inv, UNCHANGED vars PROVE Inv'
    OBVIOUS
  <2>1. list' = list /\ xfers' = xfers /\ Size' = Size /\ Total' = Total
    BY SameList DEF vars
  <2>2. Typed' /\ ToggleKept' /\ AddressGiven' /\ InPlace'
    BY <2>1 DEF vars, Inv, Typed, ToggleKept, AddressGiven, InPlace
  <2>3. InOrder' /\ SentInFull'
    BY <2>1 DEF vars, Inv, InOrder, SentInFull
  <2> QED
    BY <2>2, <2>3 DEF Inv
<1> QED
  BY <1>1, InvInit, WriteKeeps, TransferKeeps, NextKeeps, PTL DEF Spec, Next

-----------------------------------------------------------------------------
(* What follows for the lists. *)

\* The links written out by hand lead through every descriptor of every list, once
\* and in order, and no answer, however long, is stored over one still to come.
THEOREM LinksLead == Spec => []WellLinked
<1>1. ASSUME Inv PROVE WellLinked
  <2>1. Shape /\ Size \in 1 .. 10
    BY <1>1, ListShape DEF Inv, Typed, Shape
  <2>2. at # 0 => /\ done < Size /\ at = Position(done + 1) /\ done + 1 \in done + 1 .. Size
    BY <1>1, <2>1 DEF Inv, InOrder
  <2>3. at # 0 => done < Size /\ Intact(done + 1)
    BY <1>1, <2>2 DEF Inv, InOrder, Intact
  <2>4. at = 0 => done \in {0, Size}
    BY <1>1 DEF Inv, InOrder
  <2> QED
    BY <2>3, <2>4 DEF WellLinked, Size
<1> QED
  BY <1>1, Always, PTL

\* The descriptor the controller has come to is one of the list.
LEMMA AtDescriptor ==
    ASSUME Inv, at # 0
    PROVE  /\ Shape /\ Size \in 1 .. 10 /\ done + 1 \in 1 .. Size /\ done \in 0 .. 9
<1>1. Shape /\ Size \in 1 .. 10
  BY ListShape DEF Inv, Typed, Shape
<1> QED
  BY <1>1 DEF Inv, InOrder

\* Every transfer carries the toggle the keyboard expects, over all the lists and all
\* the polls that follow them.
THEOREM TogglesMatch == Spec => []TogglesAlternate
<1>1. ASSUME Inv PROVE TogglesAlternate
  <2> DEFINE k == done + 1
  <2> SUFFICES ASSUME at # 0, xfers[k].kind # "SETUP", ~IsStatus(k)
               PROVE  xfers[k].toggle = toggle
    <3>1. at # 0 /\ IsStatus(k) => xfers[k].toggle = 1
      BY <1>1, AtDescriptor DEF Shape
    <3> QED
      BY <3>1 DEF TogglesAlternate
  <2>1. /\ done + 1 \in 1 .. Size /\ done \in 0 .. 9 /\ Shape
    BY <1>1, AtDescriptor
  <2>2. xfers[k].toggle = IF step < FirstPoll THEN (k - 1) % 2 ELSE step % 2
    BY <2>1 DEF Shape, IsData
  <2>3. toggle = IF step >= FirstPoll THEN (step + done) % 2 ELSE done % 2
    BY <1>1, <2>1, Polls DEF Inv, Typed, ToggleKept, InOrder
  <2>4. k - 1 = done /\ (step >= FirstPoll => done = 0)
    BY <2>1 DEF Shape
  <2> QED
    BY <1>1, <2>2, <2>3, <2>4, Polls DEF Inv, Typed
<1> QED
  BY <1>1, Always, PTL

\* Every transfer goes to the address the keyboard then has: the first list sets it,
\* at its end, and no other list is sent to the old one.
THEOREM AddressedRight == Spec => []AddressKnown
<1>1. ASSUME Inv PROVE AddressKnown
  <2> SUFFICES ASSUME at # 0 PROVE xfers[done + 1].addr = dev_addr
    BY DEF AddressKnown
  <2>1. /\ xfers[done + 1].addr = IF step = 1 THEN 0 ELSE 2
        /\ done \in 0 .. 9 /\ done + 1 <= Size
    BY <1>1, AtDescriptor DEF Shape
  <2>2. ASSUME step = 1 PROVE done < 2
    <3>1. Size = 2
      BY <2>2, SetAddressSize DEF Size
    <3> QED
      BY <2>1, <3>1
  <2> QED
    BY <1>1, <2>1, <2>2 DEF Inv, AddressGiven
<1> QED
  BY <1>1, Always, PTL

\* Every packet has room in the buffer it is sent to.
THEOREM PacketsFit == Spec => []RoomEnough
<1>1. ASSUME Inv PROVE RoomEnough
  BY <1>1, PacketFits DEF RoomEnough, IsData
<1> QED
  BY <1>1, Always, PTL

\* The bytes of the answers lie where main reads them.
THEOREM AnswersInPlace == Spec => []AnswersReadable
<1>1. ASSUME Inv PROVE AnswersReadable
  <2> SUFFICES ASSUME at = 0, done # 0
               PROVE  /\ list = UsbGetConfigDesc2 =>
                            /\ length.Config > 16 => mem[\h56C] = <<"Config", 16>>
                            /\ length.Config > 27 => mem[\h577] = <<"Config", 27>>
                      /\ step >= FirstPoll => \A i \in 2 .. 5 : mem[\h51C + i] = <<"Keys", i>>
    BY DEF AnswersReadable
  <2>1. done = Size /\ Shape
    BY <1>1, ListShape DEF Inv, Typed, InOrder
  <2>2. list = UsbGetConfigDesc2 => step = 5 /\ done = 7
    BY <1>1, <2>1, OnlyConfig, ConfigBuffers DEF Inv, Typed, Size
  <2>3. step >= FirstPoll => done = 1
    BY <2>1 DEF Shape
  <2> QED
    BY <1>1, <2>2, <2>3 DEF Inv, InPlace
<1> QED
  BY <1>1, Always, PTL
=============================================================================
