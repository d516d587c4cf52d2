---------------------------- MODULE UsbHost_proof ----------------------------
(***************************************************************************)
(* The enumeration goes in order, in every surrounding.  What the driver   *)
(* knows of the keyboard it knows from one byte in the controller's        *)
(* memory: if the first transfer of the list at hand has succeeded, the    *)
(* keyboard was in a state to accept it, and only a reset of the bus,      *)
(* before which the driver starts over, takes it back to one before.       *)
(*                                                                         *)
(* In calm surroundings driver and controller take turns, every list       *)
(* succeeds at once, and each step brings the next poll nearer.            *)
(***************************************************************************)
EXTENDS UsbHost, TLAPS

BeforeLists ==
    {"InitSie", "AwaitAnswer", "BusReset", "Detect", "DetectAgain", "AwaitDevice"}
Writing == {"Point", "PointAgain"}
InList == Writing \cup {"Check", "Resend", "Sleep", "WaitRead", "WaitClear"}
AfterDone == {"Control", "RetryRead", "RetryClear", "RetryWait", "RetryControl"}
AfterPoll == {"ReadKeys", "Presence", "PresenceAgain", "Removed"}

\* A reset of the bus meets the driver at the first list, and the controller at rest
\* until that list is pointed to.
Idle == stage = "idle" /\ pending = "none"
StartsOver == pc \in BeforeLists => step = SetAddress
Starting == pc \in BeforeLists \cup {"Send", "Point"} /\ step = SetAddress
FreshStart == Starting => Idle /\ "Done" \notin msg
\* Some places in the code are those of one list only.
NoPollJudged == pc \in AfterDone => step # Poll
StepKnown ==
    /\ pc \in AfterPoll => step = Poll
    /\ pc = "Endpoint" => step = SetConfig
\* The list at hand is in memory, written over itself or the one before.
ListInMemory == pc \in InList \cup AfterDone \cup AfterPoll => mem = step
ListBefore ==
    /\ pc \in {"Send", "Endpoint"} /\ step # SetAddress => mem \in {step - 1, step}
    /\ pc = "Point" /\ step # SetAddress => under \in {mem - 1, mem}
    /\ pc # "Point" => under = mem
\* A mixture is of neighbours: of two lists if the control byte is already that of an
\* earlier run of the newer, of three at most.
SeenNear ==
    stage = "setup" =>
        /\ ~torn
        /\ seen \subseteq mem - 2 .. mem
        /\ control = "clean" \/ mem # step => seen \subseteq mem - 1 .. mem
\* The first list is never mixed with another, and once a message tells of its end, the
\* keyboard is no longer one to be addressed.
FirstAlone ==
    step = SetAddress =>
        /\ pending # "descriptor"
        /\ ~Idle => mem = SetAddress /\ under = SetAddress
        /\ stage = "setup" => seen = {SetAddress}
        /\ stage = "data" /\ dev = "default" => running = SetAddress /\ ~torn
ToldOfEnd == "Done" \in msg \/ (pc = "WaitClear" /\ "Done" \in val) \/ pc \in AfterDone
AddressTaken == step # SetAddress \/ ToldOfEnd => dev # "default"
\* Success means that the keyboard has accepted one of the last three lists.
CleanMeansAccepted ==
    control = "clean" /\ mem = step /\ step > SetConfig + 2 => dev # "addressed"

Inv ==
    /\ TypeOK
    /\ StartsOver /\ FreshStart /\ NoPollJudged /\ StepKnown /\ ListInMemory /\ ListBefore
    /\ SeenNear /\ FirstAlone /\ AddressTaken /\ CleanMeansAccepted
    /\ EnumeratedInOrder

LEMMA InitInv == Init => Inv
<1> SUFFICES ASSUME Init PROVE Inv
  OBVIOUS
<1> USE DEF Init
<1>1. TypeOK
  <2>1. step \in Lists /\ SetAddress = 1
    BY DEF Lists, SetAddress, Poll
  <2>2. pc \in Pcs
    BY DEF Pcs
  <2> QED
    BY <2>1, <2>2, UsbAssumption, Zenon DEF TypeOK
<1>2. /\ StartsOver /\ FreshStart /\ NoPollJudged /\ StepKnown /\ ListInMemory /\ ListBefore
      /\ SeenNear /\ FirstAlone /\ AddressTaken /\ CleanMeansAccepted
      /\ EnumeratedInOrder
  BY DEF StartsOver, FreshStart, Starting, NoPollJudged, StepKnown, ListInMemory,
         ListBefore, SeenNear, FirstAlone, AddressTaken, ToldOfEnd, CleanMeansAccepted,
         EnumeratedInOrder, Idle, BeforeLists, InList, Writing, AfterDone, AfterPoll,
         Polling, SetAddress, SetConfig, DeviceDesc1, Poll
<1> QED
  BY <1>1, <1>2 DEF Inv
-----------------------------------------------------------------------------
\* Each variable keeps its type.  An action of the driver leads to a position in the
\* code.
LEMMA PcNext ==
    ASSUME pc \in Pcs, Next
    PROVE  pc' \in Pcs
<1> USE DEF Pcs, Goto
<1>1. CASE SoftReset \/ InitSie \/ AwaitAnswer \/ BusReset \/ Detect
  BY <1>1 DEF SoftReset, InitSie, AwaitAnswer, BusReset, Detect
<1>2. CASE Send \/ Check \/ Resend \/ Point \/ Sleep \/ WaitRead
  BY <1>2 DEF Send, Check, Resend, Point, Sleep, WaitRead
<1>3. CASE WaitClear \/ Control \/ Endpoint
  BY <1>3 DEF WaitClear, AfterList, Control, Endpoint, Advance
<1>4. CASE RetryRead \/ RetryClear \/ RetryWait \/ RetryControl
  BY <1>4 DEF RetryRead, RetryClear, RetryWait, RetryControl, Advance
<1>5. CASE ReadKeys \/ Presence
  BY <1>5 DEF ReadKeys, Presence
<1>6. CASE Chip
  BY <1>6 DEF Chip, ChipStart, ChipSetup, ChipFinish, ChipAnswer, driver
<1>7. CASE PlugIn \/ Unplug \/ Type
  BY <1>7 DEF PlugIn, Unplug, Type, driver
<1> QED
  BY <1>1, <1>2, <1>3, <1>4, <1>5, <1>6, <1>7 DEF Next, Driver

LEMMA StepNext ==
    ASSUME step \in Lists, NoPollJudged, Next
    PROVE  step' \in Lists
<1> USE DEF Lists, SetAddress, Poll
<1>1. step + 1 \in Lists \/ pc \notin AfterDone
  BY DEF NoPollJudged
<1>2. Advance => step + 1 = step'
  BY DEF Advance
<1>3. CASE Control \/ RetryControl
  BY <1>1, <1>2, <1>3 DEF Control, RetryControl, AfterDone
<1>4. CASE SoftReset
  BY <1>4 DEF SoftReset
<1>5. CASE ~(Control \/ RetryControl \/ SoftReset)
  <2>1. step' = step
    BY <1>5 DEF Next, Driver, InitSie, AwaitAnswer, BusReset, Detect, Send, Check, Resend,
           Point, Sleep, WaitRead, WaitClear, Endpoint, RetryRead, RetryClear, RetryWait,
           ReadKeys, Presence, Chip, ChipStart, ChipSetup, ChipFinish, ChipAnswer, PlugIn,
           Unplug, Type, driver
  <2> QED
    BY <2>1
<1> QED
  BY <1>3, <1>4, <1>5

\* The driver's other variables, the list in memory and the keyboard.
LEMMA TypeNext ==
    ASSUME TypeOK, NoPollJudged, Next
    PROVE  TypeOK'
<1>1. pc' \in Pcs /\ step' \in Lists
  BY PcNext, StepNext DEF TypeOK
<1>2. world' \in Worlds
  BY DEF Next, TypeOK
<1>a. step \in Lists \cup {0}
  BY DEF TypeOK
<1> USE <1>1, <1>2 DEF TypeOK
<1>3. CASE SoftReset
  BY <1>3, Zenon DEF SoftReset, keyboard
<1>4. CASE \/ AwaitAnswer \/ BusReset \/ Detect \/ Check \/ Sleep \/ Control \/ RetryWait
           \/ RetryControl
  <2>1. UNCHANGED <<val, port, chip, held>>
    BY <1>4 DEF AwaitAnswer, BusReset, Detect, Check, Sleep, Control, RetryWait,
                RetryControl, keyboard
  <2>2. dev' = dev \/ dev' = "default"
    BY <1>4 DEF AwaitAnswer, BusReset, Detect, Check, Sleep, Control, RetryWait,
                RetryControl, keyboard
  <2> QED
    BY <2>1, <2>2, SMT DEF chip
<1>5. CASE Send \/ Resend
  <2>1. seen' \subseteq Lists \cup {0}
    BY <1>5, Zenon DEF Send, Resend, WriteList
  <2>2. /\ torn' \in BOOLEAN /\ report' \in {report, Junk}
        /\ under' = mem /\ mem' = step /\ control' = "active"
    BY <1>5, Zenon DEF Send, Resend, WriteList
  <2>3. UNCHANGED <<val, port, pending, stage, running, msg, flag, mailbox, keyboard>>
    BY <1>5, Zenon DEF Send, Resend
  <2> QED
    BY <1>a, <2>1, <2>2, <2>3, SMT DEF keyboard
<1>6. CASE \/ InitSie \/ Point \/ WaitRead \/ WaitClear \/ RetryRead \/ RetryClear
           \/ Endpoint
  <2>1. UNCHANGED <<port, stage, seen, running, torn, mem, control, report, keyboard>>
    BY <1>6 DEF InitSie, Point, WaitRead, WaitClear, RetryRead, RetryClear, Endpoint
  <2>2. pending' \in {pending, "list", "descriptor"} /\ flag' \in {flag, FALSE}
    BY <1>6, Zenon DEF InitSie, Point, WaitRead, WaitClear, RetryRead, RetryClear, Endpoint
  <2>3. /\ val' \in {val, msg} /\ msg' \in {msg, {}}
        /\ under' \in {under, mem} /\ mailbox' \in {mailbox, "command"}
    BY <1>6 DEF InitSie, Point, WaitRead, WaitClear, RetryRead, RetryClear, Endpoint
  <2> QED
    <3>1. flag' \in BOOLEAN
      BY <2>2, Zenon
    <3>2. pending' \in {"none", "list", "descriptor"}
      BY <2>2, Zenon
    <3> QED
      BY <2>1, <2>3, <3>1, <3>2, SMT DEF keyboard
<1>7. CASE ReadKeys \/ Presence
  <2>1. UNCHANGED <<val, chip, keyboard>> /\ port' \in {port, report}
    BY <1>7 DEF ReadKeys, Presence
  <2> QED
    BY <2>1, SMT DEF chip, keyboard
<1>8. CASE ChipStart
  <2>1. seen' \subseteq Lists \cup {0} /\ stage' \in {"setup", "data"}
    BY <1>8 DEF ChipStart
  <2> QED
    BY <1>8, <2>1, Zenon DEF ChipStart, driver, keyboard
<1>9. CASE ChipSetup
  <2>1. UNCHANGED <<driver, pending, under, mem, report, msg, flag, mailbox, keyboard>>
    BY <1>9, Zenon DEF ChipSetup
  <2>2. running' \in Lists \cup {0} /\ control' \in {"active", "clean", "other"}
    BY <1>9 DEF ChipSetup, SetupWhole, SetupMixed
  <2>3. torn' \in BOOLEAN /\ stage' = "data" /\ seen' = {}
    BY <1>9, Zenon DEF ChipSetup, SetupWhole, SetupMixed
  <2> QED
    BY <2>1, <2>2, <2>3, Zenon DEF driver, keyboard
<1>10. CASE ChipFinish
  <2>1. UNCHANGED <<driver, pending, seen, running, torn, under, mem, control, mailbox,
                    held>>
    BY <1>10, Zenon DEF ChipFinish
  <2>2. /\ dev' \in {dev, "addressed", "configured"} /\ report' \in {report, held}
        /\ stage' = "idle" /\ msg' = msg \cup {"Done"}
    BY <1>10 DEF ChipFinish, Effect
  <2>3. flag' \in BOOLEAN
    BY <1>10, Zenon DEF ChipFinish
  <2> QED
    BY <2>1, <2>2, <2>3, SMT DEF driver
<1>11. CASE ChipAnswer
  <2>1. /\ UNCHANGED <<driver, pending, stage, seen, running, torn, under, mem, control,
                       report, msg, flag, keyboard>>
        /\ mailbox' \in {"ack", "refused"}
    BY <1>11 DEF ChipAnswer
  <2> QED
    BY <2>1, SMT DEF driver, keyboard
<1>12. CASE PlugIn \/ Unplug
  <2>1. /\ UNCHANGED <<driver, pending, stage, seen, running, torn, under, mem, control,
                       report, mailbox, held>>
        /\ dev' \in {"attached", "absent"}
    BY <1>12 DEF PlugIn, Unplug
  <2>2. msg' \in {msg, msg \cup {"Change"}}
    BY <1>12 DEF PlugIn, Unplug, Announce
  <2>3. flag' \in BOOLEAN
    BY <1>12, Zenon DEF PlugIn, Unplug, Announce
  <2> QED
    BY <2>1, <2>2, <2>3, SMT DEF driver
<1>13. CASE Type
  <2>1. UNCHANGED <<driver, chip, dev>> /\ held' \in Reports
    BY <1>13 DEF Type
  <2> QED
    BY <2>1, SMT DEF driver, chip
<1> QED
  BY <1>3, <1>4, <1>5, <1>6, <1>7, <1>8, <1>9, <1>10, <1>11, <1>12, <1>13
     DEF Next, Driver, Chip
-----------------------------------------------------------------------------
\* Only a reset of the bus makes a keyboard one to be addressed, and only one such is
\* given an address.
LEMMA DeviceNext ==
    ASSUME Next
    PROVE  /\ dev' = "default" => dev = "default" \/ pc \in BeforeLists
           /\ dev' = "addressed" => dev \in {"default", "addressed"}
<1>1. CASE BusReset
  BY <1>1 DEF BusReset, Goto, BeforeLists, Present
<1>2. CASE ChipFinish
  BY <1>2 DEF ChipFinish, Effect
<1>3. CASE PlugIn \/ Unplug
  BY <1>3 DEF PlugIn, Unplug
<1>4. CASE ~(BusReset \/ ChipFinish \/ PlugIn \/ Unplug)
  <2>1. dev' = dev
    BY <1>4 DEF Next, Driver, SoftReset, InitSie, AwaitAnswer, Detect, Send, Check,
           Resend, Point, Sleep, WaitRead, WaitClear, Control, Endpoint, RetryRead,
           RetryClear, RetryWait, RetryControl, ReadKeys, Presence, Chip, ChipStart,
           ChipSetup, ChipAnswer, Type, keyboard
  <2> QED
    BY <2>1
<1> QED
  BY <1>1, <1>2, <1>3, <1>4

\* The list at hand changes only with the reset, and after a transfer that succeeded.
LEMMA StepChanges ==
    ASSUME Next
    PROVE  \/ step' = step
           \/ SoftReset /\ step' = SetAddress /\ pc' = "InitSie" /\ pc = "HotPlug"
           \/ /\ step' = step + 1
              /\ pc' = IF step = ConfigDesc2 THEN "Endpoint" ELSE "Send"
              /\ pc \in AfterDone /\ Succeeded
              /\ UNCHANGED <<dev, mem, control>>
<1>1. CASE SoftReset
  BY <1>1 DEF SoftReset, Goto
<1>2. CASE Control \/ RetryControl
  BY <1>2 DEF Control, RetryControl, Advance, AfterDone, chip, keyboard
<1>3. CASE ~(Control \/ RetryControl \/ SoftReset)
  BY <1>3 DEF Next, Driver, InitSie, AwaitAnswer, BusReset, Detect, Send, Check, Resend,
         Point, Sleep, WaitRead, WaitClear, Endpoint, RetryRead, RetryClear, RetryWait,
         ReadKeys, Presence, Chip, ChipStart, ChipSetup, ChipFinish, ChipAnswer, PlugIn,
         Unplug, Type, driver
<1> QED
  BY <1>1, <1>2, <1>3

\* The driver comes to the detection by way of the reset, to the waits by writing the
\* list, to the look at its control byte, but for polls, by way of the waits, and to the
\* presence of the keyboard by way of a poll.
LEMMA PcChanges ==
    ASSUME Next
    PROVE  /\ pc' \in BeforeLists => step' = SetAddress \/ pc \in BeforeLists
           /\ pc' \in InList \cup AfterDone \cup AfterPoll =>
                 \/ mem' = step
                 \/ pc \in InList \cup AfterDone \cup AfterPoll /\ mem' = mem
           /\ pc' \in AfterDone => step' = step /\ (step # Poll \/ pc \in AfterDone)
           /\ pc' \in AfterPoll => step' = step /\ (step = Poll \/ pc \in AfterPoll)
           /\ pc' = "Endpoint" =>
                 \/ step' = step /\ pc = "Endpoint"
                 \/ step = ConfigDesc2 /\ step' = step + 1
<1> USE DEF BeforeLists, InList, Writing, AfterDone, AfterPoll, Goto
<1>1. CASE SoftReset \/ InitSie \/ AwaitAnswer \/ BusReset \/ Detect
  BY <1>1 DEF SoftReset, InitSie, AwaitAnswer, BusReset, Detect
<1>2. CASE Send \/ Resend
  BY <1>2 DEF Send, Resend, WriteList
<1>3. CASE Point \/ Check \/ Sleep
  BY <1>3 DEF Point, Check, Sleep, chip
<1>4. CASE WaitRead \/ WaitClear
  BY <1>4 DEF WaitRead, WaitClear, AfterList
<1>5. CASE Control \/ Endpoint
  BY <1>5 DEF Control, Endpoint, Advance, chip
<1>6. CASE RetryRead \/ RetryClear \/ RetryWait \/ RetryControl
  BY <1>6 DEF RetryRead, RetryClear, RetryWait, RetryControl, Advance, chip
<1>7. CASE ReadKeys \/ Presence
  BY <1>7 DEF ReadKeys, Presence, chip
<1>8. CASE Chip \/ PlugIn \/ Unplug \/ Type
  <2>1. UNCHANGED <<pc, step, mem>>
    BY <1>8 DEF Chip, ChipStart, ChipSetup, ChipFinish, ChipAnswer, PlugIn, Unplug, Type,
           driver, chip
  <2> QED
    BY <2>1
<1> QED
  BY <1>1, <1>2, <1>3, <1>4, <1>5, <1>6, <1>7, <1>8 DEF Next, Driver

\* The driver comes to the writing of the first list from the detection only, and writes
\* no pointer on its way there.
LEMMA SourceOfFirst ==
    ASSUME Next, Starting', StepKnown, step \in 1 .. 10
    PROVE  (SoftReset \/ Starting) /\ ~Point /\ ~Endpoint
<1> USE DEF Starting, BeforeLists, Goto, SetAddress, Poll, SetConfig, AfterPoll, StepKnown
<1>1. CASE SoftReset \/ InitSie \/ AwaitAnswer \/ BusReset \/ Detect
  BY <1>1 DEF SoftReset, InitSie, AwaitAnswer, BusReset, Detect, Point, Endpoint
<1>2. CASE Send \/ Check \/ Resend \/ Point \/ Sleep \/ WaitRead
  BY <1>2 DEF Send, Check, Resend, Point, Sleep, WaitRead, Endpoint
<1>3. CASE WaitClear \/ Control \/ Endpoint
  BY <1>3 DEF WaitClear, AfterList, Control, Endpoint, Advance, Point
<1>4. CASE RetryRead \/ RetryClear \/ RetryWait \/ RetryControl
  BY <1>4 DEF RetryRead, RetryClear, RetryWait, RetryControl, Advance, Point, Endpoint
<1>5. CASE ReadKeys \/ Presence
  BY <1>5 DEF ReadKeys, Presence, Point, Endpoint
<1>6. CASE Chip \/ PlugIn \/ Unplug \/ Type
  <2>1. UNCHANGED <<pc, step>>
    BY <1>6 DEF Chip, ChipStart, ChipSetup, ChipFinish, ChipAnswer, PlugIn, Unplug, Type,
           driver
  <2> QED
    BY <2>1 DEF Point, Endpoint
<1> QED
  BY <1>1, <1>2, <1>3, <1>4, <1>5, <1>6 DEF Next, Driver

\* A control byte becomes clean only by a transfer that the keyboard accepts, of a list
\* of which the controller has found words.
LEMMA ControlChanges ==
    ASSUME Next, control' = "clean"
    PROVE  \/ UNCHANGED <<control, mem>>
           \/ /\ stage = "setup" /\ UNCHANGED <<mem, dev, step>>
              /\ \E list \in seen \cup {mem} : Accepts(list)
<1>1. CASE Send \/ Resend
  BY <1>1 DEF Send, Resend, WriteList
<1>2. CASE ChipSetup
  <2>1. stage = "setup" /\ UNCHANGED <<mem, dev, step>>
    BY <1>2 DEF ChipSetup, driver, keyboard
  <2>2. CASE SetupWhole
    BY <2>1, <2>2 DEF SetupWhole
  <2>3. CASE SetupMixed
    BY <2>1, <2>3 DEF SetupMixed
  <2> QED
    BY <1>2, <2>2, <2>3 DEF ChipSetup
<1>3. CASE ~(Send \/ Resend \/ ChipSetup)
  BY <1>3 DEF Next, Driver, SoftReset, InitSie, AwaitAnswer, BusReset, Detect, Check, Point,
         Sleep, WaitRead, WaitClear, Control, Endpoint, RetryRead, RetryClear, RetryWait,
         RetryControl, ReadKeys, Presence, Chip, ChipStart, ChipFinish, ChipAnswer, PlugIn,
         Unplug, Type, chip
<1> QED
  BY <1>1, <1>2, <1>3

\* The steps that touch the lists in memory or their execution.
Touching ==
    \/ SoftReset \/ Send \/ Resend \/ Point \/ Endpoint
    \/ ChipStart \/ ChipSetup \/ ChipFinish
LEMMA Untouched ==
    ASSUME Next, ~Touching
    PROVE  UNCHANGED <<pending, stage, seen, running, torn, under, mem, control>>
BY DEF Touching, Next, Driver, InitSie, AwaitAnswer, BusReset, Detect, Check, Sleep,
       WaitRead, WaitClear, Control, RetryRead, RetryClear, RetryWait, RetryControl,
       ReadKeys, Presence, Chip, ChipAnswer, PlugIn, Unplug, Type, chip

\* The controller tells of an end only by ending a list, and the driver learns of it by
\* reading the message.
LEMMA TellingChanges ==
    ASSUME Next, ToldOfEnd'
    PROVE  ToldOfEnd \/ ChipFinish
<1> USE DEF ToldOfEnd, AfterDone, Goto
<1>1. CASE SoftReset \/ InitSie \/ AwaitAnswer \/ BusReset \/ Detect
  BY <1>1 DEF SoftReset, InitSie, AwaitAnswer, BusReset, Detect, chip
<1>2. CASE Send \/ Check \/ Resend \/ Point \/ Sleep
  BY <1>2 DEF Send, Check, Resend, Point, Sleep, chip
<1>3. CASE WaitRead \/ WaitClear
  BY <1>3 DEF WaitRead, WaitClear, AfterList
<1>4. CASE Control \/ Endpoint
  BY <1>4 DEF Control, Endpoint, Advance, chip
<1>5. CASE RetryRead \/ RetryClear \/ RetryWait \/ RetryControl
  BY <1>5 DEF RetryRead, RetryClear, RetryWait, RetryControl, Advance, chip
<1>6. CASE ReadKeys \/ Presence
  BY <1>6 DEF ReadKeys, Presence, chip
<1>7. CASE ChipStart \/ ChipSetup \/ ChipAnswer \/ Type
  BY <1>7 DEF ChipStart, ChipSetup, ChipAnswer, Type, driver, chip
<1>8. CASE PlugIn \/ Unplug
  BY <1>8 DEF PlugIn, Unplug, Announce, driver
<1> QED
  BY <1>1, <1>2, <1>3, <1>4, <1>5, <1>6, <1>7, <1>8 DEF Next, Driver, Chip

-----------------------------------------------------------------------------
(* Each part of the invariant is kept.                                      *)

LEMMA FreshStartNext ==
    ASSUME Inv, Next
    PROVE  FreshStart'
<1> SUFFICES ASSUME Starting' PROVE Idle' /\ "Done" \notin msg'
  BY DEF FreshStart
<1>1. CASE SoftReset
  BY <1>1 DEF SoftReset, Idle
<1>2. CASE ~SoftReset
  <2>1. Starting /\ ~Point /\ ~Endpoint /\ step \in 1 .. 10
    BY <1>2, SourceOfFirst DEF Inv, TypeOK, Lists, SetAddress, Poll
  <2>2. stage = "idle" /\ pending = "none" /\ "Done" \notin msg
    BY <2>1 DEF Inv, FreshStart, Idle
  <2>3. pc \in BeforeLists \cup {"Send", "Point"}
    BY <2>1 DEF Starting
  <2>4. UNCHANGED <<pending, stage>> /\ ~ChipFinish
    <3>1. CASE Send \/ Resend
      BY <2>2, <3>1 DEF Send, Resend, ChipFinish
    <3>2. CASE ChipStart \/ ChipSetup \/ ChipFinish
      BY <2>2, <3>2 DEF ChipStart, ChipSetup, ChipFinish
    <3> QED
      BY <1>2, <2>1, <3>1, <3>2, Untouched DEF Touching
  <2>5. "Done" \notin msg'
    <3>1. ~ToldOfEnd
      BY <2>2, <2>3 DEF ToldOfEnd, AfterDone, BeforeLists
    <3> QED
      BY <2>4, <3>1, TellingChanges DEF ToldOfEnd
  <2> QED
    BY <2>2, <2>4, <2>5 DEF Idle
<1> QED
  BY <1>1, <1>2

LEMMA ListBeforeNext ==
    ASSUME Inv, Next
    PROVE  ListBefore'
<1> USE DEF SetAddress, Goto
<1>0. step \in 1 .. 10
  BY DEF Inv, TypeOK, Lists, Poll
<1>a. /\ ListBefore /\ ListInMemory /\ StepKnown /\ StartsOver
  BY DEF Inv
<1>1. CASE Send
  <2>1. /\ pc = "Send" /\ pc' = "Point" /\ step' = step /\ under' = mem /\ mem' = step
    BY <1>1 DEF Send, WriteList
  <2> QED
    BY <1>0, <1>a, <2>1 DEF ListBefore
<1>2. CASE Resend
  <2>1. pc = "Resend" /\ pc' = "PointAgain" /\ under' = mem /\ mem' = step
    BY <1>2 DEF Resend, WriteList
  <2> QED
    BY <1>a, <2>1 DEF ListBefore, ListInMemory, InList
<1>3. CASE Point
  <2>1. pc' \in {"Check", "Sleep"} /\ under' = mem /\ mem' = mem
    BY <1>3 DEF Point
  <2> QED
    BY <2>1 DEF ListBefore
<1>4. CASE ~(Send \/ Resend \/ Point)
  <2>1. UNCHANGED <<under, mem>>
    <3>1. CASE SoftReset \/ Endpoint \/ ChipStart \/ ChipSetup \/ ChipFinish
      BY <3>1 DEF SoftReset, Endpoint, ChipStart, ChipSetup, ChipFinish
    <3> QED
      BY <1>4, <3>1, Untouched DEF Touching
  <2>2. /\ pc' = "Point" <=> pc = "Point"
        /\ pc' \in {"Point", "Endpoint"} => step' = step \/ pc' = "Endpoint"
        /\ pc' \in {"Send", "Endpoint"} =>
              \/ pc \in {"Send", "Endpoint"} /\ step' = step
              \/ pc \in AfterDone /\ step' = step + 1
              \/ pc \in AfterPoll /\ step' = step
              \/ pc \in BeforeLists /\ step' = step
    <3> USE DEF AfterDone, AfterPoll, BeforeLists
    <3>1. CASE SoftReset \/ InitSie \/ AwaitAnswer \/ BusReset \/ Detect
      BY <3>1 DEF SoftReset, InitSie, AwaitAnswer, BusReset, Detect
    <3>2. CASE Check \/ Sleep \/ WaitRead \/ WaitClear
      BY <3>2 DEF Check, Sleep, WaitRead, WaitClear, AfterList
    <3>3. CASE Control \/ Endpoint
      BY <3>3 DEF Control, Endpoint, Advance
    <3>4. CASE RetryRead \/ RetryClear \/ RetryWait \/ RetryControl
      BY <3>4 DEF RetryRead, RetryClear, RetryWait, RetryControl, Advance
    <3>5. CASE ReadKeys \/ Presence
      BY <3>5 DEF ReadKeys, Presence
    <3>6. CASE Chip \/ PlugIn \/ Unplug \/ Type
      BY <3>6 DEF Chip, ChipStart, ChipSetup, ChipFinish, ChipAnswer, PlugIn, Unplug, Type,
             driver
    <3> QED
      BY <1>4, <3>1, <3>2, <3>3, <3>4, <3>5, <3>6 DEF Next, Driver
  <2> QED
    BY <1>0, <1>a, <2>1, <2>2 DEF ListBefore, ListInMemory, StartsOver
<1> QED
  BY <1>1, <1>2, <1>3, <1>4

LEMMA SeenNearNext ==
    ASSUME Inv, Next
    PROVE  SeenNear'
<1> SUFFICES ASSUME stage' = "setup"
             PROVE  /\ ~torn'
                    /\ seen' \subseteq mem' - 2 .. mem'
                    /\ control' = "clean" \/ mem' # step' =>
                          seen' \subseteq mem' - 1 .. mem'
  BY DEF SeenNear
<1>0. /\ step \in 1 .. 10 /\ step' \in 1 .. 10 /\ mem \in 0 .. 10
      /\ SeenNear /\ ListBefore /\ ListInMemory /\ FreshStart
  BY TypeNext DEF Inv, TypeOK, Lists, SetAddress, Poll
<1>1. CASE Send \/ Resend
  <2>1. /\ pc \in {"Send", "Resend"} /\ stage = "setup" /\ step' = step
        /\ mem' = step /\ control' = "active" /\ seen' = seen \cup {step}
        /\ torn' = (torn \/ (stage = "data" /\ running # step))
    BY <1>1 DEF Send, Resend, WriteList, Goto
  <2>2. ~torn'
    BY <1>0, <2>1 DEF SeenNear
  <2>3. CASE mem = step
    BY <1>0, <2>1, <2>2, <2>3 DEF SeenNear
  <2>4. CASE mem # step
    <3>1. pc = "Send" /\ step # SetAddress
      BY <1>0, <2>1, <2>4 DEF ListInMemory, InList, FreshStart, Starting, Idle
    <3>2. mem = step - 1 /\ seen \subseteq mem - 1 .. mem
      BY <1>0, <2>1, <2>4, <3>1 DEF ListBefore, SeenNear
    <3>3. seen' \subseteq step - 2 .. step
      BY <1>0, <2>1, <3>2
    <3> QED
      BY <2>1, <2>2, <3>3
  <2> QED
    BY <2>3, <2>4
<1>2. CASE ChipStart
  <2>1. pending = "list" /\ seen' = {under, mem} /\ mem' = mem /\ ~torn'
    BY <1>2 DEF ChipStart
  <2>2. ~Starting
    BY <1>0, <2>1 DEF FreshStart, Idle
  <2>3. under \in {mem - 1, mem}
    BY <1>0, <2>2 DEF Starting, ListBefore
  <2> QED
    BY <1>0, <2>1, <2>3
<1>3. CASE ~(Send \/ Resend \/ ChipStart)
  <2>1. stage = "setup" /\ UNCHANGED <<seen, torn, mem, control>>
    <3>1. CASE SoftReset \/ ChipSetup \/ ChipFinish
      BY <3>1 DEF SoftReset, ChipSetup, ChipFinish
    <3>2. CASE Point \/ Endpoint
      BY <3>2 DEF Point, Endpoint
    <3> QED
      BY <1>3, <3>1, <3>2, Untouched DEF Touching
  <2>2. CASE step' = step
    BY <1>0, <2>1, <2>2 DEF SeenNear
  <2>3. CASE step' # step
    <3>1. control = "clean"
      BY <2>1, <2>3, StepChanges DEF Succeeded, SoftReset
    <3> QED
      BY <1>0, <2>1, <3>1 DEF SeenNear
  <2> QED
    BY <2>2, <2>3
<1> QED
  BY <1>1, <1>2, <1>3

LEMMA FirstAloneNext ==
    ASSUME Inv, Next
    PROVE  FirstAlone'
<1> SUFFICES ASSUME step' = SetAddress
             PROVE  /\ pending' # "descriptor"
                    /\ ~Idle' => mem' = SetAddress /\ under' = SetAddress
                    /\ stage' = "setup" => seen' = {SetAddress}
                    /\ stage' = "data" /\ dev' = "default" =>
                          running' = SetAddress /\ ~torn'
  BY DEF FirstAlone
<1> USE DEF Idle
<1>1. CASE SoftReset
  BY <1>1 DEF SoftReset
<1>2. CASE ~SoftReset
  <2>0. step = SetAddress
    <3>1. step \in 1 .. 10
      BY DEF Inv, TypeOK, Lists, SetAddress, Poll
    <3> QED
      BY <1>2, <3>1, StepChanges DEF SetAddress
  <2>a. /\ FirstAlone /\ SeenNear /\ ListBefore /\ ListInMemory /\ FreshStart /\ StepKnown
    BY DEF Inv
  <2>1. CASE Send
    <3>1. stage = "idle" /\ pending = "none"
      BY <2>0, <2>1, <2>a DEF Send, Goto, FreshStart, Starting
    <3> QED
      BY <2>1, <3>1 DEF Send
  <2>2. CASE Resend
    <3>1. mem = SetAddress
      BY <2>0, <2>2, <2>a DEF Resend, Goto, ListInMemory, InList
    <3>2. stage = "data" /\ dev = "default" => ~torn'
      BY <2>0, <2>2, <2>a DEF Resend, WriteList, FirstAlone
    <3>3. /\ mem' = SetAddress /\ under' = SetAddress
          /\ UNCHANGED <<pending, stage, running, dev>>
          /\ stage = "setup" => seen' = seen \cup {SetAddress}
      BY <2>0, <2>2, <3>1 DEF Resend, WriteList, keyboard
    <3> QED
      BY <2>0, <2>a, <3>2, <3>3 DEF FirstAlone
  <2>3. CASE Point
    <3>1. mem = SetAddress
      BY <2>0, <2>3, <2>a DEF Point, Goto, ListInMemory, InList, Writing
    <3>2. /\ mem' = SetAddress /\ under' = SetAddress /\ pending' = "list"
          /\ UNCHANGED <<stage, seen, running, torn, dev>>
      BY <2>3, <3>1 DEF Point, keyboard
    <3> QED
      BY <2>0, <2>a, <3>2 DEF FirstAlone
  <2>4. CASE Endpoint
    BY <2>0, <2>4, <2>a DEF Endpoint, Goto, StepKnown, SetAddress, SetConfig
  <2>5. CASE ChipStart
    <3>1. pending = "list" /\ mem = SetAddress /\ under = SetAddress
      BY <2>0, <2>5, <2>a, TypeNext DEF ChipStart, FirstAlone, Inv, TypeOK
    <3> QED
      BY <2>5, <3>1 DEF ChipStart
  <2>6. CASE ChipSetup
    <3>1. /\ mem = SetAddress /\ under = SetAddress /\ seen = {mem} /\ ~torn
          /\ pending # "descriptor"
      BY <2>0, <2>6, <2>a DEF ChipSetup, FirstAlone, SeenNear
    <3>2. dev' = dev /\ stage' = "data" /\ UNCHANGED <<pending, under, mem>> /\ SetupWhole
      BY <2>6, <3>1 DEF ChipSetup, keyboard
    <3>3. dev = "default" => running' = SetAddress /\ ~torn'
      BY <3>1, <3>2 DEF SetupWhole, Accepts
    <3> QED
      BY <3>1, <3>2, <3>3
  <2>7. CASE ChipFinish
    BY <2>0, <2>7, <2>a DEF ChipFinish, FirstAlone
  <2>8. CASE ~Touching
    <3>1. UNCHANGED <<pending, stage, seen, running, torn, under, mem>>
      BY <2>8, Untouched
    <3>2. dev' = "default" => dev = "default" \/ stage = "idle"
      BY <2>0, <2>a, DeviceNext DEF FreshStart, Starting
    <3> QED
      BY <2>0, <2>a, <3>1, <3>2 DEF FirstAlone
  <2> QED
    BY <1>2, <2>1, <2>2, <2>3, <2>4, <2>5, <2>6, <2>7, <2>8 DEF Touching
<1> QED
  BY <1>1, <1>2

LEMMA AddressTakenNext ==
    ASSUME Inv, Next
    PROVE  AddressTaken'
<1> SUFFICES ASSUME step' # SetAddress \/ ToldOfEnd', dev' = "default"
             PROVE  FALSE
  BY DEF AddressTaken
<1>a. /\ FirstAlone /\ AddressTaken /\ FreshStart /\ StartsOver
  BY DEF Inv
<1>1. dev = "default" \/ pc \in BeforeLists
  BY DeviceNext
<1>2. step = SetAddress /\ ~ToldOfEnd
  <2>1. CASE pc \in BeforeLists
    BY <1>a, <2>1 DEF StartsOver, FreshStart, Starting, ToldOfEnd, BeforeLists, AfterDone
  <2>2. CASE dev = "default"
    BY <1>a, <2>2 DEF AddressTaken
  <2> QED
    BY <1>1, <2>1, <2>2
<1>3. step' = SetAddress
  BY <1>2, StepChanges DEF ToldOfEnd
<1>4. ChipFinish
  BY <1>2, <1>3, TellingChanges
<1>5. stage = "data" /\ dev = "default"
  BY <1>4 DEF ChipFinish, Effect
<1>6. running = SetAddress /\ ~torn
  BY <1>2, <1>5, <1>a DEF FirstAlone
<1>7. Effect
  BY <1>4, <1>6, Zenon DEF ChipFinish
<1> QED
  BY <1>5, <1>6, <1>7 DEF Effect

LEMMA CleanMeansAcceptedNext ==
    ASSUME Inv, Next
    PROVE  CleanMeansAccepted'
<1> USE DEF SetAddress, SetConfig, Poll
<1> SUFFICES ASSUME control' = "clean", mem' = step', step' > 8
             PROVE  dev' # "addressed"
  BY DEF CleanMeansAccepted
<1>0. step \in 1 .. 10 /\ step' \in 1 .. 10 /\ mem \in 0 .. 10
  BY TypeNext DEF Inv, TypeOK, Lists
<1>1. CASE UNCHANGED <<control, mem>>
  <2>1. CASE step' = step
    <3>1. control = "clean" /\ mem = step /\ step > 8
      BY <1>1, <2>1
    <3>2. dev \notin {"default", "addressed"}
      BY <3>1 DEF Inv, CleanMeansAccepted, AddressTaken
    <3> QED
      BY <3>2, DeviceNext
  <2>2. CASE step' # step
    \* After an advance the list in memory is still the one before.
    BY <1>0, <1>1, <2>2, StepChanges DEF Inv, ListInMemory
  <2> QED
    BY <2>1, <2>2
<1>2. CASE stage = "setup" /\ UNCHANGED <<mem, dev, step>>
           /\ \E list \in seen \cup {mem} : Accepts(list)
  <2>1. PICK list \in seen \cup {mem} : Accepts(list)
    BY <1>2
  <2>2. list > 6
    BY <1>0, <1>2, <2>1 DEF Inv, SeenNear
  <2> QED
    BY <1>2, <2>1, <2>2 DEF Accepts
<1> QED
  BY <1>1, <1>2, ControlChanges

LEMMA InvNext ==
    ASSUME Inv, Next
    PROVE  Inv'
<1> USE DEF SetAddress, DeviceDesc1, SetConfig, ConfigDesc2, Poll
<1>0. step \in 1 .. 10 /\ step' \in 1 .. 10 /\ TypeOK'
  BY TypeNext DEF Inv, TypeOK, Lists
<1>1. StartsOver'
  BY <1>0, StepChanges, PcChanges DEF Inv, StartsOver, BeforeLists, AfterDone
<1>2. NoPollJudged'
  BY PcChanges DEF Inv, NoPollJudged
<1>3. StepKnown'
  <2>1. pc' \in AfterPoll => step' = 10
    BY PcChanges DEF Inv, StepKnown
  <2>2. pc' = "Endpoint" => step' = 6
    BY PcChanges DEF Inv, StepKnown
  <2> QED
    BY <2>1, <2>2 DEF StepKnown
<1>4. ListInMemory'
  <2> SUFFICES ASSUME pc' \in InList \cup AfterDone \cup AfterPoll PROVE mem' = step'
    BY DEF ListInMemory
  <2>1. mem' = step
    BY PcChanges DEF Inv, ListInMemory
  <2>2. step' = step
    BY StepChanges DEF InList, Writing, AfterDone, AfterPoll
  <2> QED
    BY <2>1, <2>2
<1>5. /\ FreshStart' /\ ListBefore' /\ SeenNear' /\ FirstAlone' /\ AddressTaken'
      /\ CleanMeansAccepted'
  BY FreshStartNext, ListBeforeNext, SeenNearNext, FirstAloneNext, AddressTakenNext,
     CleanMeansAcceptedNext
<1>6. EnumeratedInOrder'
  <2>1. step' # 1 => dev' # "default"
    BY <1>5 DEF AddressTaken
  <2>2. Polling' => dev' # "addressed"
    <3> SUFFICES ASSUME step' = 10 PROVE dev' # "addressed"
      BY DEF Polling
    <3>1. CASE step = 10
      BY <3>1, DeviceNext DEF Inv, EnumeratedInOrder, Polling
    <3>2. CASE step # 10
      <4>1. step = 9 /\ pc \in AfterDone /\ control = "clean" /\ dev' = dev
        BY <1>0, <3>2, StepChanges DEF Succeeded
      <4> QED
        BY <4>1 DEF Inv, ListInMemory, CleanMeansAccepted
    <3> QED
      BY <3>1, <3>2
  <2> QED
    BY <2>1, <2>2 DEF EnumeratedInOrder, Polling
<1> QED
  BY <1>0, <1>1, <1>2, <1>3, <1>4, <1>5, <1>6 DEF Inv

LEMMA SpecInv == Spec => []Inv
<1>1. Inv /\ [Next]_vars => Inv'
  <2>1. Inv /\ UNCHANGED vars => Inv'
    BY DEF Inv, vars, driver, chip, keyboard, TypeOK, StartsOver, FreshStart, Starting,
           NoPollJudged, StepKnown, ListInMemory, ListBefore, SeenNear, FirstAlone,
           AddressTaken, ToldOfEnd, CleanMeansAccepted, EnumeratedInOrder, Idle, Polling
  <2> QED
    BY <2>1, InvNext
<1> QED
  BY InitInv, <1>1, PTL DEF Spec

\* Every variable keeps its type; in particular the enumeration never counts its
\* steps past the polling, of which no control byte is looked at.
THEOREM TypeCorrect == Spec => []TypeOK
<1>1. Inv => TypeOK
  BY DEF Inv
<1> QED
  BY SpecInv, <1>1, PTL

\* However late, doubled, torn or retried the lists are and whenever the keyboard is
\* pulled out and put back, it is asked in order, and polled only when configured.
THEOREM OrderKept == Spec => []EnumeratedInOrder
<1>1. Inv => EnumeratedInOrder
  BY DEF Inv
<1> QED
  BY SpecInv, <1>1, PTL

-----------------------------------------------------------------------------
(* In calm surroundings, what the driver may meet and how far it has come.  *)

\* No message waits, none is told; the controller rests; it has told that it is done.
Silent == msg = {} /\ ~flag
Told == msg = {"Done"} /\ Idle

\* The driver and the controller take turns: nothing is written while a list runs,
\* and the one message there is after a list is read and cleared before the next.
Rhythm ==
    /\ ~torn
    /\ pc \notin InList \cup {"Send"} => Silent /\ Idle
    /\ pc \in {"Send", "Point"} => Silent /\ stage = "idle" /\ pending # "list"
    /\ pc \in {"Resend", "PointAgain"} => Silent /\ stage = "idle" /\ pending = "list"
    /\ pc = "Check" =>
          IF flag THEN Told ELSE msg = {} /\ stage = "idle" /\ pending = "list"
    /\ pc = "Sleep" =>
          IF flag THEN Told
          ELSE /\ msg = {} /\ pending \in {"none", "list"}
               /\ stage = "idle" <=> pending = "list"
    /\ pc = "WaitRead" => Told
    /\ pc = "WaitClear" => Told /\ val = {"Done"} /\ ~flag
    /\ pc \notin {"RetryClear", "RetryWait"}
    /\ IF pc = "AwaitAnswer" THEN mailbox \in {"command", "ack"} ELSE mailbox # "command"

LEMMA RhythmNext ==
    ASSUME Calm, Rhythm, stage = "setup" => seen = {mem}, Next
    PROVE  Rhythm'
<1> USE DEF Rhythm, Silent, Idle, Told, InList, Writing, Goto
<1>1. CASE SoftReset
  BY <1>1, Zenon DEF SoftReset
<1>2. CASE InitSie
  BY <1>2, Zenon DEF InitSie
<1>3. CASE BusReset
  BY <1>3, Zenon DEF BusReset, chip
<1>4. CASE Detect
  BY <1>4, Zenon DEF Detect, chip
<1>5. CASE Send
  BY <1>5, Zenon DEF Send, WriteList
<1>6. CASE Check
  BY <1>6, Zenon DEF Check, chip
<1>7. CASE Resend
  BY <1>7, Zenon DEF Resend, WriteList
<1>8. CASE Sleep
  BY <1>8, Zenon DEF Sleep, chip, Calm
<1>9. CASE WaitRead
  BY <1>9, Zenon DEF WaitRead
<1>10. CASE WaitClear
  BY <1>10, Zenon DEF WaitClear, AfterList
<1>11. CASE Control
  BY <1>11, Zenon DEF Control, Advance, chip
<1>12. CASE Endpoint
  BY <1>12, Zenon DEF Endpoint
<1>13. CASE RetryRead
  BY <1>13, Zenon DEF RetryRead
<1>14. CASE RetryClear \/ RetryWait
  BY <1>14, Zenon DEF RetryClear, RetryWait
<1>15. CASE RetryControl
  BY <1>15, Zenon DEF RetryControl, Advance, chip
<1>16. CASE ReadKeys \/ Presence
  <2>1. pc \in {"ReadKeys", "Presence", "PresenceAgain", "Removed"} /\ UNCHANGED chip
    BY <1>16 DEF ReadKeys, Presence
  <2>2. pc' \in {"Presence", "PresenceAgain", "Removed", "Send", "HotPlug"}
    BY <1>16 DEF ReadKeys, Presence
  <2>3. /\ msg = {} /\ ~flag /\ stage = "idle" /\ pending = "none"
        /\ ~torn /\ mailbox # "command"
    BY <2>1, Zenon
  <2>4. /\ msg' = {} /\ ~flag' /\ stage' = "idle" /\ pending' = "none" /\ ~torn'
        /\ mailbox' # "command"
    BY <2>1, <2>3, Zenon DEF chip
  <2> QED
    BY <2>2, <2>4, Zenon
<1>17. CASE ChipStart
  BY <1>17, Zenon DEF ChipStart, driver, Calm
<1>18. CASE ChipSetup
  <2>1. SetupWhole
    BY <1>18, Zenon DEF ChipSetup
  <2> QED
    BY <1>18, <2>1, Zenon DEF ChipSetup, SetupWhole, driver
<1>19. CASE ChipFinish
  BY <1>19, Zenon DEF ChipFinish, driver
<1>20. CASE PlugIn \/ Unplug
  <2>1. UNCHANGED <<pc, val, pending, stage, torn, mailbox>>
    BY <1>20 DEF PlugIn, Unplug, driver
  <2>2. UNCHANGED <<msg, flag>>
    BY <1>20, Zenon DEF PlugIn, Unplug, Announce, Calm
  <2> QED
    BY <2>1, <2>2, Zenon
<1>21. CASE Type
  BY <1>21, Zenon DEF Type, driver, chip
<1>22. CASE AwaitAnswer
  BY <1>22, Zenon DEF AwaitAnswer, chip
<1>23. CASE Point
  BY <1>23, Zenon DEF Point
<1>24. CASE ChipAnswer
  <2>1. pc = "AwaitAnswer" /\ mailbox' = "ack" /\ UNCHANGED pc
    BY <1>24, Zenon DEF ChipAnswer, Calm, driver
  <2> QED
    BY <1>24, <2>1, Zenon DEF ChipAnswer, driver
<1> QED
  BY <1>1, <1>2, <1>3, <1>4, <1>5, <1>6, <1>7, <1>8, <1>9, <1>10, <1>11, <1>12, <1>13,
     <1>14, <1>15, <1>16, <1>17, <1>18, <1>19, <1>20, <1>21,
     <1>22, <1>23, <1>24 DEF Next, Driver, Chip

Resetting == {"HotPlug"} \cup BeforeLists
Enumerating == step # Poll /\ pc \notin Resetting
\* The list at hand has been carried out.
Over == Idle /\ pc \notin {"Send", "Point", "Endpoint"}
\* What a keyboard is after the first n lists.
Learned(n) ==
    IF n = 0 THEN "default" ELSE IF n < SetConfig THEN "addressed" ELSE "configured"
\* A keyboard that was plugged in after the bus was reset does not take its address.
Late == step = SetAddress /\ dev = "attached"

\* Every list of an enumeration succeeds at once, and the keyboard is as far as the
\* driver; only a keyboard that came late brings it to look at the retries.
Kept ==
    /\ pc \in AfterPoll => step = Poll
    /\ pc \in {"Detect", "DetectAgain", "AwaitDevice"} =>
          dev \in {"absent", "default", "attached"}
    /\ Enumerating => Late \/ dev = Learned(IF Over THEN step ELSE step - 1)
    /\ Enumerating /\ (Over \/ stage = "data") => (control = "clean" <=> ~Late)
    /\ Enumerating /\ stage = "data" /\ ~Late => running = step
    /\ pc \in {"RetryRead", "RetryControl"} => Late
    /\ stage = "setup" => seen = {mem}

LEMMA LearnedAccepts ==
    ASSUME step \in 1 .. 9, dev = Learned(step - 1)
    PROVE  Accepts(step)
BY DEF Learned, Accepts, SetAddress, DeviceDesc1, SetConfig

\* A list is executed only while the driver sleeps, after it has written it.
LEMMA ExecutedAsleep ==
    ASSUME Inv, Rhythm, stage # "idle"
    PROVE  pc = "Sleep" /\ mem = step /\ pending = "none" /\ ~flag
<1>1. pc = "Sleep" /\ pending = "none" /\ ~flag
  BY Zenon DEF Rhythm, Silent, Idle, Told, InList, Writing
<1> QED
  BY <1>1 DEF Inv, ListInMemory, InList, Writing

LEMMA KeptNext ==
    ASSUME Calm, Inv, Rhythm, Kept, Next
    PROVE  Kept'
<1> USE DEF Kept, Enumerating, Resetting, AfterPoll, BeforeLists, Goto
<1>0. /\ step \in 1 .. 10
      /\ dev \in {"absent", "attached", "default", "addressed", "configured"}
  BY DEF Inv, TypeOK, Lists, SetAddress, Poll
<1>1. CASE SoftReset \/ InitSie \/ AwaitAnswer \/ BusReset
  <2>1. UNCHANGED <<stage, seen, mem>> \/ stage' = "idle"
    BY <1>1 DEF SoftReset, InitSie, AwaitAnswer, BusReset, chip
  <2> QED
    BY <1>1, <2>1 DEF SoftReset, InitSie, AwaitAnswer, BusReset, Present, Late
<1>2. CASE Detect
  <2>1. step = SetAddress /\ Silent /\ Idle /\ UNCHANGED <<step, chip, keyboard>>
    BY <1>2 DEF Detect, Inv, StartsOver, Rhythm, InList, Writing
  <2>2. \/ pc' = "Send" /\ dev \in {"default", "attached"}
        \/ pc' \in {"DetectAgain", "AwaitDevice", "HotPlug"}
    BY <1>2 DEF Detect, Present
  <2>3. stage' = "idle" /\ (pc' = "Send" => ~Over')
    BY <2>1 DEF Over, Idle, chip
  <2> QED
    BY <1>2, <2>1, <2>2, <2>3 DEF Detect, Late, Learned, SetAddress, keyboard, Poll
<1>3. CASE Send \/ Resend \/ Point
  <2>1. stage' = "idle" /\ ~Over' /\ ~Over /\ UNCHANGED <<step, keyboard>>
    BY <1>3, Zenon DEF Send, Resend, Point, WriteList, Over, Idle, Rhythm, Goto
  <2>2. /\ pc' \in {"Point", "PointAgain", "Check", "Sleep"}
        /\ pc \in {"Send", "Resend", "Point", "PointAgain"}
    BY <1>3 DEF Send, Resend, Point
  <2> QED
    BY <2>1, <2>2 DEF Late, Learned, keyboard
<1>4. CASE Check \/ Sleep \/ WaitRead \/ WaitClear
  <2>1. UNCHANGED <<step, pending, stage, seen, running, mem, control, keyboard>>
    BY <1>4 DEF Check, Sleep, WaitRead, WaitClear, chip
  <2>2. /\ pc \in {"Check", "Sleep", "WaitRead", "WaitClear"}
        /\ pc' \in {"Check", "Resend", "Sleep", "WaitRead", "WaitClear", "Control",
                    "ReadKeys"}
    BY <1>4 DEF Check, Sleep, WaitRead, WaitClear, AfterList
  <2>3. pc' = "ReadKeys" => step = Poll
    BY <1>4 DEF Check, Sleep, WaitRead, WaitClear, AfterList
  <2>4. Over' = Over /\ Late' = Late
    BY <2>1, <2>2 DEF Over, Idle, Late, keyboard
  <2> QED
    BY <2>1, <2>2, <2>3, <2>4 DEF Learned, keyboard
<1>5. CASE Control \/ RetryControl
  <2>1. Over /\ stage = "idle" /\ UNCHANGED <<stage, control, dev>>
    BY <1>5 DEF Control, RetryControl, Rhythm, InList, Writing, Over, Idle, chip, keyboard
  <2>2. step # Poll
    BY <1>5 DEF Control, RetryControl, Inv, NoPollJudged, AfterDone
  <2>3. CASE Advance
    <3>1. ~Late
      BY <1>5, <2>1, <2>2, <2>3, Zenon DEF Control, RetryControl, Succeeded, Advance, Inv,
             StartsOver
    <3> QED
      <4>1. dev = Learned(step) /\ pc' \in {"Send", "Endpoint"} /\ step' = step + 1
        BY <1>5, <2>1, <2>2, <2>3, <3>1 DEF Advance, Control, RetryControl
      <4>2. dev' = Learned(step' - 1) /\ ~Late' /\ ~Over' /\ stage' = "idle"
        BY <2>1, <4>1, <1>0 DEF Late, SetAddress, Over
      <4> QED
        BY <4>1, <4>2
  <2>4. CASE ~Advance
    BY <1>5, <2>1, <2>2, <2>4 DEF Control, RetryControl, Succeeded, Late
  <2> QED
    BY <2>3, <2>4
<1>6. CASE Endpoint
  BY <1>6 DEF Endpoint, Over, Late, Rhythm, Idle, InList, Writing, keyboard, Learned
<1>7. CASE RetryRead
  <2>1. pc = "RetryRead" /\ pc' = "RetryControl"
    BY <1>7 DEF RetryRead, Rhythm, Silent, InList, Writing
  <2>2. UNCHANGED <<step, pending, stage, control, keyboard>> /\ stage = "idle"
    BY <1>7 DEF RetryRead, Rhythm, Idle, InList, Writing
  <2> QED
    BY <2>1, <2>2 DEF Late, Over, Idle, keyboard
<1>8. CASE RetryClear \/ RetryWait
  BY <1>8 DEF RetryClear, RetryWait, Rhythm
<1>9. CASE ReadKeys \/ Presence
  BY <1>9 DEF ReadKeys, Presence, AfterPoll, chip, keyboard
<1>10. CASE ChipStart
  <2>1. pc = "Sleep" /\ pending = "list" /\ stage = "idle"
    BY <1>10, Zenon DEF ChipStart, Calm, Rhythm, Told, Idle
  <2>2. stage' = "setup" /\ seen' = {under, mem} /\ UNCHANGED <<pc, step, mem, dev>>
    BY <1>10, <2>1 DEF ChipStart, driver, keyboard
  <2>3. under = mem
    BY <2>1 DEF Inv, ListBefore
  <2> QED
    BY <2>1, <2>2, <2>3 DEF Over, Idle, Late, Learned
<1>11. CASE ChipSetup
  <2>1. pc = "Sleep" /\ mem = step /\ SetupWhole
    BY <1>11, ExecutedAsleep DEF ChipSetup
  <2>2. stage = "setup" /\ stage' = "data" /\ UNCHANGED <<pc, step, dev>>
    BY <1>11 DEF ChipSetup, driver, keyboard
  <2>3. Accepts(step) => running' = step /\ control' = "clean"
    BY <1>11, <2>1 DEF SetupWhole, Calm
  <2>4. step # Poll => (Accepts(step) <=> ~Late)
    BY <1>0, <2>1, <2>2, LearnedAccepts DEF Over, Idle, Poll, Late, Accepts, SetAddress
  <2>5. ~Accepts(step) => control' = "other"
    BY <1>11, <2>1 DEF SetupWhole
  <2> QED
    BY <2>1, <2>2, <2>3, <2>4, <2>5 DEF Over, Idle, Late, Learned
<1>12. CASE ChipFinish
  <2>1. pc = "Sleep" /\ pending = "none"
    BY <1>12, ExecutedAsleep DEF ChipFinish
  <2>2. stage = "data" /\ stage' = "idle" /\ UNCHANGED <<pc, step, control>> /\ Over'
    BY <1>12, <2>1 DEF ChipFinish, driver, Over, Idle
  <2>3. Effect
    BY <1>12, Zenon DEF ChipFinish, Rhythm
  <2>4. CASE step # Poll /\ ~Late
    <3>1. dev = Learned(step - 1) /\ running = step
      BY <2>1, <2>2, <2>4 DEF Over, Idle
    <3>2. dev' = Learned(step) /\ ~Late'
      BY <1>0, <2>3, <3>1, <2>4 DEF Effect, Learned, SetAddress, SetConfig, Poll, Late
    <3> QED
      BY <2>1, <2>2, <2>4, <3>2
  <2>5. CASE Late
    BY <2>1, <2>2, <2>3, <2>5 DEF Late, Effect, SetAddress
  <2>6. CASE step = Poll
    BY <2>1, <2>2, <2>6
  <2> QED
    BY <2>4, <2>5, <2>6
<1>13. CASE PlugIn \/ Unplug
  <2>1. UNCHANGED <<pc, step, pending, stage, running, control>>
    BY <1>13 DEF PlugIn, Unplug, driver
  <2>2. CASE Unplug
    BY <2>1, <2>2 DEF Unplug, Calm
  <2>3. CASE PlugIn
    BY <2>1, <2>3 DEF PlugIn, Learned, Late
  <2> QED
    BY <1>13, <2>2, <2>3
<1>14. CASE Type
  BY <1>14 DEF Type, driver, chip, Over, Idle, Late, Learned
<1>15. CASE ChipAnswer
  <2>1. UNCHANGED <<pc, step, pending, stage, seen, running, mem, control, dev>>
    BY <1>15 DEF ChipAnswer, driver, keyboard
  <2> QED
    BY <2>1 DEF Over, Idle, Late, Learned
<1> QED
  BY <1>1, <1>2, <1>3, <1>4, <1>5, <1>6, <1>7, <1>8, <1>9, <1>10, <1>11, <1>12, <1>13,
     <1>14, <1>15 DEF Next, Driver, Chip

CalmInv == Calm => Rhythm /\ Kept

\* Reading what calm means where it is needed: the surroundings never change.
LEMMA SpecCalm == Spec => [](Inv /\ CalmInv)
<1>1. Init => CalmInv
  BY DEF Init, CalmInv, Rhythm, Kept, Silent, Idle, InList, Writing, AfterPoll, Enumerating,
         Resetting
<1>2. Inv /\ CalmInv /\ [Next]_vars => CalmInv'
  <2> SUFFICES ASSUME Inv, CalmInv, [Next]_vars PROVE CalmInv'
    OBVIOUS
  <2>1. CASE Next
    <3>1. Calm' => Calm
      BY <2>1 DEF Next, Calm
    <3>2. Calm => Rhythm' /\ Kept'
      BY <2>1, RhythmNext, KeptNext DEF CalmInv, Kept
    <3> QED
      BY <3>1, <3>2 DEF CalmInv
  <2>2. CASE UNCHANGED vars
    <3> USE <2>2 DEF vars, driver, chip, keyboard
    <3>1. Rhythm' = Rhythm
      BY Zenon DEF Rhythm, Silent, Idle, Told
    <3>2. Kept' = Kept
      BY DEF Kept, Enumerating, Over, Idle, Late, Learned
    <3>3. Calm' = Calm
      BY DEF Calm
    <3> QED
      BY <3>1, <3>2, <3>3 DEF CalmInv
  <2> QED
    BY <2>1, <2>2
<1> QED
  BY SpecInv, <1>1, <1>2, PTL DEF Spec

\* In calm surroundings the driver waits for nothing that does not come: asleep, it
\* has its list executed or the message of its end; the message it reads is that one
\* alone; it never waits for a second one to read the retries; and the control byte
\* sends it back only if the keyboard was plugged in after the reset of the bus.
Answered ==
    Calm =>
        /\ pc = "Sleep" => pending = "list" \/ stage # "idle" \/ flag
        /\ pc = "WaitRead" => msg = {"Done"}
        /\ pc = "WaitClear" => val = {"Done"}
        /\ pc = "Control" => Succeeded \/ Late
        /\ pc \notin {"RetryClear", "RetryWait"}
THEOREM WaitsAnswered == Spec => []Answered
<1>1. Inv /\ CalmInv => Answered
  <2> SUFFICES ASSUME Inv, CalmInv, Calm
               PROVE  /\ pc = "Sleep" => pending = "list" \/ stage # "idle" \/ flag
                      /\ pc = "WaitRead" => msg = {"Done"}
                      /\ pc = "WaitClear" => val = {"Done"}
                      /\ pc = "Control" => Succeeded \/ Late
                      /\ pc \notin {"RetryClear", "RetryWait"}
    BY Zenon DEF Answered
  <2>1. Rhythm /\ Kept
    BY DEF CalmInv
  <2>2. pc = "Sleep" => pending = "list" \/ stage # "idle" \/ flag
    BY <2>1, Zenon DEF Rhythm
  <2>3. /\ pc = "WaitRead" => msg = {"Done"}
        /\ pc = "WaitClear" => val = {"Done"}
        /\ pc \notin {"RetryClear", "RetryWait"}
    BY <2>1, Zenon DEF Rhythm, Told
  <2>4. pc = "Control" => Succeeded \/ Late
    <3>1. pc = "Control" => Over /\ Enumerating
      BY <2>1 DEF Rhythm, Over, InList, Writing, Enumerating, Resetting, BeforeLists, Inv,
             NoPollJudged, AfterDone
    <3> QED
      BY <2>1, <3>1 DEF Kept, Succeeded
  <2> QED
    BY <2>2, <2>3, <2>4, Zenon
<1> QED
  BY SpecCalm, <1>1, PTL

\* In calm surroundings an enumeration ends only in the polling of a keyboard that it
\* has configured.
THEOREM EnumerationSucceeds ==
    Spec => [][Calm /\ ~Polling /\ Polling' => pc' = "Send" /\ dev' = "configured"]_vars
<1>1. Inv /\ CalmInv /\ [Next]_vars =>
        [Calm /\ ~Polling /\ Polling' => pc' = "Send" /\ dev' = "configured"]_vars
  <2> SUFFICES ASSUME Inv, CalmInv, Next, Calm, ~Polling, Polling'
               PROVE  pc' = "Send" /\ dev' = "configured"
    BY DEF vars
  <2> USE DEF Polling, Poll
  <2>1. Rhythm /\ Kept /\ step \in 1 .. 10
    BY DEF CalmInv, Inv, TypeOK, Lists, SetAddress
  <2>2. pc \in AfterDone /\ Succeeded /\ step = 9 /\ UNCHANGED dev /\ pc' = "Send"
    BY <2>1, StepChanges DEF SetAddress, ConfigDesc2
  <2>3. Enumerating /\ Over /\ ~Late
    BY <2>1, <2>2 DEF AfterDone, Enumerating, Resetting, BeforeLists, Over, Rhythm,
           InList, Writing, Late, SetAddress
  <2>4. dev = "configured"
    BY <2>1, <2>2, <2>3 DEF Kept, Learned, SetConfig
  <2> QED
    BY <2>2, <2>4
<1> QED
  BY SpecCalm, <1>1, PTL DEF Spec

-----------------------------------------------------------------------------
(* How far it is to the end of the round: to the next poll's list.          *)

\* Where the driver and the controller are in the list at hand.
Place ==
    CASE pc = "AwaitDevice" -> 26 [] pc = "Removed" -> 25 [] pc = "HotPlug" -> 24
      [] pc = "InitSie" -> 23
      [] pc = "AwaitAnswer" -> IF mailbox = "command" THEN 22 ELSE 21
      [] pc = "BusReset" -> 20 [] pc = "Detect" -> 19 [] pc = "DetectAgain" -> 18
      [] pc = "Endpoint" -> 16 [] pc = "Send" -> 15 [] pc = "Point" -> 14
      [] pc = "Check" -> IF flag THEN 6 ELSE 13
      [] pc = "Resend" -> 12 [] pc = "PointAgain" -> 11
      [] pc = "Sleep" -> IF pending = "list" THEN 10 ELSE IF stage = "setup" THEN 9
                         ELSE IF stage = "data" THEN 8 ELSE 7
      [] pc = "WaitRead" -> 5 [] pc = "WaitClear" -> 4
      [] pc \in {"Control", "ReadKeys"} -> 3
      [] pc \in {"RetryRead", "Presence"} -> 2 [] OTHER -> 1

\* On the way to a reset all nine are to come.
BeforeReset == pc \in {"Removed", "HotPlug"}
\* How many lists are to come after the one at hand, one more if the keyboard will not
\* take its address.
ToCome ==
    IF BeforeReset THEN 9
    ELSE IF Late /\ pc \notin {"InitSie", "AwaitAnswer", "BusReset"} THEN 10
    ELSE Poll - step
Rank == Place + 30 * ToCome

\* No list has thirty places.
LEMMA RankFalls ==
    ASSUME NEW p \in 1 .. 26, NEW q \in 1 .. 26, NEW m \in 0 .. 10, NEW n \in 0 .. 10,
           (n = m /\ q < p) \/ n < m
    PROVE  q + 30 * n < p + 30 * m
OBVIOUS

\* The next poll.
RoundEnds == Polling /\ pc \in {"Presence", "PresenceAgain"} /\ pc' = "Send"

\* Each step, in its list or to another one.
LEMMA StepAdvances ==
    ASSUME Inv, TypeOK', Calm, Rhythm, Kept, Present, Next
    PROVE  \/ Rank' < Rank \/ RoundEnds
           \/ ~Present' \/ (Rank' = Rank /\ UNCHANGED <<driver, chip, dev>>)
<1> USE DEF Goto
<1>0. /\ step \in 1 .. 10 /\ Place \in 1 .. 26 /\ Place' \in 1 .. 26
      /\ ToCome \in 0 .. 10 /\ ToCome' \in 0 .. 10 /\ dev # "absent"
  <2>1. Place \in 1 .. 26 /\ Place' \in 1 .. 26
    BY DEF Place
  <2>2. step \in 1 .. 10 /\ step' \in 1 .. 10 /\ dev # "absent"
    BY DEF Inv, TypeOK, Lists, SetAddress, Poll, Present
  <2>3. ToCome \in 0 .. 10
    BY <2>2 DEF ToCome, Poll
  <2>4. ToCome' = 9 \/ ToCome' = 10 \/ ToCome' = 10 - step'
    BY DEF ToCome, Poll, BeforeReset, Late
  <2>5. ToCome' \in 0 .. 10
    BY <2>2, <2>4, Z3
  <2> QED
    BY <2>1, <2>2, <2>3, <2>5
<1>a. (ToCome' = ToCome /\ Place' < Place) \/ ToCome' < ToCome => Rank' < Rank
  BY <1>0, RankFalls DEF Rank
<1>1. CASE SoftReset
  BY <1>0, <1>a, <1>1 DEF SoftReset, Place, ToCome, BeforeReset, SetAddress, Poll
<1>2. CASE InitSie \/ AwaitAnswer \/ ChipAnswer
  <2>1. /\ pc \in {"InitSie", "AwaitAnswer"} /\ pc' \in {"AwaitAnswer", "BusReset"}
        /\ UNCHANGED <<step, dev>>
    BY <1>2 DEF InitSie, AwaitAnswer, ChipAnswer, Rhythm, InList, Writing, Silent, Idle,
           driver, keyboard
  <2>2. Place' < Place
    <3>1. CASE InitSie
      BY <3>1 DEF InitSie, Place
    <3>2. CASE AwaitAnswer
      BY <2>1, <3>2 DEF AwaitAnswer, Place, Rhythm, InList, Writing, Silent
    <3>3. CASE ChipAnswer
      BY <2>1, <3>3 DEF ChipAnswer, Place, driver
    <3> QED
      BY <1>2, <3>1, <3>2, <3>3
  <2>3. ToCome' = ToCome
    BY <2>1 DEF ToCome, BeforeReset
  <2> QED
    BY <1>a, <2>2, <2>3
<1>3. CASE BusReset
  BY <1>0, <1>a, <1>3 DEF BusReset, Calm, Present, Place, ToCome, BeforeReset, Late,
           Inv, StartsOver, BeforeLists, SetAddress, Poll
<1>4. CASE Detect
  <2>1. \/ pc = "AwaitDevice" /\ pc' = "HotPlug"
        \/ pc \in {"Detect", "DetectAgain"} /\ pc' = "Send"
    BY <1>4 DEF Detect, Present
  <2>2. step = 1 /\ UNCHANGED <<step, dev>>
    BY <1>4 DEF Detect, Inv, StartsOver, BeforeLists, SetAddress, keyboard
  <2>3. Place' < Place
    BY <2>1 DEF Place
  <2>4. ToCome' = ToCome \/ ToCome' < ToCome
    BY <2>1, <2>2 DEF ToCome, Late, BeforeReset, SetAddress, Poll
  <2> QED
    BY <1>a, <2>3, <2>4
<1>c. Told => msg = {"Done"} /\ stage = "idle" /\ pending = "none"
  BY Zenon DEF Told, Idle
<1>5. CASE \/ Send \/ Check \/ Resend \/ Point \/ Sleep \/ WaitRead \/ WaitClear \/ Endpoint
           \/ RetryRead \/ ChipStart \/ ChipSetup
  <2>1. UNCHANGED <<step, dev>>
    BY <1>5 DEF Send, Check, Resend, Point, Sleep, WaitRead, WaitClear, Endpoint, RetryRead,
           ChipStart, ChipSetup, driver, keyboard
  <2>2. {pc, pc'} \cap {"Removed", "HotPlug", "InitSie", "AwaitAnswer", "BusReset"} = {}
    BY <1>5, ExecutedAsleep DEF Send, Check, Resend, Point, Sleep, WaitRead, WaitClear,
           Endpoint, RetryRead, ChipStart, ChipSetup, driver, AfterList, Calm
  <2>3. ToCome' = ToCome
    BY <2>1, <2>2 DEF ToCome, Late, BeforeReset
  <2>4. Place' < Place
    <3>1. CASE Send
      BY <3>1 DEF Send, Place
    <3>2. CASE Check
      BY <3>2, <1>c DEF Check, chip, Place, Rhythm
    <3>3. CASE Resend
      BY <3>3 DEF Resend, Place
    <3>4. CASE Sleep
      BY <3>4, <1>c DEF Sleep, chip, Place, Rhythm, Calm
    <3>5. CASE WaitRead \/ WaitClear \/ Endpoint \/ RetryRead
      BY <3>5 DEF WaitRead, WaitClear, Endpoint, RetryRead, Place, AfterList, Rhythm
    <3>6. CASE ChipStart
      BY <3>6, <1>c DEF ChipStart, driver, Place, Calm, Rhythm
    <3>7. CASE ChipSetup
      BY <3>7, ExecutedAsleep DEF ChipSetup, driver, Place
    <3>8. CASE Point
      BY <3>8 DEF Point, Place, Rhythm, Silent
    <3> QED
      BY <1>5, <3>1, <3>2, <3>3, <3>4, <3>5, <3>6, <3>7, <3>8
  <2> QED
    BY <1>a, <2>3, <2>4
<1>6. CASE ChipFinish
  <2>1. /\ pc = "Sleep" /\ pc' = "Sleep" /\ pending' = "none"
        /\ stage = "data" /\ stage' = "idle"
    BY <1>6, ExecutedAsleep DEF ChipFinish, driver
  <2>2. Late' = Late /\ step' = step
    BY <1>6 DEF ChipFinish, Effect, driver, Late
  <2>3. Place' < Place /\ ToCome' = ToCome
    BY <2>1, <2>2, ExecutedAsleep DEF Place, ToCome, BeforeReset
  <2> QED
    BY <1>a, <2>3
<1>7. CASE Control
  <2>1. pc = "Control" /\ UNCHANGED dev
    BY <1>7 DEF Control, keyboard
  <2>2. step # 10
    BY <1>7 DEF Control, Inv, NoPollJudged, AfterDone, Poll
  <2>3. Over /\ Enumerating
    BY <2>1, <2>2 DEF Rhythm, Over, InList, Writing, Enumerating, Resetting, BeforeLists,
           Poll
  <2>4. CASE Late
    <3>1. pc' = "RetryRead" /\ step' = step
      BY <1>7, <2>3, <2>4 DEF Control, Kept, Succeeded
    <3>2. ToCome' = ToCome /\ Place' < Place
      BY <2>1, <2>4, <3>1 DEF ToCome, Place, BeforeReset, Late
    <3> QED
      BY <1>a, <3>2
  <2>5. CASE ~Late
    <3>1. step' = step + 1 /\ pc' \in {"Endpoint", "Send"}
      BY <1>7, <2>3, <2>5 DEF Control, Kept, Succeeded, Advance
    <3>2. ToCome' < ToCome
      BY <1>0, <2>1, <2>2, <2>5, <3>1 DEF ToCome, BeforeReset, Late, SetAddress, Poll
    <3> QED
      BY <1>a, <3>2
  <2> QED
    BY <2>4, <2>5
<1>8. CASE RetryClear \/ RetryWait
  BY <1>8 DEF RetryClear, RetryWait, Rhythm
<1>9. CASE RetryControl
  <2>1. pc = "RetryControl" /\ Late /\ pc' = "HotPlug"
    BY <1>9 DEF RetryControl, Kept, Late
  <2>2. ToCome' < ToCome
    BY <2>1 DEF ToCome, BeforeReset
  <2> QED
    BY <1>a, <2>2
<1>10. CASE ReadKeys \/ Presence
  <2>1. /\ pc \in {"ReadKeys", "Presence", "PresenceAgain", "Removed"}
        /\ pc = "ReadKeys" => pc' = "Presence"
        /\ pc \in {"Presence", "PresenceAgain"} => pc' = "Send"
        /\ pc = "Removed" => pc' = "HotPlug"
        /\ UNCHANGED <<step, dev>>
    BY <1>10 DEF ReadKeys, Presence, Present, keyboard
  <2>2. CASE pc = "ReadKeys"
    <3>1. ToCome' = ToCome /\ Place' < Place
      BY <2>1, <2>2 DEF ToCome, Place, BeforeReset, Late
    <3> QED
      BY <1>a, <3>1
  <2>3. CASE pc = "Removed"
    <3>1. ToCome' = ToCome /\ Place' < Place
      BY <2>1, <2>3 DEF ToCome, Place, BeforeReset
    <3> QED
      BY <1>a, <3>1
  <2>4. CASE pc \in {"Presence", "PresenceAgain"}
    BY <2>1, <2>4 DEF RoundEnds, Kept, AfterPoll, Polling
  <2> QED
    BY <2>1, <2>2, <2>3, <2>4
<1>11. CASE PlugIn \/ Unplug
  BY <1>11 DEF PlugIn, Unplug, Present
<1>12. CASE Type
  <2>1. UNCHANGED <<driver, chip, dev>>
    BY <1>12 DEF Type
  <2>2. Place' = Place /\ ToCome' = ToCome
    BY <2>1 DEF Place, ToCome, BeforeReset, Late, driver, chip
  <2> QED
    BY <2>1, <2>2 DEF Rank
<1> QED
  BY <1>1, <1>2, <1>3, <1>4, <1>5, <1>6, <1>7, <1>8, <1>9, <1>10, <1>11, <1>12
     DEF Next, Driver, Chip

\* In calm surroundings, while there is a keyboard, every step of the driver and of the
\* controller is a step nearer to the end of the round, which is the next poll: there
\* are no more than 326 of them, through a removal, the reset and all nine lists.  Only
\* the user takes steps that are none, and unless he pulls the keyboard out they leave
\* the distance as it is.
THEOREM RoundsEnd ==
    Spec => /\ [](Rank \in 1 .. 326)
            /\ [][Calm /\ Present =>
                     \/ Rank' < Rank
                     \/ RoundEnds
                     \/ ~Present' \/ (Rank' = Rank /\ UNCHANGED <<driver, chip, dev>>)]_vars
<1>1. Inv => Rank \in 1 .. 326
  <2> SUFFICES ASSUME Inv PROVE Rank \in 1 .. 326
    OBVIOUS
  <2>1. Place \in 1 .. 26
    BY DEF Place
  <2>2. ToCome \in 0 .. 10
    BY DEF ToCome, Inv, TypeOK, Lists, SetAddress, Poll
  <2> QED
    BY <2>1, <2>2 DEF Rank
<1>2. Inv /\ Inv' /\ CalmInv /\ [Next]_vars =>
        [Calm /\ Present =>
            \/ Rank' < Rank
            \/ RoundEnds
            \/ ~Present' \/ (Rank' = Rank /\ UNCHANGED <<driver, chip, dev>>)]_vars
  <2> SUFFICES ASSUME Inv, Inv', CalmInv, Next, Calm, Present
               PROVE  \/ Rank' < Rank
                      \/ RoundEnds
                      \/ ~Present' \/ (Rank' = Rank /\ UNCHANGED <<driver, chip, dev>>)
    OBVIOUS
  <2>1. Rhythm /\ Kept /\ TypeOK'
    BY DEF CalmInv, Inv
  <2> QED
    BY <2>1, StepAdvances
<1> QED
  BY SpecCalm, <1>1, <1>2, PTL DEF Spec

-----------------------------------------------------------------------------
(* What the polls bring. *)

\* A poll that a configured keyboard has accepted is the list that runs.
PollServed == Calm /\ Polling /\ stage = "data" /\ dev = "configured" => running = Poll

LEMMA PollServedNext ==
    ASSUME Inv, CalmInv, PollServed, Next
    PROVE  PollServed'
<1> SUFFICES ASSUME Calm', Polling', stage' = "data", dev' = "configured"
             PROVE  running' = Poll
  BY DEF PollServed
<1>0. Calm /\ Rhythm /\ Kept
  BY DEF Next, Calm, CalmInv
<1>1. CASE ChipStart
  <2>1. pending = "list"
    BY <1>0, <1>1, Zenon DEF ChipStart, Calm, Rhythm, Told, Idle
  <2> QED
    BY <1>1, <2>1 DEF ChipStart
<1>2. CASE ChipSetup
  <2>1. mem = Poll /\ dev = "configured"
    BY <1>0, <1>2, ExecutedAsleep DEF ChipSetup, Polling, driver, keyboard
  <2> QED
    BY <1>0, <1>2, <2>1 DEF ChipSetup, SetupWhole, Kept, Accepts, Poll, SetConfig
<1>3. CASE ChipFinish \/ SoftReset
  BY <1>3 DEF ChipFinish, SoftReset
<1>4. CASE ~(ChipStart \/ ChipSetup \/ ChipFinish \/ SoftReset)
  <2>1. UNCHANGED <<stage, running>> /\ dev = "configured"
    BY <1>4 DEF Next, Driver, Chip, ChipAnswer, InitSie, AwaitAnswer, BusReset, Detect,
           Send, Check, Resend, Point, Sleep,
           WaitRead, WaitClear, Control, Endpoint, RetryRead, RetryClear, RetryWait,
           RetryControl, ReadKeys, Presence, PlugIn, Unplug, Type, Present, chip, keyboard
  <2>2. pc = "Sleep"
    BY <1>0, <2>1, ExecutedAsleep
  <2>3. step' = step
    BY <2>2, StepChanges DEF AfterDone
  <2> QED
    BY <1>0, <2>1, <2>3 DEF PollServed, Polling
<1> QED
  BY <1>1, <1>2, <1>3, <1>4

\* In calm surroundings, while a configured keyboard is polled, every poll puts what the
\* keyboard reports into the buffer, where nothing but a newer report replaces it, and
\* the port takes it from there and keeps it as long as it is what is reported.
THEOREM PollsDeliver ==
    Spec => [][Calm /\ Polling /\ dev = "configured" =>
                   /\ ChipFinish => report' = held
                   /\ report = held => report' = held
                   /\ ReadKeys => port' = report
                   /\ report = held /\ port = held => port' = held]_vars
<1>1. Init => PollServed
  BY DEF Init, PollServed
<1>2. Inv /\ CalmInv /\ PollServed /\ [Next]_vars => PollServed'
  <2>1. PollServed /\ UNCHANGED vars => PollServed'
    BY DEF PollServed, Calm, Polling, vars, chip, driver, keyboard
  <2> QED
    BY <2>1, PollServedNext
<1>3. Inv /\ CalmInv /\ PollServed /\ [Next]_vars =>
        [Calm /\ Polling /\ dev = "configured" =>
            /\ ChipFinish => report' = held
            /\ report = held => report' = held
            /\ ReadKeys => port' = report
            /\ report = held /\ port = held => port' = held]_vars
  <2> SUFFICES ASSUME CalmInv, PollServed, Next, Calm, Polling, dev = "configured"
               PROVE  /\ ChipFinish => report' = held
                      /\ report = held => report' = held
                      /\ ReadKeys => port' = report
                      /\ report = held /\ port = held => port' = held
    OBVIOUS
  <2>1. ChipFinish => report' = held
    <3> SUFFICES ASSUME ChipFinish PROVE report' = held
      OBVIOUS
    <3>1. Effect
      BY Zenon DEF ChipFinish, CalmInv, Rhythm
    <3>2. running = Poll
      BY DEF ChipFinish, PollServed
    <3> QED
      BY <3>1, <3>2 DEF Effect
  <2>2. report = held => report' = held
    <3>1. CASE Send \/ Resend
      BY <3>1 DEF Send, Resend, WriteList, Polling
    <3>2. CASE ~(Send \/ Resend \/ ChipFinish)
      BY <3>2 DEF Next, Driver, Chip, ChipAnswer, SoftReset, InitSie, AwaitAnswer,
             BusReset, Detect, Check, Point, Sleep, WaitRead, WaitClear, Control,
             Endpoint, RetryRead, RetryClear, RetryWait, RetryControl, ReadKeys, Presence,
             ChipStart, ChipSetup, PlugIn, Unplug, Type, chip
    <3> QED
      BY <2>1, <3>1, <3>2
  <2>3. ReadKeys => port' = report
    BY DEF ReadKeys
  <2>4. port' = port \/ ReadKeys
    BY DEF Next, Driver, Chip, SoftReset, InitSie, AwaitAnswer, BusReset, Detect, Send,
           Check, Resend, Point, Sleep, WaitRead, WaitClear, Control, Endpoint, RetryRead,
           RetryClear, RetryWait, RetryControl, Presence, ChipStart, ChipSetup,
           ChipFinish, ChipAnswer, PlugIn, Unplug, Type, driver
  <2> QED
    BY <2>1, <2>2, <2>3, <2>4
<1> QED
  BY SpecCalm, <1>1, <1>2, <1>3, PTL DEF Spec
=============================================================================
