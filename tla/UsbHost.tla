------------------------------ MODULE UsbHost ------------------------------
(***************************************************************************)
(* The keyboard driver (main.c with usb.c): it resets the USB controller,  *)
(* enumerates the keyboard in nine steps, and polls it for ever.  In each  *)
(* step it writes a list of transfers into the controller's memory, starts *)
(* it, sends it again as long as no message has come, waits for the        *)
(* message that the list is done, and looks at the control byte of the     *)
(* first transfer.  Enumeration starts over after a removal, which the     *)
(* driver notices while polling.                                           *)
(*                                                                         *)
(* The controller (CY7C67200) and the keyboard are external: they do what  *)
(* the driver relies on, but at their own pace, between any two accesses   *)
(* of the driver.  What the lists contain is module TransferLists.         *)
(*                                                                         *)
(* A list is some 7 to 55 words, written one by one in the order of their  *)
(* addresses, and the pointer to it comes last.  The controller may start  *)
(* in between, where a pointer of an earlier writing is still to be        *)
(* followed, and find some words new and some of the list before.  A list  *)
(* is written in two steps here, its words and its pointer, and what the   *)
(* controller finds between them, or while it takes the first transfer     *)
(* from memory, may be of any list that was there in that time (seen).     *)
(***************************************************************************)
EXTENDS Integers

CONSTANTS
    Reports,        \* what the keyboard may report
    NoKeys, Junk,   \* no key; words that are no report
    Worlds          \* the surroundings among which a run chooses

\* The lists in the order the driver sends them.
SetAddress == 1
DeviceDesc1 == 2
ConfigDesc2 == 5
SetConfig  == 6
ReportDesc == 9
Poll       == 10
Lists == SetAddress .. Poll

Pcs == {"HotPlug", "InitSie", "AwaitAnswer", "BusReset", "Detect", "DetectAgain",
        "AwaitDevice", "Endpoint", "Send", "Point", "Check", "Resend", "PointAgain",
        "Sleep", "WaitRead", "WaitClear", "Control", "RetryRead", "RetryClear", "RetryWait",
        "RetryControl", "ReadKeys", "Presence", "PresenceAgain", "Removed"}

\* acks: the controller's answers to a mailbox command, or none; punctual: a list is
\* executed while the driver sleeps, and done by then; retries: a transfer may succeed
\* only at a later try; announces: the controller sends messages of plugging in and out;
\* unplugAt: where the driver may be when the keyboard is pulled out.
ASSUME UsbAssumption ==
    /\ NoKeys \in Reports /\ Junk \notin Reports
    /\ Worlds \subseteq [acks : SUBSET BOOLEAN, punctual : BOOLEAN, retries : BOOLEAN,
                         announces : BOOLEAN, unplugAt : SUBSET Pcs]

VARIABLES
    pc, step,       \* main: the position in the code, and the list at hand
    val,            \* UsbWaitTDListDone: the message read
    port,           \* the keycode port
    pending,        \* where pCurrentTDPtr points: "none", a "list", "descriptor"
    stage,          \* the list the controller executes: "idle", "setup", "data"
    seen,           \* during its setup: the lists of which it may find words
    running,        \* that list once its setup was accepted, otherwise 0
    torn,           \* another list was written over it
    under,          \* the list that is being written over, then the list in memory
    mem, control,   \* the list in memory, and its first transfer's control byte
    report,         \* the buffer for reports, 0x51C
    msg, flag,      \* the SIE1 message register, and its flag in the status
    mailbox,        \* "empty", a "command", or its answer: "ack", "refused"
    dev, held,      \* the keyboard, and what it would report
    world           \* the surroundings, which never change
driver == <<pc, step, val, port>>
chip   == <<pending, stage, seen, running, torn, under, mem, control, report, msg, flag,
            mailbox>>
keyboard == <<dev, held>>
vars == <<driver, chip, keyboard, world>>

TypeOK ==
    /\ pc \in Pcs /\ step \in Lists
    /\ val \subseteq {"Done", "Change"} /\ msg \subseteq {"Done", "Change"}
    /\ port \in Reports \cup {Junk} /\ report \in Reports \cup {Junk}
    /\ pending \in {"none", "list", "descriptor"} /\ torn \in BOOLEAN /\ flag \in BOOLEAN
    /\ stage \in {"idle", "setup", "data"}
    /\ running \in Lists \cup {0} /\ mem \in Lists \cup {0}
    /\ seen \subseteq Lists \cup {0} /\ under \in Lists \cup {0}
    /\ mailbox \in {"empty", "command", "ack", "refused"}
    /\ control \in {"active", "clean", "other"}
    /\ dev \in {"absent", "attached", "default", "addressed", "configured"}
    /\ held \in Reports /\ world \in Worlds

Init ==
    /\ pc = "HotPlug" /\ step = SetAddress /\ val = {} /\ port = NoKeys
    /\ pending = "none" /\ stage = "idle" /\ seen = {} /\ running = 0 /\ torn = FALSE
    /\ under = 0 /\ mem = 0 /\ control = "other" /\ report = Junk
    /\ msg = {} /\ flag = FALSE /\ mailbox = "empty"
    /\ dev \in {"absent", "attached"} /\ held = NoKeys
    /\ world \in Worlds

-----------------------------------------------------------------------------
(* The driver: from the reset to the first list. *)

Goto(from, to) == pc = from /\ pc' = to
Present == dev # "absent"

\* UsbSoftReset and the registers; the two mailbox commands follow.
SoftReset ==
    /\ Goto("HotPlug", "InitSie")
    /\ pending' = "none" /\ stage' = "idle" /\ seen' = {} /\ running' = 0 /\ torn' = FALSE
    /\ msg' = {} /\ flag' = FALSE /\ mailbox' = "empty"
    /\ step' = SetAddress
    /\ UNCHANGED <<val, port, under, mem, control, report, keyboard>>

InitSie ==
    /\ Goto("InitSie", "AwaitAnswer")
    /\ mailbox' = "command"
    /\ UNCHANGED <<step, val, port, pending, stage, seen, running, torn, under, mem,
                   control, report, msg, flag, keyboard>>

\* The first command is waited for, without a limit, until the status is not zero:
\* the mailbox has been answered, or another message has come before that.
AwaitAnswer ==
    /\ mailbox \in {"ack", "refused"} \/ flag
    /\ Goto("AwaitAnswer", IF mailbox = "ack" THEN "BusReset" ELSE "HotPlug")
    /\ UNCHANGED <<step, val, port, chip, keyboard>>

\* Faulty variant: the bus is not reset.
BusResetSkipped ==
    /\ \E ack \in world.acks : Goto("BusReset", IF ack THEN "Detect" ELSE "HotPlug")
    /\ UNCHANGED <<step, val, port, chip, keyboard>>
\* The second is not waited for.
BusReset ==
    /\ \E ack \in world.acks : Goto("BusReset", IF ack THEN "Detect" ELSE "HotPlug")
    /\ dev' = IF Present THEN "default" ELSE dev
    /\ UNCHANGED <<step, val, port, chip, held>>

\* A keyboard that shows up within five tries goes on to the first list, one
\* that is waited for longer goes back to the reset.
Detect ==
    /\ \/ Goto("Detect", IF Present THEN "Send" ELSE "DetectAgain")
       \/ Goto("DetectAgain", IF Present THEN "Send" ELSE "AwaitDevice")
       \/ Present /\ Goto("AwaitDevice", "HotPlug")
    /\ UNCHANGED <<step, val, port, chip, keyboard>>

-----------------------------------------------------------------------------
(* The driver: one list. *)

\* Writes the words of the list at hand, which the controller may be taking from
\* memory.  The enumeration's lists run over the buffer for reports; the control byte
\* says that the transfer is to be done.
WriteList ==
    /\ under' = mem /\ mem' = step /\ control' = "active"
    /\ seen' = IF stage = "setup" THEN seen \cup {step} ELSE seen
    /\ torn' = (torn \/ (stage = "data" /\ running # step))
    /\ report' = IF step = Poll THEN report ELSE Junk

Send ==
    /\ Goto("Send", "Point")
    /\ WriteList
    /\ UNCHANGED <<step, val, port, pending, stage, running, msg, flag, mailbox, keyboard>>

Check ==
    /\ Goto("Check", IF flag THEN "WaitRead" ELSE "Resend")
    /\ UNCHANGED <<step, val, port, chip, keyboard>>

Resend ==
    /\ Goto("Resend", "PointAgain")
    /\ WriteList
    /\ UNCHANGED <<step, val, port, pending, stage, running, msg, flag, mailbox, keyboard>>

\* Writes the pointer to the list, its words being complete.  ConfigDesc2 sleeps
\* before the first look at the status.
Point ==
    /\ \/ Goto("Point", IF step = ConfigDesc2 THEN "Sleep" ELSE "Check")
       \/ Goto("PointAgain", "Sleep")
    /\ pending' = "list" /\ under' = mem
    /\ UNCHANGED <<step, val, port, stage, seen, running, torn, mem, control, report,
                   msg, flag, mailbox, keyboard>>

Sleep ==
    /\ Goto("Sleep", "Check")
    /\ world.punctual => stage = "idle" /\ pending = "none"
    /\ UNCHANGED <<step, val, port, chip, keyboard>>

\* UsbWaitTDListDone: the message is read, which clears its flag, and only then
\* cleared.
WaitRead ==
    /\ Goto("WaitRead", "WaitClear")
    /\ val' = msg /\ flag' = FALSE
    /\ UNCHANGED <<step, port, pending, stage, seen, running, torn, under, mem,
                   control, report, msg, mailbox, keyboard>>

AfterAnyList == "Control"                               \* faulty variant
AfterList == IF step = Poll THEN "ReadKeys" ELSE "Control"

WaitClear ==
    /\ Goto("WaitClear", IF val = {"Done"} THEN AfterList ELSE "WaitRead")
    /\ msg' = {}
    /\ UNCHANGED <<step, val, port, pending, stage, seen, running, torn, under, mem,
                   control, report, flag, mailbox, keyboard>>

\* Faulty variant: only a transfer that was tried and failed is an error.
SucceededOrPending == control # "other"
Succeeded == control = "clean"

\* The next list, or the polling loop.
Advance ==
    /\ pc' = IF step = ConfigDesc2 THEN "Endpoint" ELSE "Send"
    /\ step' = step + 1

\* main writes an endpoint's descriptor of its own over the one it has read, and
\* points the controller to it as if it were a list.
Endpoint ==
    /\ Goto("Endpoint", "Send")
    /\ pending' = "descriptor"
    /\ UNCHANGED <<step, val, port, stage, seen, running, torn, under, mem, control,
                   report, msg, flag, mailbox, keyboard>>

\* After a transfer that did not succeed at the first try, set address starts
\* over once it has looked at the retries, all other steps look at them for ever.
Control ==
    /\ pc = "Control"
    /\ IF Succeeded THEN Advance ELSE pc' = "RetryRead" /\ UNCHANGED step
    /\ UNCHANGED <<val, port, chip, keyboard>>

\* UsbGetRetryCnt.
RetryRead ==
    /\ Goto("RetryRead", IF msg = {"Done"} THEN "RetryClear" ELSE "RetryControl")
    /\ flag' = FALSE
    /\ UNCHANGED <<step, val, port, pending, stage, seen, running, torn, under, mem,
                   control, report, msg, mailbox, keyboard>>

RetryClear ==
    /\ Goto("RetryClear", "RetryWait")
    /\ msg' = {}
    /\ UNCHANGED <<step, val, port, pending, stage, seen, running, torn, under, mem,
                   control, report, flag, mailbox, keyboard>>

RetryWait ==
    /\ flag /\ Goto("RetryWait", "RetryControl")
    /\ UNCHANGED <<step, val, port, chip, keyboard>>

RetryControl ==
    /\ pc = "RetryControl"
    /\ IF step = SetAddress THEN pc' = "HotPlug" /\ UNCHANGED step
       ELSE IF Succeeded THEN Advance
       ELSE pc' = "RetryRead" /\ UNCHANGED step
    /\ UNCHANGED <<val, port, chip, keyboard>>

-----------------------------------------------------------------------------
(* The driver: the polling loop. *)

\* The control byte of a poll is not looked at.
ReadKeys ==
    /\ Goto("ReadKeys", "Presence")
    /\ port' = report
    /\ UNCHANGED <<step, val, chip, keyboard>>

\* Faulty variant: a keyboard that is back is polled on.
PresenceWithoutReset ==
    /\ \/ Goto("Presence", IF Present THEN "Send" ELSE "PresenceAgain")
       \/ Goto("PresenceAgain", IF Present THEN "Send" ELSE "Removed")
       \/ Present /\ Goto("Removed", "Send")
    /\ UNCHANGED <<step, val, port, chip, keyboard>>
\* A keyboard that is back within seven tries is polled on.
Presence ==
    /\ \/ Goto("Presence", IF Present THEN "Send" ELSE "PresenceAgain")
       \/ Goto("PresenceAgain", IF Present THEN "Send" ELSE "Removed")
       \/ Present /\ Goto("Removed", "HotPlug")
    /\ UNCHANGED <<step, val, port, chip, keyboard>>

Driver ==
    \/ SoftReset \/ InitSie \/ AwaitAnswer \/ BusReset \/ Detect
    \/ Send \/ Check \/ Resend \/ Point \/ Sleep \/ WaitRead \/ WaitClear
    \/ Control \/ Endpoint
    \/ RetryRead \/ RetryClear \/ RetryWait \/ RetryControl
    \/ ReadKeys \/ Presence

-----------------------------------------------------------------------------
(* The controller. *)

\* Lists start with a frame of the bus, once a millisecond; the driver takes far
\* less from one list to its repetition, and sleeps ten milliseconds after that.
\* What main sets up at the endpoint's descriptor is no transfer, and does nothing.
ChipStart ==
    /\ pending # "none" /\ stage = "idle"
    /\ world.punctual => pc = "Sleep"
    /\ pending' = "none" /\ running' = 0 /\ torn' = FALSE
    /\ IF pending = "list" THEN stage' = "setup" /\ seen' = {under, mem}
       ELSE stage' = "data" /\ UNCHANGED seen
    /\ UNCHANGED <<driver, under, mem, control, report, msg, flag, mailbox, keyboard>>

\* The keyboard answers to address 0 after a bus reset, then to the address it
\* was given; class requests and reports need a configuration.
Accepts(list) ==
    \/ list = SetAddress /\ dev = "default"
    \/ list \in DeviceDesc1 .. SetConfig /\ dev \in {"addressed", "configured"}
    \/ list > SetConfig /\ dev = "configured"

\* The first transfer of the list that is in memory now.
SetupWhole ==
    /\ IF Accepts(mem)
       THEN /\ running' = mem
            /\ control' \in {"clean"} \cup (IF world.retries THEN {"other"} ELSE {})
       ELSE /\ running' = 0 /\ control' = "other"
    /\ UNCHANGED torn

\* The first transfer of a mixture of lists: it may be that of any of them, or one
\* that is refused or does nothing; none succeeds where all of them were refused.
SetupMixed ==
    LET accepted == {list \in seen : Accepts(list)}
    IN  /\ running' \in {0} \cup accepted
        /\ control' \in {"active", "other"} \cup (IF accepted = {} THEN {} ELSE {"clean"})
        /\ torn' = TRUE

ChipSetup ==
    /\ stage = "setup" /\ stage' = "data" /\ seen' = {}
    /\ IF seen = {mem} THEN SetupWhole ELSE SetupMixed
    /\ UNCHANGED <<driver, pending, under, mem, report, msg, flag, mailbox, keyboard>>

\* What the list brought about, if it was carried to its end.
Effect ==
    /\ dev' = IF running = SetAddress /\ dev = "default" THEN "addressed"
              ELSE IF running = SetConfig /\ dev = "addressed" THEN "configured"
              ELSE dev
    /\ report' = IF running = Poll /\ dev = "configured" THEN held ELSE report

\* The end of a list that was written over meanwhile is anybody's guess.
ChipFinish ==
    /\ stage = "data" /\ stage' = "idle"
    /\ Effect \/ (torn /\ UNCHANGED <<dev, report>>)
    /\ msg' = msg \cup {"Done"} /\ flag' = TRUE
    /\ UNCHANGED <<driver, pending, seen, running, torn, under, mem, control, mailbox,
                   held>>

\* The answer to the first command of the mailbox.
ChipAnswer ==
    /\ mailbox = "command"
    /\ \E ack \in world.acks : mailbox' = IF ack THEN "ack" ELSE "refused"
    /\ UNCHANGED <<driver, pending, stage, seen, running, torn, under, mem, control, report,
                   msg, flag, keyboard>>

Chip == ChipStart \/ ChipSetup \/ ChipFinish \/ ChipAnswer

-----------------------------------------------------------------------------
(* The keyboard and its user. *)

Announce ==
    IF world.announces THEN msg' = msg \cup {"Change"} /\ flag' = TRUE
    ELSE UNCHANGED <<msg, flag>>

PlugIn ==
    /\ dev = "absent" /\ dev' = "attached" /\ Announce
    /\ UNCHANGED <<driver, pending, stage, seen, running, torn, under, mem, control,
                   report, mailbox, held>>

Unplug ==
    /\ Present /\ pc \in world.unplugAt /\ dev' = "absent" /\ Announce
    /\ UNCHANGED <<driver, pending, stage, seen, running, torn, under, mem, control,
                   report, mailbox, held>>

Type ==
    /\ held' \in Reports \ {held}
    /\ UNCHANGED <<driver, chip, dev>>

Next == (Driver \/ Chip \/ PlugIn \/ Unplug \/ Type) /\ UNCHANGED world

\* The processor and the controller run; the user owes nothing.
Fairness == WF_vars(Driver /\ UNCHANGED world) /\ WF_vars(Chip /\ UNCHANGED world)

Spec == Init /\ [][Next]_vars /\ Fairness
-----------------------------------------------------------------------------
(* What the driver promises. *)

Polling == step = Poll

\* However late, doubled, mixed or torn the lists were, a keyboard that has been there
\* since the reset is polled only once it has been configured, and asked for anything
\* else only once it has its address.
EnumeratedInOrder ==
    /\ Polling => dev \notin {"default", "addressed"}
    /\ step > SetAddress => dev # "default"

\* Commands are accepted, lists are done in time and succeed, and the keyboard is
\* pulled out only between a poll and the next, silently.
Calm ==
    /\ world.acks = {TRUE} /\ world.punctual /\ ~world.retries /\ ~world.announces
    /\ world.unplugAt \subseteq {"ReadKeys", "Presence", "PresenceAgain"}

\* The port shows what the keyboard reports, if that no longer changes and the
\* keyboard is not one that came back unnoticed between two polls.
PortFollowsKeyboard ==
    Calm => \A k \in Reports :
        <>[](held = k /\ Present /\ ~(Polling /\ dev = "attached")) => <>[](port = k)

\* A keyboard that is back after a removal the driver noticed is enumerated.
Reenumerates ==
    (Calm /\ pc = "Removed" /\ Present)
        ~> (Polling /\ pc = "Send" /\ dev = "configured")

(* What a comment of the source says and the code does not do. *)

\* "Check and wait until HUSB_TDListDone is read": the wait ends if that message
\* has come.
DoneEndsWait ==
    (pc = "WaitRead" /\ "Done" \in msg) ~> (pc \in {"Control", "ReadKeys"})
=============================================================================
