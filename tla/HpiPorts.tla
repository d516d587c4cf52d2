------------------------------ MODULE HpiPorts ------------------------------
(***************************************************************************)
(* What usb.c and main.c rely on when they call IO_write and IO_read: each *)
(* call acts on the controller once, at one moment between call and        *)
(* return.  Writing the address port sets the pointer; the data port reads *)
(* or writes the word pointed to and moves the pointer on.  A call during  *)
(* which the reset button is down is the exception: it may do anything.    *)
(***************************************************************************)
EXTENDS Integers

CONSTANTS Last,     \* the words, and the addresses of the memory, are 0 .. Last
          Status    \* what the status port reads

VARIABLES
    call,           \* the last call made
    stage,          \* of that call: "called", "done", or returned: "idle"
    shaken,         \* the reset button was down during the call
    pointer, cell,  \* of the controller
    result          \* of an IO_read that is done
vars == <<call, stage, shaken, pointer, cell, result>>

Words == 0 .. Last
NoWord == -1
After(address) == (address + 1) % (Last + 1)

Calls ==
    [op : {"IO_write"}, port : {"HPI_ADDR", "HPI_DATA"}, data : Words]
        \cup [op : {"IO_read"}, port : {"HPI_DATA", "HPI_STATUS"}]

NoCall == [op |-> "none"]

Init ==
    /\ call = NoCall /\ stage = "idle" /\ shaken = FALSE
    /\ pointer \in Words /\ cell \in [Words -> Words]
    /\ result = NoWord

Call ==
    /\ stage = "idle" /\ stage' = "called"
    /\ call' \in Calls
    /\ shaken' = FALSE
    /\ UNCHANGED <<pointer, cell, result>>

Act(op, port) ==
    /\ stage = "called" /\ ~shaken
    /\ call.op = op /\ call.port = port
    /\ stage' = "done"
    /\ UNCHANGED <<call, shaken>>

SetPointer ==
    /\ Act("IO_write", "HPI_ADDR")
    /\ pointer' = call.data
    /\ UNCHANGED <<cell, result>>

Write ==
    /\ Act("IO_write", "HPI_DATA")
    /\ cell' = [cell EXCEPT ![pointer] = call.data]
    /\ pointer' = After(pointer)
    /\ UNCHANGED result

Read ==
    /\ Act("IO_read", "HPI_DATA")
    /\ result' = cell[pointer]
    /\ pointer' = After(pointer)
    /\ UNCHANGED cell

ReadStatus ==
    /\ Act("IO_read", "HPI_STATUS")
    /\ result' = Status
    /\ UNCHANGED <<pointer, cell>>

Disturb ==
    /\ stage # "idle"
    /\ shaken' = TRUE
    /\ stage' \in {"called", "done"}
    /\ pointer' \in Words /\ cell' \in [Words -> Words]
    /\ result' \in Words \cup {NoWord}
    /\ UNCHANGED call

Return ==
    /\ stage = "done" \/ (shaken /\ stage = "called")
    /\ stage' = "idle" /\ result' = NoWord
    /\ UNCHANGED <<call, shaken, pointer, cell>>

Next ==
    \/ Call
    \/ SetPointer \/ Write \/ Read \/ ReadStatus
    \/ Disturb
    \/ Return

Spec == Init /\ [][Next]_vars
=============================================================================
