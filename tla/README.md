# Crazy Taxi: a TLA+ model

Crazy Taxi is a two-player racing game on a DE2-115 board (`src/lab8`): SystemVerilog
for the game and its picture, a NIOS II processor running C (`src/lab8/software/usb_kb`)
for the USB keyboard. Two taxis drive up three lanes, dodge rows of cones, and the first
to hit one loses. This directory models the game logic in TLA+, checks it with TLC on
small instances, and proves with TLAPS, for every value of the constants, all of the
safety properties its passing runs check, and the progress the liveness properties rest on.

## Inventory of the system

| Part | State it keeps | Operations, and who triggers them |
|---|---|---|
| `Display_control.sv` | `curr_state`, `enter_released` (Clk), `show_results_count` (FrameClk) | next state on every Clk edge, from the first key of the port, `GameOver`, `StartTransitionDone` |
| `Draw_start.sv` | positions of two cars on the title screen (FrameClk) | drive off the screen while `StartTransition`, otherwise back to the start |
| `Move_car.sv`, twice | x (the lane), y, three "key was up" flags (FrameClk) | jump, left, right, brake; guarded by where the other car is |
| `Draw_game.sv` | `progress`, `speed`, `count`, two remembered positions (FrameClk) | scroll, countdown, decide who earns a point |
| `Draw_obstacle.sv`, three times | `obstacle_y`, `Exists` (FrameClk) | hop ahead when the screen has passed |
| `Collision.sv` | `IsCar1_ded`, `IsCar2_ded` (FrameClk) | compare car and cone on the screen, in ten bits |
| `Points.sv` | two three-digit scores (FrameClk) | decimal increment |
| `random.sv` | 13-bit shift register, counter, a latch (its `Clk` is wired to FrameClk, its reset to `~DrawGame`) | one shift per frame of a game, a row every 252 frames; held at the seed outside of games |
| `DrawTree.sv`, `Draw_car.sv`, `Draw_points.sv`, `Draw_winner.sv`, `Draw_end.sv`, sprite RAMs | next to none | pixel addresses, from positions and the VGA beam |
| `VGA_controller.sv` | beam counters, sync (25 MHz) | produce the picture, and FrameClk as its vertical sync |
| `lab8.sv` | `Reset_h` (Clk) | wiring, reset, the choice of the screen's colours |
| `hpi_io_intf.sv`, `io_handler.c` | registered pins to the USB chip | one read or write of a chip register |
| `usb.c` | none of its own: lists of transfers in the chip's memory | build a list, start it, wait for the end |
| `main.c` | the step of the enumeration, data toggle, the key port | enumerate the keyboard, poll it, write the port, notice that it was pulled out |
| `Game_data.sv` | a register file on the Avalon bus | read, write, reset; nothing in the game uses it |

How they interact: `main.c` writes a report of up to four keys to the port `Keycode`;
`Display_control` and both `Move_car` read it at any time. `Display_control` tells all
others which screen is on; `Draw_start` and `Collision` (through `Draw_game`) tell it
when to leave it. Inside the race every register moves on FrameClk and reads the others'
values of the frame before.

What is hard:

* two clocks: the screen changes on Clk, between two frame edges, while the registers
  it looks at are set and cleared on FrameClk only;
* exits by tests for equality (`show_results_count == 300`, `Car1Y == 430`);
* two cars that move in the same frame without seeing each other's move, unsigned
  14-bit arithmetic, and positions cut to ten bits before they are compared;
* keys of two players in four slots, of which the state machine reads one;
* software that waits for hardware without limits, retries what may have been done
  already, and may lose the keyboard at any step.

What makes the parts correct: every game starts clean, ends exactly when somebody has
crashed or quits, and its verdict stays on screen; the screen never loses a car or the
cones for good; cars do not drive into each other; a crash is a contact; scores count
what the cars did.

## The modules

| Module | Models | State and actions |
|---|---|---|
| `GameControl` | `Display_control.sv`, the animation of `Draw_start.sv`, the latches of `Collision.sv`, the reset of `lab8.sv` | one variable per register, plus the port `Keycode` and the button `KEY0`; `ClkTick`, `FrameEdge`, `KeycodeWrite`, `ResetButton` |
| `Match` | a match as its players see it; abstract, implemented by `GameControl` | the scene, the cars lost, the frames shown; `Depart`, `Play`, `Crash`, `Finish`, `Show`, `End`, ... |
| `MCGameControl` | for TLC: the keys that matter, and a history variable for the Enter key | |
| `MoveCar` | `Move_car.sv` as a function from the registers of one frame to the next | operators only |
| `Race` (extends `MoveCar`) | `Draw_game.sv`, two `Move_car`, three `Draw_obstacle`, `Collision` | `Frame` is one edge of FrameClk for all of them; `StartGame`, `ShowResults`, `LeaveGame` change the screen |
| `MCRace` | for TLC: keys and cones to choose from | |
| `Score` | `Points.sv` and the remembered positions of `Draw_game.sv` | `RaceFrame`, `IdleFrame`, and the changes of the screen |
| `MCScore` | for TLC: a scorekeeper of its own for each car, as a history | |
| `CrazyTaxi` | `lab8.sv`: `GameControl`, `Race` and `Score` on one set of registers | `ClkTick`, `FrameEdge` (of every part at once), `KeycodeWrite`, `ResetButton` |
| `MCCrazyTaxi` | for TLC: keys of both players, rows of cones | |
| `Random` | `random.sv` as `Draw_game` clocks it | `FrameEdge`, `StartGame`, `LeaveGame` |
| `MCRandom` | for TLC: the program's numbers, a history of the rows picked, and the register's first three rows worked out (`Rounds`), which TLC evaluates as an assumption | |
| `UsbHost` | `main.c` with the waits of `usb.c`; external: the controller CY7C67200 and the keyboard | `Driver` is the code: an action per access of the controller that a message or a list may come before, a list in two (its words, its pointer); `Chip` the controller, `PlugIn`, `Unplug`, `Type` the user |
| `MCUsbHost` | for TLC: one key, and the surroundings | |
| `TransferLists` | the lists `usb.c` and the polling loop write, in the controller's memory | `WriteList`, `NextList` are the code; `Transfer` is the controller that follows a list |
| `MCTransferLists` | for TLC: lengths of a keyboard's descriptors | |
| `HpiBus` | `io_handler.c` and `hpi_io_intf.sv`; external: the controller's side of the bus | `CallIO`, `WritePort`, `ReadPort` are the software, statement by statement; `Clk` the registers, the bus and the controller; `WakeUp` the end of its boot |
| `HpiPorts` | what `usb.c` takes a call of `IO_read` or `IO_write` for; abstract, implemented by `HpiBus` | `Call`, one of `SetPointer`, `Write`, `Read`, `ReadStatus`, `Return`; `Disturb` by a reset |
| `GameControl_proof`, `Race_proof`, `Score_proof`, `UsbHost_proof`, `TransferLists_proof` | theorems about the module they are named for | |
| `Random_proof` | theorems about `Random` and the histories of `MCRandom` | |
| `HpiBus_proof` | theorems about `HpiBus`; that it implements `HpiPorts` | |
| `CrazyTaxi_proof` | that the wired game implements its parts, and with `GameControl_proof`, `Race_proof` and `Score_proof` what follows for it | |

In each module, operators marked *faulty variant* are plausible bugs, one operator each,
placed before the operator they would replace; no specification uses them. They say
what each property is able to notice.

### Two clocks in `GameControl`

Between two frame edges there are about 840 000 edges of Clk; a press of a key lasts
thousands. `ClkTick` is one edge. `frame_settled` (`key_settled`) records that since the
last frame edge (the last write of the port) the Clk registers have reached a state in
which a further edge changes nothing; `FrameEdge` and `KeycodeWrite` wait for it, which
takes them nine edges at most (theorem `ComesToRest`). Apart
from that the three kinds of event interleave in every way, so a key may arrive on the
last Clk edge before a frame edge. `ResetButton` may come at any time. Two things are
wider than the code: a frame edge after a reset may come later than in the code (where
it comes at once), and any frame of a game may report any combination of crashes;
`Race` says which frames do. `Init` is the state after the first frame edge that
follows power-up: before it the latches and the counter hold nothing meaningful.

### The race

`Race` takes the x coordinates for the lanes they encode (`Move_car.sv:16-24`); all
other positions are the code's. Right-hand sides read the unprimed state, as the
non-blocking assignments do. `HeldKeys` is what the players may hold in one frame and
`ConeRows` the rows the random generator may deliver (three bits, so any subset of the
lanes). `Horizon` bounds the runs: no frame of a race is taken once a car has passed it.
`count` is held at the end of the countdown; in the code it runs on and wraps after
2^25 frames.

### The scores

`Score` takes the positions of the cars as an input that stands, drives on or jumps,
since the increments depend on nothing else of the race. A score is a record of three
four-bit digits.

### The keyboard's driver

The reset (`SoftReset`) is followed by two commands through the controller's mailbox. The
answer to the first is waited for without a limit, until any bit of the status is set
(`InitSie`, `AwaitAnswer`, and `ChipAnswer` of the controller, which may never come); a
message that is there first is taken for a refusal. The second is looked at once
(`BusReset`).

Ten lists of transfers, nine of the enumeration and the poll, go through the same
actions: `Send` and `Point`, then `Check`, `Resend` and `Point` again until the status
shows a message, then the wait (`WaitRead`, `WaitClear`: two accesses of the bus, so that
a message can come between), then `Control`, the look at the first transfer's control
byte. What differs from list to
list is as in the code: set address goes back to the reset after a failure, the others
loop on the retry count; the fifth list sleeps before the first check; after it main
points the controller to the endpoint's descriptor (`Endpoint`); a poll's control byte is
not looked at.

The controller is not in the repository. `Chip` takes of it what the driver relies on: a
list is started from the pointer when the bus comes to a new frame, its transfers are done
from the memory as it is by then, the control byte of the first says whether it succeeded
at once, and a message follows. The message register is a bit map (`lcp_cmd.h`), its flag
in the status is cleared by reading it, and a list that is written over while it runs ends
in any way (`torn`). Data toggles are not in `UsbHost` (the controller gets over a wrong
one by itself) but in `TransferLists`. A report is taken as one piece, though it is read
in two words.

Writing a list takes 7 to 55 accesses: its words in the order of their addresses, then
the pointer. The controller can come in between, where the pointer of an earlier writing
is still to be followed, or while it is about to take the first transfer from memory. It
then finds the words of the new list up to some point and those of the one before from
there on. The model does not count words: `Send` and `Resend` write them, `Point` the
pointer, `seen` is the set of lists whose words the controller may find while it takes
the first transfer, and with more than one of them `ChipSetup` is `SetupMixed`. What that
allows was read off the lists (`usb.c:112-530`): between neighbours, a mixture is the
request of one of the two, or asks for a descriptor of a type there is none of (second
over first list, eighth over seventh), for a descriptor the keyboard is asked for anyway,
for configuration 0 (sixth over fifth), for the idle rate of another report (seventh over
sixth), or sends a packet that is no request (poll over ninth). None of these brings a
keyboard further than the request it is half of, so `SetupMixed` lets a mixture act as any
of its lists, or do nothing, and succeed where the keyboard takes one of them. Where the
controller finds words of three lists the same is assumed. A list written over after its
first transfer is `torn`, as above. With lists on time (`punctual`) there are no mixtures.

The variable `world` is chosen at the start and never changes: with
`punctual` a list is executed while the driver sleeps after sending it twice, as on a
board where nothing is slow; with `retries` a transfer may succeed at a later try only;
with `announces` the controller sends messages of plugging in and out; `acks` says whether
it may refuse the commands, or, empty, that it does not answer; `unplugAt` where the
driver may be when the keyboard is pulled out. The run `usb` has three worlds: one with
all of them at their worst and one more in which commands are never answered, for the
safety properties, and one that satisfies `Calm`, for the liveness properties.

`EnumeratedInOrder` asks for more than its name: a keyboard that is polled is configured
(or attached after the reset, or gone), and from the second list on none is at its default
address, where it would not hear the request. `PortFollowsKeyboard` speaks of `Calm`
worlds. So it sees neither a message that is lost between its reading and its clearing
(`DoneEndsWait` does) nor a report that is replaced between the reading of its two words.

`TransferLists` follows each list through a memory of bytes. Descriptors are six words;
only their fields that the code varies are kept (buffer, length, address, toggle, link). A
request is told apart by the descriptor it asks for and the most bytes it wants. `Lengths`
ranges over keyboards whose descriptors end in each of the transfers. A keyboard with
longer descriptors than the lists have room for is outside the model.

### The wiring

`CrazyTaxi` has no registers of its own. Its frame edge is that of `GameControl`, with
the moves, cones, scrolling, countdown and crash test of `Race` and the registers of
`Score` in the same step: all of them read the values before the edge, and the screen
the race sees is the state of the state machine at that moment. It closes what each part
leaves open: the crashes of `GameControl` come from the race, the keys of the race from
the four slots of the port, the positions of `Score` from the cars.

### The rows of cones

The register is the set of its bits that are one. `late` is the set of the bits of the
latch that, in a given build, still take the next value when the latch closes on the edge
on which its source changes; it is chosen at the start. The latch has no reset, and at
power-up holds anything. With the program's numbers, the rows of every game are the same,
up to the delays of the build; on a build that is late in no bit they begin, as the three
bits of the register, with 3, 4, 5, 3, 4, 7, 0. The sixth row blocks all three lanes and
can only be jumped. Until frame 251 of a game the latch shows the last row of the game
before, or what it held at power-up. The comment at `random.sv:38` ("after 13 shifts") is
about another counter than the code has, which counts 252 edges. `Race` and `CrazyTaxi`
allow any of a set of rows at any hop, which includes these.

### The bus to the USB controller

A statement of `io_handler.c` is one write or read of a port. Between two of them lie at
least `Pace` edges of Clk; the processor ("Tiny", `lab7_soc.qsys:468`) takes six or more
for an instruction. The model needs three: with two, the read of the data
comes before the controller's answer has passed both registers, and `ActsAsPorts` fails.
Two things the code relies on are assumptions of the model: a bus that nobody
drives keeps its last value (the word of a write is let go one clock before its strobe
ends at the pin), and the controller answers a clock after its strobe. It does so only
once it has come up, milliseconds after `IO_init`, which takes microseconds; before that,
the write strobe is on from power-up and the controller says nothing. The
mailbox port is not separate: to the bus it is like the status port. Memory is a few
words, so that every content and pointer occurs.

## Properties and runs

| Run | Module, config | Bounds | Shows |
|---|---|---|---|
| `control_real` | `MCGameControl`, `ControlReal` | the code's numbers, all of them; five keycode values (nothing; Enter or ` in the first slot; each in the second slot behind another key) | `TypeOK`, `TimerFresh`, `ResultsHaveVerdict`, `CrashEndsGame`, `CleanStart`, `VerdictStable`, `OnePressOneScreen`, `ImplementsMatch`; liveness `ResultsEnd`, `AnimationEnds`, `CrashLeavesGame` |
| `control_grave` | `MCGameControl`, `ControlGrave` | fewer result and animation frames | violation: ` in a later slot does not end the game (`GraveEndsGame`) |
| `control_winner` | `MCGameControl`, `ControlWinner` | as above | violation: after a double crash the results name a crashed car (`WinnerSurvived`) |
| `race_moves` | `MCRace`, `RaceMoves` | a road scaled down (jump 3, gap 2, threshold 5, hop 6, screen positions modulo 16), every single key of both players in every frame, cones in one lane, up to position 15 | `TypeOK`, `TrailBound`, `ScrollBackBounded`, `ConesInReach`, `OneRow`, `NoCreep`, `CollisionMeaning`, `CountdownSafe` |
| `race_phantom` | `MCRace`, `RacePhantom` | the code's numbers, cones in the middle or the outer lanes, up to 1600 | violation: a crash into a cone 1024 positions away (`CrashIsTouch`) |
| `score_small` | `MCScore`, `ScoreSmall` | buckets of 3, binary digits, cars that stand, drive and jump, up to 20, past the last score | `TypeOK`, `FirstScoreExact`, `SecondScoreBounded`, `DigitsDecimal` |
| `taxi` | `MCCrazyTaxi`, `Taxi` | the scaled road up to position 7, two result and two animation frames, five reports of keys, two rows of cones | refinements `Racing`, `Scoring`; `FreshGame` |
| `random` | `MCRandom`, `Random` | the program's register, counter and seed; five rows a game | `NeverStuck`, `EveryLaneVaries`, `GamesAlike` |
| `usb` | `MCUsbHost`, `Usb` | one key; three worlds: refused commands, late and mixed lists, retries, announcements, removal anywhere; the same with commands that are never answered; and a calm one with removals from the end of a poll to the next; 358,102 states | `TypeOK`, `EnumeratedInOrder`; liveness `PortFollowsKeyboard`, `Reenumerates` in the calm one |
| `usb_bitmap` | `MCUsbHost`, `UsbBitmap` | punctual lists that succeed, with announcements and removal anywhere | violation: the end of a list, read together with a removal, is thrown away (`DoneEndsWait`) |
| `lists` | `MCTransferLists`, `Lists` | the code's numbers; 25 keyboards | `WellLinked`, `TogglesAlternate`, `AddressKnown`, `RoomEnough`, `AnswersReadable` |
| `hpi` | `HpiBus`, `Hpi` | three words of memory, three clocks between statements, a reset at any clock | `NoContention`; refinement `ActsAsPorts` |

Why the bounds are enough: the race depends on its constants only through comparisons of
sums of them, and the scaled road keeps the order of all of them (a jump reaches beyond
the gap and the threshold beyond a jump; two jumps fit in a hop), which is what
`RoadAssumption` states and the proofs use. Position 15 is three times the threshold,
so the screen catches up several times with either car behind, and the row hops twice.
The countdown lasts two frames there, the fewest in which a row of cones that starts in
the wrong place can be found hit before it is over: a crash is latched one frame after
the cones are placed. In `taxi`, position 7 is past the threshold and one hop, and the
games before the one looked at end in every way at every frame; the parts' own long runs
are theirs, the question here is what they show each other. Three words are enough for
`hpi` because an access touches one word and the pointer, and a third tells a pointer
moved twice from one not moved. Five rows of `random` contain the three that
`EveryLaneVaries` speaks of, and histories of games broken off at each frame of each.
Real numbers are used where they are the point: the ten-bit aliasing of `Collision`,
the 300 and 430 of the equality tests, the register, and the transfer lists.

What the properties turned up about the code, each kept as a run that finds it: the quit
key counts in the first slot only; the second player wins a double crash; cones are hit
from 1024 positions away; a keyboard pulled out during a list can hang the driver. Some more
are part of what holds:

* exact alignment of a car with a cone's edge is not a hit (the two distances that
  `CollisionMeaning` excepts);
* a car or cone that reaches over the end of the ten-bit positions is compared with its
  edges the wrong way round: `CollisionMeaning` speaks of those that are `Whole`. With the
  program's numbers it takes a screen that has scrolled back by most of a jump, and a cone
  457 to 479 positions above its bottom, for the exception to be met on the visible
  screen;
* the ten-bit wrap apart, two cars come close only in the ways `NoCreep` lists;
* a transfer that needed a retry is never sent again (`RetryControl` loops), and if the
  lists are late enough `RetryWait` may wait for ever. The liveness properties are about
  `Calm` worlds;
* a keyboard put back between two polls is polled without an enumeration (the exception in
  `PortFollowsKeyboard`);
* the second player's score counts a bucket twice for each frame in which both cross
  (`SecondScoreBounded` bounds it);
* a start animation begun from a stale position takes 512 frames instead of 100
  (`AnimationEnds`);
* all games have the same rows of cones (`GamesAlike`).

### Refinement

`GameControl` implements `Match` (`ImplementsMatch`): the mapping forgets the clocks,
the keys and the registers' values on screens where they mean nothing. `Match` says in
one page what the two clocks, the equality tests and the latches together come to.

`HpiBus` implements `HpiPorts` (`ActsAsPorts`): each call takes effect once, at one moment
between call and return. This is what lets `UsbHost` and `TransferLists` take an access as
one step.

`CrazyTaxi` implements `Race` and `Score` (`Racing`, `Scoring`): every behaviour of the
wired game, seen through one part's variables, is a behaviour of that part's
specification. So the guards of `Race` on its environment (no frame of a game after a
crash, games start after the frames that reset the race) are not wishes but
what the state machine does, and what is proved of `Race` and `Score` for their own
specifications holds of the game.

### Fairness

`control_real` assumes weak fairness of `ClkTick` and `FrameEdge`: both clocks come from
the board's oscillator and never stop (reset holds the beam counters, and the
properties allow for a reset). No key and no button is assumed ever to be pressed.
Nothing else is fair.

The runs of the driver assume weak fairness of `Driver` and of `Chip`: processor and
controller run on. The user never has to plug in, pull out or type. That the
controller is in time (`punctual`) is part of `Calm`, and a strong assumption:
a list is sent a second time right after the first, and started once. Without it a
message can come between its reading and its clearing, and the driver waits for ever.
That commands are answered is part of `Calm` too.

## Proofs

**`GameControl_proof`**, for every number of result and animation frames and every set of
keycodes: `TypeCorrect`, `TimerAlwaysFresh`, `VerdictExists`, `CrashAlwaysEndsGame`,
`EveryStartClean`, `VerdictHolds`, `Implements`. The properties are not inductive: nothing
in "a game begins with dead latches clear" says why they are clear. The invariant `Inv`
adds two facts about time. `LeftoversAtStart`: a crash or a count is only ever set
together with the animation at its start (the frame edge that sets the one resets the
other), and the way into a game leads past the animation's end. `LeftInTime`: once Clk has
settled after a frame edge, a game with a crash or finished results have been left. With
them each of `ClkTick`, `FrameEdge`, `KeycodeWrite` and `ResetButton` preserves `Inv` (one
lemma each). `Implements` maps every step to one of `Match` or to a stutter, with `Inv` to
exclude the steps `Match` does not have. `OnePress`: on the start screen the flag
`enter_released` is never on unless Enter has been up since the screen came on.
`ControlAssumption` is used for: Enter, ` and "no key" are different, the counts fit in
ten bits. Two more theorems say why the liveness properties hold. `ComesToRest`:
`EdgesLeft` counts the edges of Clk that take the inputs in, then one per screen on the
way to the title. It is at most nine and falls with every edge until nothing changes, so
that the frame's clock, which waits for that in the model, is never kept waiting.
`AnimationApproaches`: the end of the start animation, a test for equality, is at most
1023 frames ahead from any position, by way of the wrap of the ten bits if need be, and
every frame of the animation is one of them. A frame adds the speed once; `FrameCovers`
keeps the rest of the way, a product of two unknowns, as one number, since only sums of it
matter.

**`Race_proof`**, for every geometry that satisfies `RaceAssumption`, `MoveCarAssumption`
and `RoadAssumption`, all keys and all rows of cones: `TypeCorrect`, `NoCarLeftBehind`
(`TrailBound`), `ScrollBack`, `ConesNear`, `ConesOneRow`, `CarsDoNotCreep`. Behind
`TrailBound` is `BothAhead`: two cars both above the threshold got there in the last
frame, so they are within a jump of each other and the screen, which then goes to the
second of the chain, leaves neither far behind. `AtStart` (nothing moves before the
countdown is over) and `InsideHorizon` (no position overflows) complete the invariant. On
top of it `CrashTestMeans` (`CollisionMeaning`), by the uniqueness of remainders: where
neither body straddles the wrap, the three comparisons of remainders decide about the
difference of the positions modulo `RelMod`; and `SafeCountdown`.

**`Score_proof`**, for every length of the buckets, every base and width of the digits, all
movements and games of any length: `TypeCorrect`, `DigitsStayDecimal`,
`FirstPlayerPaid`, `SecondPlayerPaid`. A point adds one to a score's worth modulo its
width (`IncrementValue`). Player 1's memory is the scorekeeper's, so the scores agree.
Player 2's may be behind it, but only by a crossing that was forgotten in a frame in which
player 1 was paid: `SecondPaid` keeps that one point (`Owed`) in reserve, without which
the bound is not inductive.

**`Random_proof`**: `Unstuck`, for every width, seed and set of taps with the highest bit
in it: the only value that shifts to zero but for the feedback is the highest bit alone,
which feeds back a one. `SameRows` (`GamesAlike`), for every register, seed and period,
every set of late bits and games of any number of rows. What the register holds at a frame
is defined by recursion from the seed, which the prover cannot unfold. The invariant
`Alike` says instead that there is a set of moments (row, frame, register) in which each
but `First` has another that it `Follows`, no two with the same row and frame differ, the
present is one, and each row seen came out of one (`Chronicle`). A frame adds a moment; if
there was one with its number, the moment before that was the present one, and both are
the same. `LanesVary` (`EveryLaneVaries`): games of any length, broken off at any frame.
That the first three rows block every lane and leave it free is a fact about this one
register and its first 756 shifts. `RoundsAssumption` of `MCRandom` states it, and TLC
evaluates it there: what the register holds after each shift (true of every register, by
what `Rounds` is), and that these rows vary, whichever bits of the latch are late.
`Tracks` then says that the register is where `Rounds` has it at each of the first 756
frames of every game, and the histories of blocked and free lanes hold the rows so far.
`Unstuck` and `SameRows` do not use the assumption.

**`UsbHost_proof`**, for every set of worlds and reports: `TypeCorrect`, `OrderKept`
(`EnumeratedInOrder`). All the driver knows of the keyboard is a control byte in memory,
and where lists are late or mixed that byte may come from a list before. The invariant
says what it is worth all the same. The list at hand is in memory while it is waited for
(`ListInMemory`), written over itself or over the one before (`ListBefore`), so what the
controller finds is of the last three lists at most, and of the last two if the byte says
success already (`SeenNear`). Success therefore means that the keyboard took one of the
last three, and from the third list after set configuration on all of these need a
configuration (`CleanMeansAccepted`): the lists between are the margin without which a
keyboard that never was configured could be polled. The first list has no such margin and
needs none: the reset leaves the controller at rest (`FreshStart`), so it is mixed with
no other (`FirstAlone`), and the message of its end means that the keyboard is no longer
at the default address, or is gone (`AddressTaken`). A bus reset, which sets a keyboard
back, meets the driver before its first list (`StartsOver`). Four theorems are about
`Calm` worlds, those of the liveness properties. Their invariant `CalmInv` has two parts:
driver and controller take turns, so that the one message there is after a list is cleared
before the next (`Rhythm`), and every list of an enumeration succeeds at once, with the
keyboard as far as the driver, but for one that was plugged in after the reset of the bus
(`Kept`, `Late`). From it: the driver waits for nothing that does not come
(`WaitsAnswered`); an enumeration ends only in the polling of a keyboard it has configured
(`EnumerationSucceeds`); while a keyboard is there, a natural number (`Rank`: the place
within the list, and thirty for each list to come) falls with every step of driver and
controller until the next poll, 326 steps at most from anywhere (`RoundsEnd`); and the
polls carry what is reported to the port (`PollsDeliver`). What `Reenumerates` and
`PortFollowsKeyboard` need beyond these is that driver and controller go on, which is
their fairness.

**`HpiBus_proof`**, for every memory, every `Pace` from 3 on and a reset at any clock:
`NeverContends` (`NoContention`). A write takes the read strobe back in its first
statement; by the third the strobe has left the pin and the answer has left the bus.
`PortsImplemented` (`ActsAsPorts`) needs the whole way from statement to pin and back.
`FullInv` adds which statements have which strobe on at the port (`AtPorts`), that the
strobes at the pins lag by one clock and a reset only turns them off (`AtPins`), that
without a reset the pins show the ports from the first clock after a statement on, and in
the clock in which a strobe goes off still the access that ends then (`InStep`), and when
the answer to a read is on the bus, in the register, and with the software (`Answered`).
The controller acts in exactly one clock of each call, the one after the strobe's last
statement (`WriteActs`, `ReadActs`); every other step is a stutter of `HpiPorts`, or, with
a reset, its `Disturb`. `PaceAssumption` is used at its full strength: with two clocks
between statements the proof of `Answered` fails where TLC finds the counterexample.

**`TransferLists_proof`**, for keyboards of all lengths `ListsAssumption` allows, and any
number of polls: `LinksLead` (`WellLinked`), `TogglesMatch` (`TogglesAlternate`),
`AddressedRight` (`AddressKnown`), `PacketsFit` (`RoomEnough`), `AnswersInPlace`
(`AnswersReadable`). `ListShape` goes through the lists once, number by number, and finds
that all have one `Shape`: links lead to the next descriptor, buffers lie behind the last
one, toggles alternate, and a buffer takes a packet or all that is left. The rest reasons
from the shape. `Inv` says how far the controller is (`InOrder`), which toggle
(`ToggleKept`) and address (`AddressGiven`) the keyboard has by then, that an unfinished
answer has come in full packets (`SentInFull`), and where its bytes are (`InPlace`).
`ListsAssumption` is what the lists are cut for: packets of eight bytes, a configuration
of at most 34 and a report descriptor of at most 59 bytes, and reports of at least six, as
`main.c` reads bytes 2 to 5.

**`CrazyTaxi_proof`**, for every instance that satisfies `TaxiAssumption`, the assumptions
of the parts: `GamesBeginFresh` (`FreshGame`), `TheRace` (`Racing`), `TheScores`
(`Scoring`). The wired game has to provide what `Race` and `Score` take for granted, above
all that a game starts from registers that are set back. They are set back by frames
outside of games, while the way into a game is a matter of Clk. The link is the start
animation, the only thing that leads into a game: it cannot have got anywhere without
frames, and each of those sets everything back (`FreshOnTheWay`). That a game with a crash
is left before the next frame comes from the invariant of `GameControl_proof`,
instantiated. `RaceHolds`, `CarsHold`, `ControlHolds`, `VerdictsHold` and `GameIsMatch`
then carry the theorems about `Race` and `GameControl` over to the game, by instantiating
their proof modules, so that no proof is repeated. `ScoresHold` does so for the scores, of
the game with the scorekeepers of `MCScore` beside it (`Kept`), and `ScreensGoOn` for
`ComesToRest` and `AnimationApproaches`. TLC has checked these formulas on the parts, not
on `CrazyTaxi`.

Only model-checked: liveness itself, since ENABLED and with it fairness are out of the
prover's reach: `ResultsEnd`, `AnimationEnds`, `CrashLeavesGame`, `PortFollowsKeyboard` and
`Reenumerates`. Proved are the safety halves, that the distance to what is waited for is
finite and shrinks (`ComesToRest`, `AnimationApproaches`, `RoundsEnd`) and that nothing
else is waited for (`WaitsAnswered`); that a step which is due is taken in the end is
left to TLC. Every other property that a passing run checks has its theorem.

## Not modelled, and what could come next

Not modelled, and why:

* colours and pixels (`Draw_winner`, `Draw_end`, `Draw_points`, `DrawTree`, `HexDriver`,
  the sprite memories, the multiplexers): functions of the beam's position without state
  that matters to the game; a wrong address is a wrong pixel;
* `VGA_controller.sv`: two counters that produce the frame clock; the models use the
  clock, of which they assume that it runs, and stands still in a reset;
* `Game_data.sv`: a register file nothing in the wiring uses;
* the print-out of the controller's memory and the classification of devices in `main.c`;
* a keyboard with longer descriptors than the lists have room for, and hubs;
* world positions past their wrap at 16384, some four and a half minutes into a race
  without a jump: every comparison of car, screen and cone is wrong there for a while. The
  runs and proofs of `Race` end at `Horizon`, below it;
* the parity of the polls across a second enumeration (`main.c:53`): the controller's own
  handling of a wrong toggle decides what happens, and is not in the repository;
* vendor and generated code: the hardware abstraction layers of three board support
  packages, `system.h`, the controller's register headers, Platform Designer's output,
  build products; and the older copies of this code in `lab7` and `software_codes`, which
  are not part of the build.

The last item is the greater part of the repository: of its source lines, the game's own
logic is a few thousand, in `src/lab8/*.sv` and four C files. The models
cover that logic but for the pixels; the share of all lines they cover stays small.

Next, in this order: a race across the wrap of the positions, with properties that speak
of distances modulo 2^14; `VgaController` under `GameControl`, so that the frame clock's
edge at the release of a reset is derived; and a second enumeration in `TransferLists`,
each with its proofs.
