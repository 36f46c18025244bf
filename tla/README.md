# Verification of the LCC nodes

TLA+ models of the firmware in this repository, checked with TLC, and theorems
about them proved with TLAPS. Every definition is translated from the source
under `src/`; `PROJECT.json` names the lines each one stands for.

## 1. The system

The repository holds the firmware of three nodes of a model-railroad control
network (LCC, on CAN), all built on Zephyr, and what they share. The LCC protocol
itself is in liblcc and TrainUtils, outside the repository.

| component | source | state it keeps | operations and who calls them |
|---|---|---|---|
| **Crossing gate: routes** | `lcc-crossing-gate/src/crossing-gate.c`, `-init.c`, `-structs.c` | per route: the train's location and direction, when it was last seen, the route timer, the reactivation timer; `gate_flash_state`; the pin-change queue | `crossing_gate_update` (main thread, on every queued edge), manual activation and turnout events (main thread, from CAN), `crossing_gate_timer_expired` and `crossing_gate_reactivation_expired` (clock interrupt), `input_change` (GPIO interrupt) |
| Crossing gate: lights, servos, bell | `crossing-gate.c:18-117, 373-545` | lamp brightness, servo position and direction, bell | blink thread, servo and bell timers; started by `lower_arms` and `raise_arms` |
| Crossing gate: input reports | `main.c:641-732` | the level last read | a producer event for every queued edge of a free input |
| Crossing gate: buttons, console | `main.c:493-640` | the menu mode, press times, gridconnect mode | button interrupts, main loop, console thread |
| **Configuration storage** | `common/configuration_flusher.c`, `partition_utils.c`, `main.c:302-401` of the gate | RAM copies of five segments, their flash partitions, the dirty set, the flush timer | configuration writes, reboot and factory reset (main thread), flush (timer, then system work queue) |
| **SMTC-8 outputs** | `lcc-smtc8/src/tortoise.c`, `main.c:832-912` | per output: current and desired position, what the pins drive, three time stamps of its move; the supply lockout | events and accessory commands, configuration writes, the 250 ms pass (all main thread) |
| **SMTC-8 position saving** | `lcc-tortoise-state.c:150-201`, `power-handler.c`, `main.c:253-322, 418-445` | dirty flag, save flag, configuration partition, location partition with four copies | erase at the first change and configuration writes (main thread), save at the power failure (ADC interrupt) or the reboot, vote at start |
| **SMTC-8 switch tracker** | `switch-tracker.c`, `lcc-tortoise-state.c:203-274` | the last position of 2048 accessories, dirty flag, tracking partition | accessory packets, LCC queries, saving as above |
| SMTC-8 buttons, birthing, memory spaces | `main.c`, `birthing.c` | programming mode and its output | button interrupts, main loop, console |
| DCC decoding | `common/dcc-decode-stm32.c`, the copy in `lcc-smtc8` | timer capture readings | capture interrupt to main loop; the decoder is TrainUtils |
| **LCC-Link bridge** | `lcc-link/src/main.c`, `computer_to_can.c`, `can_to_computer.c` | ring buffers USB to CAN and CAN to USB, message queues of parsed, outgoing and incoming frames, the tail of a partial transmission | USB interrupt handler, parse thread, main loop, sending thread |
| LCC-Link: DCC packets, configuration, lights | `lcc-link/src/main.c`, `dcc_to_computer.c` | a ring buffer DCC to USB, settings | DCC decoder, main loop |
| Firmware upgrade | `common/firmware_upgrade.c`, `lcc-smtc8/src/firmware_upgrade.c` | the handle of the second slot | start, data and finish callbacks of liblcc |
| Bootloader (obsolete, says the repository's README) | `bootloader/Core/Src/bootloader.c` | the two image slots | runs once at power-up |

Vendored HAL and CMSIS code, generated start-up code, device trees and the
project template hold no logic of their own.

What is hard in it: a clock interrupt may clear a route between any two accesses
of the main thread; queues drop what does not fit; the flush runs in a cooperative
thread that interrupts the main thread anywhere; power fails between an erase and
a write, and an interrupt saves what it can in the middle of anything; a binary
semaphore and an interrupt mask must not lose a wake-up; the supply cuts moves off in the middle and puts them back; and the only
thing the node knows of a motor or of a train is time and a few inputs.

What makes each part correct:

* routes: the gates are down whenever a train is about to reach or on the island,
  they come up again behind it, they never stay down for a train that is lost, and
  no interleaving with the timers leaves them in a state nobody corrects;
* storage: an edit is marked dirty or in the flash at every instant, is taken off
  the dirty set only when saved, and gets to the flash at last;
* outputs: never more motors at once than configured, nothing powered out of
  range, every command carried out at last, a position reported only if reached;
* position saving: the flash is erased whenever the interrupt may have to write it, and
  after a power failure an output starts where it was;
* switch tracker: a switch is known as it was last commanded, or unknown, never as before;
* bridge: frames leave in the order and with the contents they came in, some may be lost,
  and nothing is left behind when the traffic pauses;
* bootloader: whenever power fails, the next start runs a whole image.

## 2. The modules

| module | models | extends |
|---|---|---|
| `CrossingGate` | the routes of the crossing gate | |
| `GateKeeper` | what a crossing promises of its gates, in three variables | |
| `CrossingGateProofs` | theorems about `CrossingGate`, which implements `GateKeeper` | `CrossingGate`, `TLAPS` |
| `CrossingTrain` | one route together with its track and trains of several lengths | `CrossingGate` |
| `CrossingTrainProofs` | theorems about it | `CrossingTrain`, `CrossingGateProofs` |
| `ConfigFlusher` | configuration storage of the crossing gate | |
| `SettingsStore` | what a store of settings promises to keep, in three variables | |
| `ConfigFlusherProofs` | theorems about `ConfigFlusher`, which implements `SettingsStore` | `ConfigFlusher`, `TLAPS` |
| `TortoiseMoves` | the outputs of the SMTC-8, the pass and the supply | |
| `TortoiseMovesProofs` | theorems about it | `TortoiseMoves`, `TLAPS` |
| `SmtcStorage` | what the SMTC-8 keeps over a power failure: positions, switches, configuration | |
| `SmtcStorageProofs` | theorems about it | `SmtcStorage`, `TLAPS` |
| `LinkChannel` | a channel that may lose frames but keeps their order | |
| `LccLink` | the LCC-Link, whose way from the computer to the bus implements `LinkChannel` | |
| `LccLinkProofs` | theorems about its threads and buffers | `LccLink`, `TLAPS` |
| `LccChannelProofs` | that it implements `LinkChannel` | `LccLinkProofs` |
| `MC...` | the instances that TLC checks | the module of that name |

### CrossingGate

One step of the main thread is one access to state that the clock interrupt shares
with it; `pc`, `cur`, `decided`, `on_island`, `expected` and `manual` stand for its
program counter and locals. An update is `PollPinChange`, then for every route
`HandleRoute` (the sensors and the branch chosen) followed by `EnterRoute`,
`SetHeading`, `TrainSeen` for a new train, `MoveTrain`, `TrainSeen` for a known one,
or `MoveMissed` when an interrupt took the train away in between, then
`CheckIsland` and `RefreshTimer`; then `ScanRoutes` and `SetFlash`.
`ManualActivation` enters at `enter` and runs an update afterwards, as the code
does. `TimerExpired` and `ReactivationExpired` are the interrupts, `InputChange` an
edge with its queued message, `SwitchEvent` a turnout event, `Tick` time.

Abstracted: polarities, names and logs; lamps, servos and bell (`arms` is where the
arms were last sent); the time of the last sighting is a countdown of the
debounce; how long the reactivation timer runs. An event-driven sensor never changes, as in the code;
`Neighbors` therefore compares inputs only, where `sensors_share_input` also compares
the event ids of such sensors (`crossing-gate-init.c:202-213`).

`CrossingTrain` adds a track of seven positions with sensors at 1, 3, 5 and 7 and a
train of odd length that moves one position at a time from either end, so no two
sensors change at once. It takes the main thread to be prompt: time passes only
when it waits. Everything else is `CrossingGate`'s own actions.

### GateKeeper

`GateKeeper` knows the routes that call for the gates (`calling`), the arms and whether
the crossing waits (`atRest`). Trains call and are released, the arms go down at any time
when not at rest, up only when nobody calls, and rest is reached only with arms that match.
`CrossingGate!KeepsTheGates` is that specification with `calling` mapped to the
routes whose location is before the island (`Calling`), and `atRest` to the main thread
waiting with nothing queued. All the interrupts and the half-done updates in between are
stuttering or `Wake`.

### ConfigFlusher

`EditSegment`, `LoadDirty`, `StoreDirty`, `StartFlushTimer` are one configuration
write, the `|=` in two steps. `ForceSegment` ... `Reboot` are the reboot command,
`BeginFactoryReset`, `ResetErase`, `ResetWrite` the reset with its own order of
segments and its retries. `TimerExpired` and `FlushSegment`, `FlushWrite`,
`FlushNext` are the flush, which holds up the main thread while it runs
(`MainAt`). `PowerFails` may happen anywhere; a segment cut off between its erase
and its write is read back as erased. An erase or a write that power cuts off in
its own middle is taken to have happened or not.

### SettingsStore

`SettingsStore` knows the settings the node works with (`used`), those it would start with (`kept`) and the
segments for which they may differ (`unsaved`). Only an unsaved segment is erased, a write puts what is used
and only where it is erased, a segment is taken off `unsaved` only when it is kept as it is used, and a power failure at any time
leaves the node with what is kept. `ConfigFlusher!KeepsSettings` is that
specification with `unsaved` mapped to what the code has marked dirty, what it is about to mark (the set that a `|=` has loaded
included) and what the main thread is saving (`Unsaved`).

### TortoiseMoves

`tort` is the array of `struct tortoise`; `SetPositionForce`, `DisableOutputs`,
`ResumeMove`, `EnableOutputs` are the functions of `tortoise.c`. The three time
stamps are replaced by what `tortoise_is_moving` computes from them: `moved`, the time
of the move that counts, and `paused`, what a resume puts it back to. `Pass` is one
250 ms pass: first the moves (`Performed`: the moving outputs that are to turn
back, and the lowest waiting ones while places are free), then the supply
(`CheckVoltage`). `Command` and `WriteConfig` come from the bus at any time between.
`machine` is not in the code: it is the position of each motor, which moves while
its output is powered. The machine is taken to need no more than the 2500 ms
that the code allows it.

`Init` is a start with a configuration, or that of a blank chip (`BlankStart`): `main` then calls
`factory_reset` instead of `tortoise_init_startup_position`, and no output is told to go anywhere until a
command names it. `FactoryReset` is the operator's reset: every output gets the first control type, none is set again, and `limit`, the
`max_turnouts_at_once` in RAM, is 0 until the next start.

Not in this model: pulse outputs (`cdi.xml` does not offer them), the programming
mode of the buttons, and a write of `max_turnouts_at_once` while the node runs.

### SmtcStorage

`Start` is `load_tortoise_settings` with the vote of the copies (`LastKnown`) and
`switch_tracker_init`; `FirstPass` the first turn of the main loop, which starts to
watch the supply. `main` is where the main thread is:

* a command of an output is `Command` (or `UnreadableEvent`, an event whose address cannot be read, which counts as a change),
  `MarkDirty`, `EnterDriver`, `EraseLocation`: the position, the mark and the erase, in that order;
* a command of a switch is `TrackSwitch`, `SetTrackerDirty`, `EraseTracker`, `MarkTracker`: the erase comes before the mark;
* a write of the configuration is `WriteConfig` or `FactoryReset`, `EnterDriver`, `EraseConfig`, `EnterDriver`, `FinishConfig`;
* `OtherFlash` and `OtherFlashDone` are the other calls of the flash driver: the global
  partition (also `WriteMode`) and the second image.

`Move` is an output that reaches its turn. `Reboot` is the reboot command and the end of a firmware upgrade.

The interrupt of the falling supply is taken between any two of these steps, and inside each flash operation:
`Dip` when the supply comes back, `PowerFails(k, t)` when the power lasts for `k` copies and `t` switches, `FlashCut` when it
fails inside a flash operation; `Reset` is a reset without the interrupt. The code runs from bank 1 of the flash and the data are in bank 2
(`lcc_smtc8.dts:233, 263`), so an erase does not hold up the processor: an interrupt that comes while the main thread is in the driver
(`Busy`) finds it locked and saves nothing. What is being erased is then left erased in part (`CutErase`). Erases and
writes of the main thread may also fail; the code then goes on without a word (`EraseLocation` with its mark left,
`EraseTracker` without a mark, `EraseConfig` without the write), and `history.failed` remembers it.

Abstracted: a copy of all positions is one double word, as in the code; the tracking
partition has one switch to a double word. Of the interrupt only what it writes is there. A configuration that was not rewritten to
its end reads as blank. Of the global partition only the time in the driver is modelled: `mode` is kept as it was last set. A partition is always found
(`flash_area_open`), the writes of the interrupt into erased flash work, and a call of the locked driver from the interrupt comes back without a
write (the driver is Zephyr's). `history` is not in the code, it
only remembers what the properties ask about the power cycle.

### LccLink

The four actors are the USB interrupt handler (`Receives`, `Transmits`,
`DisablesInterrupt`), the parse thread (`ParserWakes`, one `ParserReads` for a piece,
`ParserPuts`, `ParserRests`), the main thread (`MainForwards`, `ShowsBusFrame`,
`ShowsLocalFrame`, `PutsLineEnd`, `EnablesInterrupt`) and the sending thread
(`SenderTakes`, `SenderSends`). A frame of gridconnect text is two pieces, which a full ring or a
short transmission can tear apart; a lone delimiter is text that ends no frame. liblcc's parser
is external: of two halves that do not belong together it makes some frame or none, and
then `computer_to_can_parse` leaves the frame as it was (`ParsedFrames`). One static buffer is read into and
sent from, and the tail of a short transmission is taken from its end (`Rest`).
The node's own frames (`Local`) go to both sides. Every frame has a text (`can_to_computer.c:46`
returns -1 for one that liblcc cannot convert), and text longer than any frame, which resets the parser without a result when its delimiter is the last byte of
the parser's buffer (`computer_to_can.c:113, 131`), is not told apart from other torn text.

`ChannelImplemented` maps it to `LinkChannel`: `damage` is what can still come out
wrong, the delimiters in the text that end no whole frame (`TornFrames`) and the frames in
the queues that were there before (`PipelineStrays`).

Not in the model: the priority of the main thread's queues over each other, and the
packets of the DCC decoder, which go to the computer through a ring and a port of their own.

## 3. The runs

Run any of them with `tlc -config <cfg> <module>`.

| run | what it asks | instance |
|---|---|---|
| `gate_track` | do the gates follow the trains, is every occupied route timed, is every release justified, do gates come up and go down at last, is every step one of `GateKeeper` | one route, four inputs, any edges, timeout 2 ticks, debounce 1, queue of 2; 78,532 states |
| `gate_junction` | is every step one of `GateKeeper`, do the arms rise only when no route is occupied, when two routes share their island | two routes, an event-driven turnout, queue of 1, timeout 1; 1.3 million states |
| `trains` | do real trains, one after the other, find the gates down on the island and leave them up behind | lengths 1 to 9, timeout 7, one or two ticks per position; 5438 states |
| `gate_unused` | *violated*: a sensor configured as unused reports no train | one route, two wired sensors |
| `train_stops` | *violated*: the gates stay down while a train stands across the island | length 3, timeout 3 |
| `flusher_power` | is every edit dirty, being saved or in the flash, whatever interrupts what and whenever power fails; is every step one of `SettingsStore` | three of the gate's five segments, two values, a flash that works; 58,444 states |
| `flusher_faults` | *violated*: a segment is clean only when saved, if the flash may fail | as above |
| `tortoise_moves` | limit, supply and arrival of moves; is no place left empty while an output waits; does every output get there | two outputs of any control type, one place, moves of 2 ticks, from a configured and a blank chip; 1,427,812 states |
| `smtc_storage` | is the flash ready when the supply fails or dips, do outputs restart where they were, do switches come back, and is none ever loaded as it was before, wherever the interrupt comes | two outputs, two copies, two switches, all orders of commands, writes, dips, cuts, failures and resets; 2,002,387 states |
| `lcc_link` | does the link implement `LinkChannel`, does no thread sleep on data, is every byte for the computer accounted for, does everything arrive | rings of 4 pieces, queues of 1, transmissions of up to 3, three frames or delimiters; 290,584 states |
| `tortoise_recovery` | *violated*: never more motors at once than the limit | three outputs, limit 2 |
| `tortoise_starved` | *violated*: an output that needs to move moves at last | two outputs, limit 1 |

**Bounds, and why they are enough.** Timeouts and debounces of one or two ticks
let every order of edges, expiries and steps occur; longer ones only repeat them, and
the theorems hold for every value. A queue of one or two is full in both gate runs.
The junction has the two interactions of two routes: a shared island sensor and one
update over both; the code treats a third like the second. `trains` has a pace that satisfies
`Paced` (section 4) and every kind of train, from one shorter than the gap between
sensors to one that covers the island and overhangs it; the theorems hold for every length and pace. The flusher
has five segments in the code; three have a first, a middle and a last one, in the order of the
flush and in that of the factory reset. In `tortoise_moves` two
outputs compete for one place, the smallest case in which one waits for another; a move of two
ticks can be cut off or turned back at its start, in its middle and at its end. Its constraint `ResetIsLast` keeps the
configuration as it is after a factory reset, after which nothing moves any more until the next start; its
safety properties are theorems for any number of outputs and any limit. `smtc_storage` has
two outputs, so that a command of one meets the state of the other, two copies, so that a
save can be cut between them and the vote can tie, and two switches. Outputs and tracker share the
interrupt, the flash driver and the main thread. The constraint `OneMoves` explores either the outputs alone, or the tracker beside
outputs that keep the factory settings and do not move: marks, erases, failures and rewrites of the one then meet the dirty flag of the other.
`FailureIsLast` lets the main thread begin nothing after a failed erase or write, so that what is explored is the flash it leaves to the
next start. The theorems need no such constraints. In `lcc_link` a ring of 4 pieces is filled by text of a frame and a half and by a frame with
its line end, a queue of one overflows with the second frame, and a transmission of three
pieces can be full or not and cut after each piece; the safety properties
and the refinement are theorems for every size.

**Fairness.** `CrossingGate!Fairness`: the main thread runs again (it is the only
one of its priority and every wait in it ends), time passes, and the interrupts that are
due are taken; nothing is assumed of tracks or operators.
`ConfigFlusher!FairPowerSpec`: ready threads run and the started timer expires.
`TortoiseMoves!FairSpec`: time passes and the main loop comes round to its pass, its
`k_poll` having a time limit of 250 ms. `LccLink!FairSpec`: pending interrupts are served and
each thread that can run does so at last, for each of them waits only on its own queue or semaphore, and the
computer goes on reading; the bus may stay off and the computer may stop writing. `CrossingTrain` and
`SmtcStorage` claim safety only.

**Assumptions in properties.** `ClearTrackRaisesGates` supposes that the track
stays clear and nobody activates by hand; `EditsReachFlash` that power and operator
leave the node alone; `MovesEventually` that the supply stays good, no command and
no configuration write comes any more and that outputs which cannot move do not take
all the places. `Undisturbed` in `CurrentWithinLimit` and `ArrivedWhenDone` leaves
out states in which some output was never moved since its last configuration (`tortoise_recovery` shows what happens in those)
or a factory reset has been made; `OffOutOfRange` and `HeldAtPosition` too speak of the time before a factory reset. `LastPositionSurvives` supposes that the
power lasts for one copy at least, that the supply did not dip before (after a dip
nothing arms the save again) and that the output has moved since the start;
`TrackerSurvives` that the power lasts for both partitions. Both suppose that the power does not fail while the main thread is
inside the flash driver, where nothing is saved, and `TrackerSurvives` leaves out the moment
between a change and its mark where the code loses it; `TrackerNeverStale` holds wherever the power fails, but
after the erase that follows the last command. All of them and `ReadyToSave` speak of power cycles without a failed erase or write. `StreamIntact` supposes that no transmission of
less than a full buffer was cut short, `FramesArrive` that no frame was lost to a full queue
or to the bus. `LinkChannel` allows one stray frame for each delimiter that ends no whole frame.

**Deadlock** is checked in every run but `lcc_link`, whose traffic is bounded and which
is done when all of it has arrived.

## 4. The proofs

### CrossingGate

`CrossingGateProofs` proves, for every number of routes, wiring, timeout, debounce
and queue size that `GateAssumption` admits (the assumption says no more than the
types of the configuration and that the queue holds a message):

| theorem | statement |
|---|---|
| `TypeCorrect` | `Spec => []TypeOK` |
| `GateInvariant` | `Spec => []GateInv` |
| `GatesMatch` | `Spec => []GatesMatchTrains` |
| `RoutesTimeOut` | `Spec => []OccupiedRouteTimesOut` |
| `RaisesOnlyWhenClear` | `Spec => RaiseOnlyWhenClear` |
| `ReleasedOnlyByClearIslandOrTimeout` | `Spec => ReleasedByClearIslandOrTimeout` |
| `GatesKept` | `Spec => KeepsTheGates`, the refinement of `GateKeeper` |

`GatesMatchTrains` is not inductive: it speaks of the moment when the main thread
waits and nothing is queued, and says nothing of how it got there. The invariant
`GateInv` adds three things to the types:

* `StaleFlashWakes`: whenever the flash state no longer fits the routes, a message is
  queued or the update is still before its scan. This holds because only the
  clock interrupt clears a route behind the main thread's back, it always puts a
  message, and a put that finds the queue full finds a message in it. At `arms` it
  distinguishes the two results of the scan: an interrupt can only make "occupied"
  stale, never "clear".
* `OccupiedRouteTimesOut`: an occupied route has its timer running or the main thread
  is about to start it. The direction of a train can be wiped by an interrupt between
  two stores, and then only this timer frees the route.
* `DecisionStands`: at `move`, what the decision rests on still holds, an interrupt
  having at most cleared the route.

`GatesKept` maps every step: those that enter, move or release a route are `Call`, `Release` or a
stutter (`RouteStep`), those of the scan and the arms are `Lower`, `Raise` or `Rest`
(`FlashStep`), where `StaleFlashWakes` tells that arms sent on a stale decision are not a rest,
and the others are `Wake` or a stutter (`OtherStep`).

Each lemma `Next...` goes through the actions of `Next` one by one. The action
properties follow from the invariant in the state before the step.

### CrossingTrain

`CrossingTrainProofs` proves of one route, with any set of odd train lengths and any
times that `TrainAssumption` admits (the four sensors are different inputs and no turnout
is on the route):

| theorem | statement |
|---|---|
| `TrainsAreInputs` | `TrainSpec => Spec` |
| `TrackerFollowsTrain` | `Paced`: `TrainSpec => [](GateInv /\ TrainInv)` |
| `IslandIsProtected` | `Paced`: `TrainSpec => []IslandProtected` |
| `GatesRise` | `Paced`: `TrainSpec => []GatesRiseBehindTrain` |
| `RouteIsFree` | `Paced`: `TrainSpec => []RouteFreeAfterTrain` |

`TrainsAreInputs` makes everything proved of `CrossingGate` hold with trains on
the track. The others need a pace that the configured times fit, which `Paced` states:

* the debounce is over when a train that came in reaches the island (`Debounce <= 2 * MinStay`),
  or its edge there would be skipped;
* the timer outlasts the longest stretch between two edges that restart it: the way from one sensor
  to the next (`2 * MaxStay < Timeout`), and the way on which a train of length n covers both ends of
  the island and touches no further sensor (`(n - 6) * MaxStay < Timeout`);
* the next train stays away until the timer has freed the route behind a train that
  overhung it (`Timeout <= Headway`).

The bounds are sharp in TLC: with the paces of 2 and 3 ticks `TrainInv` holds for a timeout of
10 and a debounce of 4, and fails for a timeout of 9 or a debounce of 5. `Trains.cfg` satisfies
`Paced`, `TrainStops.cfg` does not, and shows what happens then.

The three properties only speak of moments when the controller is at rest; the proof needs to
know where it is in between. `TrainInv` says that the pins show the train (`PinsFollowTrain`), that there is at most one edge to
handle and the train does not move before it is handled (`OneAtATime`), that the tracker has the train where
its head and tail put it, one edge behind while it handles one (`InStep` with `PlaceAt`), and how much the two
countdowns have left as a function of how far the train has come (`DebounceOver`,
`TimerRestarted`: since the last of the positions in `Marks` at which the timer was restarted the
train cannot have taken longer than `MaxStay` for each). `FreeBehindTrain` covers the time between two trains. That the timer never
expires on a train that is on the route follows from the last mark before the head being near enough
(`Paced`), and that the pin handler restarts it at each mark from `InStep`.

### TortoiseMoves

`TortoiseMovesProofs` proves, for every number of outputs, every limit and every
length of moves and lockouts that `TortoiseAssumption` admits (a limit of at least one,
moves of at least one tick, any control types, any sharing of addresses), every safety
property that `tortoise_moves` checks:

| theorem | statement |
|---|---|
| `MovesTypeCorrect` | `Spec => []TypeOK` |
| `MovesInvariant` | `Spec => []MovesInv` |
| `MovesLimited` | `Spec => []MovingWithinLimit` |
| `SupplyCutOff` | `Spec => []OffOutOfRange` |
| `PositionHeld` | `Spec => []HeldAtPosition` |
| `CurrentLimited` | `Spec => []CurrentWithinLimit` |
| `Arrived` | `Spec => []ArrivedWhenDone` |
| `PlacesFilled` | `Spec => PlacesUsed` |

`MovingWithinLimit` is not inductive: time runs on in a lockout, so the moves that a
resume brings back cannot be counted by what moves just before it. `MovesInv` adds:

* `LimitKept`: in a lockout the limit holds for the moves that it paused
  (`Resuming`), and no move has less time behind it than when it was paused. So what
  counts as moving in a lockout is a part of what will be resumed.
* `OnTime`: a started move has a real position to go to, its output drives there
  (or is off in a lockout), and the distance left for its machine is no more than the time left.

Both hold until a factory reset as far as they speak of pins and machines; the limit holds after it too, as it only lets moves end.

The limit itself rests on three lemmas. `Ranks`: the number of members below it counts the members of a set of
outputs through, a bijection. `LowestFew`: hence those that have fewer than `k` below them are no more than `k`, and
exactly `k` if there are so many. `ChosenFit`: hence the outputs that a pass starts fit in
the free places. `PlacesFilled` is the other half: they fill them. It is the safety part of
`MovesEventually`: a place is never empty while an output that can move waits, so an output starves
only if idle ones, disabled or always on, hold every place, as in `tortoise_starved`. `WriteStartsNothing` shows that a configuration write only
ends moves, and `TickOnTime` that each tick brings a powered machine nearer by as much as
it uses of the time. `Arrived` and `CurrentLimited` follow, as a machine with a way
left belongs to a move under way (`TravellingIsMoving`).

### ConfigFlusher

`ConfigFlusherProofs` proves, for every number of segments, all contents and every
order of saves in the factory reset that reaches each segment (`FlusherAssumption`),
with power failures between any two steps (`PowerSpec`, which `FairPowerSpec` implies):

| theorem | statement | flash |
|---|---|---|
| `FlusherTypeCorrect` | `PowerSpec => []TypeOK` | may fail |
| `DirtyGetsFlushed` | `PowerSpec => []DirtyHasTimer` | may fail |
| `FlusherInvariant` | `PowerSpec => []FlusherInv` | works |
| `NoEditForgotten` | `PowerSpec => []DirtyTracksFlash` | works |
| `CleanIsSaved` | `PowerSpec => SavedBeforeClean` | works |
| `RebootKeepsEdits` | `PowerSpec => RebootLosesNothing` | works |
| `FlusherIsStore` | `PowerSpec => KeepsSettings`, the refinement of `SettingsStore` | works |

"Works" is the hypothesis `FlashFails = FALSE`; without it `CleanIsSaved` is false, as
`flusher_faults` shows. `FlusherInv` describes how far the three loops over the segments
have come: what the flush has been through and was dirty is saved
(`FlushedSoFar`), what a forced write or a factory reset has been through is saved or just being
rewritten by a flush (`ForcedSoFar`, `ResetSoFar`). When the flush returns in the middle of a
save of the main thread, the segment is no longer erased, but then it is saved, and
the refused second write does no harm. `LoadedKeepsDirty` is the reason why a flush in
the middle of `|=` loses no mark: it only takes bits off, so what was loaded has them all.
`TimerKept` excepts the one moment at which a segment is dirty without a timer.

`FlusherIsStore` maps the steps thread by thread (`EditStores`, `ForceStores`, `ResetStores`, `FlushStores`) to three kinds of abstract step
(`StepSettles`, `StepErases`, `StepWrites`). The invariant is needed where the two threads meet: the second write of a segment that
the flush has saved in the meantime is refused and settles it (`StepWrites`), and at the end of the loops
`ForcedSoFar`, `ResetSoFar` and `FlushedSoFar` say that what leaves `Unsaved` is in the flash.

### SmtcStorage

`SmtcStorageProofs` proves, for every number of outputs, copies and switches
(`StorageAssumption`), with the interrupt between any two steps and inside any flash operation, with erases and saves cut
anywhere and operations that fail, every property that `smtc_storage` checks:

| theorem | statement |
|---|---|
| `StorageTypeCorrect` | `Spec => []TypeOK` |
| `StorageInvariant` | `Spec => []StorageInv` |
| `AlwaysReadyToSave` | `Spec => []ReadyToSave` |
| `PositionComesBack` | `Spec => LastPositionSurvives` |
| `TrackerComesBack` | `Spec => TrackerSurvives` |
| `TrackerIsNeverStale` | `Spec => TrackerNeverStale` |

`StorageInv` adds to `ReadyToSave`: a tracker just erased is not marked, so that no dip
writes it before its own mark (`ErasedBeforeMark`); a tracker not marked is in the
flash (`TrackerInFlash`); the stored configuration is what the save is armed by
(`ConfigInFlash`); and before the first erase of a power cycle every output that restarts from the
flash stands where the flash says, or has not moved (`PositionsInFlash`). All of it but the types
holds as long as no erase or write has failed. A failure lasts until the next start, which takes the flash as it finds it, so nothing is needed of the
flash that it leaves. `ReadySaves` shows that
the flash then takes the whole save. The vote is settled by counting: a save on an
erased partition leaves copies that say the right position and none that say another
(`OneVoteDecides`), and a save that the flash refuses or takes only in part, between the
mark and the call of the driver, can only change copies to what the vote already says (`VoteStands`).

### LccLink

`LccLinkProofs` proves, for every size of rings, queues and transmissions and any
traffic (`LinkAssumption`):

| theorem | statement |
|---|---|
| `LinkTypeCorrect` | `Spec => []TypeOK` |
| `LinkInvariant` | `Spec => []LinkInv` |
| `ParserNeverOversleeps` | `Spec => []ParserAwake` |
| `TransmitterNeverOversleeps` | `Spec => []TransmitterAwake` |
| `NoByteMissing` | `Spec => []NothingMissing` |
| `StreamKeptIntact` | `Spec => []StreamIntact` |

The four invariants are inductive with the types, the bound of the traffic and the fact that the
input holds only what a computer writes (`InputFromComputer`). `RestFacts` is the heart of the stream: the
tail kept of a transmission is as long as what was not sent, and is what was not sent if
nothing was left or the buffer was full.

`LccChannelProofs` proves, under the same assumption:

| theorem | statement |
|---|---|
| `FramesInOrder` | `Spec => []ChannelInv` |
| `LinkIsChannel` | `Spec => ChannelImplemented`, the refinement of `LinkChannel` |

The refinement maps `out` and `strays` to themselves and `damage` to a count over
two sequences that run through six buffers: the delimiters in the text not yet parsed that end no whole
frame (`Torn`), and the frames on their way to the bus that are undefined or will come again there (`Again`).
Order alone follows from `ChannelInv` (with `INVARIANT ChannelInv` added, `LccLink.cfg` checks it on the run's instance): every frame begun in the text is later than every one parsed, queued or on the bus
(`Passed`), and the begun ones are in order (`TextInOrder`). What is hard is the count. A step
appends to a sequence, cuts it, or takes out or puts in one element somewhere, and a lemma for each tells what that does to
the count (`AgainRemoved`, `AgainInserted`, `AgainAppended`, `TornAppended`, `TornCut`, `TornParsed`), by an
injection between the sets of positions (`Fewer`). The step that parses a delimiter is where the two counts meet: a
torn one leaves `Torn` and may enter `Again`, so the sum does not grow; a whole frame is in neither, as
`ChannelInv` puts it after all others. A stray on the bus was in `Again`, so `damage` falls when `strays` rises.

### What is only model-checked

The liveness properties, as fairness and `ENABLED` are beyond the prover: `ClearTrackRaisesGates`,
`TrainLowersGates`, `EditsReachFlash`, `MovesEventually`, `FramesArrive`, `ComputerServed`. Every safety property that
a run passes and all three refinements are theorems.

## 5. Where code and text differ

Shown by a run:

* a sensor configured as unused still starts a train (`gate_unused`; `cdi.xml:57` of the gate);
* a train that stands still across the island longer than the timeout is given up,
  as the refresh happens only when an edge starts an update (`train_stops`; the comment at `crossing-gate.c:295`);
* a save that fails clears the dirty bit all the same (`flusher_faults`; `configuration_flusher.h:17`);
* after a lockout at power-up every output is driven at once, in direction reverse
  if it was never moved (`tortoise_recovery`; `cdi.xml:157` of the SMTC-8);
* disabled and always-on outputs that were told to move take a place of every pass
  for ever, so with `max_turnouts_at_once` of them at the lowest numbers the others never
  move (`tortoise_starved`; `main.c:905`).

Seen while modelling, without a run of their own:

* the two gate events are produced the other way round (`crossing-gate.c:410, 450`; `cdi.xml:388`);
* `can_be_activated` is never cleared, so the neighbour inhibition has no effect (`crossing-gate-init.c:241`);
* `sensor_input_handle_event` has no caller, and a turnout event starts no update;
* a train that follows an overhanging one within the timeout is not seen, as the first one's location stays `post_incoming` or earlier (`CrossingTrain` keeps the `Headway`);
* a sensor input of 8 or more indexes past the eight inputs; a servo position below 100 wraps; the lamp brightness can go below zero when the gates become active while the lamps ramp down;
* a factory reset saves the segment with `base_event_id` last, so a power failure in between leaves events of two bases;
* holding the blue button on after it left the configuration mode enters it again;
* a configuration write switches every stall-motor output off, in mid-move too, until its next change of position (`tortoise.c:144`; `tortoise.h:111` says "turning it on or disabling as appropriate"), and powers always-on outputs while the supply is out of range;
* recovery of the supply drives disabled outputs too, and an always-on output in direction reverse;
* moving an output that is paused in the programming mode sets `delay_moving_time` to 0, and resuming it then subtracts the whole uptime; `factory_reset` leaves `max_turnouts_at_once` at 0 until the next start; 49 days after a move the output counts as moving again for 2.5 s; the old pulse timer can end a new pulse;
* a transmission of less than 64 bytes that USB takes only in part is continued with the end of
  the whole buffer, not of what was read into it, so the computer gets bytes of an
  older transmission (`lcc-link/src/main.c:153`; `StreamIntact` excludes it);
* `computer_to_can_parse` returns -1 for text it cannot parse and the thread takes that for a frame: the previous
  one, or an undefined one, goes to the bus once more, where the comment says "If we can't parse a
  full frame, we effectively don't do anything" (`computer_to_can.c:48`; `LinkChannel` allows it);
* a dip of the supply saves the positions and clears the flag that arms the save; moves after it are not saved until
  a configuration is written (`lcc-tortoise-state.c:177`; "Last State", `cdi.xml:57` of the SMTC-8);
* an output that has not moved since the start is saved as unknown; the copies then tie and an older position, that of the last
  configuration write, comes back; after the reset button it does for every output;
* power that fails while the main thread is in any flash erase or write (the positions', the tracker's, a configuration, a part of a new
  image) loses both the positions and the switches that were to be saved, as the interrupt finds the flash driver locked;
* an erase of the positions that fails leaves the mark, and the old copies then refuse every save of this power cycle (`lcc-tortoise-state.c:196`);
* a factory reset changes every control type and sets no output again: one that was always on stays powered out of range, one that was disabled stays off (`main.c:544`);
* a switch commanded just before the supply fails is lost when the interrupt comes before its mark (`TrackerSurvives` excludes it);
* the DCC translation mode takes effect at once, where `cdi.xml:138` asks for a reboot;
* power that fails while the configuration partition is rewritten brings the factory settings back;
* accessory 2048 passes the check of the switch tracker and indexes one past its table;
* the bootloader takes an image for newer only if all three parts of its version are greater.

## 6. Not modelled, and what could follow

The vendored HAL, CMSIS and start-up code is about nine tenths of the lines under
`src/` (`bootloader/Drivers` and `bootloader/Core`): register definitions and drivers without logic of
the nodes. A model of them would say nothing about this system, so the share of all lines that the modules cover stays
small; of the nodes' own code it is the part that keeps state over more than one call.

Left out, in the order in which it would be worth adding:

1. `GateLights` and `GateServos`: blink thread, PWM banks, servo and bell timers against
   changes of the flash state; the servo's 16-bit position (`crossing-gate.c:18-117, 502-560`).
2. `InputReports` and `ButtonMenu`: the levels reported for quick edges, the menus of both nodes, the programming mode in
   `TortoiseMoves`.
3. `Bootloader` and `FirmwareUpgrade`: images with power failures between the steps; the bootloader
   is obsolete by the repository's README.
4. The DCC capture interrupt, which only measures; its decoder is outside the repository, as are
   the CAN drivers and liblcc (birthing, memory spaces, aliases).

Theorems to come with them: the ranges of brightness and servo position where the code keeps them (1).
