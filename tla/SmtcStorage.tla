----------------------------- MODULE SmtcStorage ------------------------------
(***************************************************************************)
(* What the SMTC-8 keeps over a power failure: the positions of its        *)
(* outputs (lcc-tortoise-state.c), the switches it has seen on DCC         *)
(* (switch-tracker.c) and its configuration (main.c).                      *)
(*                                                                         *)
(* Both partitions are erased in advance, at the first change, and written *)
(* by the interrupt of the falling supply (power-handler.c), which may     *)
(* come between any two steps of the main thread, may run out of power     *)
(* half-way, or may turn out to be a dip after which the node goes on.     *)
(*                                                                         *)
(* While the main thread is inside the flash driver the processor goes on, *)
(* as code and data are in different banks, and the interrupt finds the    *)
(* driver busy: it saves nothing.  Erases and writes of the main thread    *)
(* may fail.  Of the global partition, and of the second image, only the   *)
(* time in the driver is modelled.  A partition is always found            *)
(* (flash_area_open), and a write of the interrupt into erased flash works.*)
(***************************************************************************)
EXTENDS Integers, FiniteSets

CONSTANTS
    NumOutputs,     \* 8 in the code
    NumCopies,      \* 4 in the code
    NumSwitches,    \* tracked DCC switches, one to a double word of the flash
    Startups,       \* the values of startup_control that the operator uses
    Modes           \* the values of do_dcc_translation that the operator uses

Outputs == 1..NumOutputs
Copies == 1..NumCopies
Switches == 1..NumSwitches

ASSUME StorageAssumption ==
    /\ NumOutputs \in Nat \ {0} /\ NumCopies \in Nat \ {0} /\ NumSwitches \in Nat
    /\ Startups \subseteq {"normal", "reverse", "last"}
    /\ Modes \subseteq {"off", "on", "save"}

Position == {"normal", "reverse"}
Unknown == "unknown"
Known == Position \cup {Unknown}
Startup == Position \cup {"last"}
Mode == {"off", "on", "save"}       \* do_dcc_translation

Erased == "erased"                  \* 0xFF, what no position is
Blank == [blank |-> TRUE]           \* the configuration partition, erased

VARIABLES
    phase,      \* "off", "starting" (the supply is not watched yet), "running"
    main,       \* what the main thread is in the middle of
    config,     \* tortoise_config: startup_control and last_known_pos
    stored,     \* the configuration partition
    desired,    \* desired_position
    current,    \* current_position
    armed,      \* save_tortoise_pos_on_shutdown
    dirty,      \* tortoise_pos_dirty
    copies,     \* the location partition
    mode,       \* do_dcc_translation, in RAM and in the global partition
    trackers,   \* trackers
    trackDirty, \* switch_tracker_dirty
    trackFlash, \* the switch tracking partition
    dcc,        \* "on"; "draining": disabled, with a packet in the queue; "off"
    history     \* see History

positionVars == <<config, stored, desired, current, armed, dirty, copies>>
trackerVars == <<mode, trackers, trackDirty, trackFlash>>
vars == <<phase, main, positionVars, trackerVars, dcc, history>>

ErasedCopy == [x \in Outputs |-> Erased]
AllErased == [i \in Copies |-> ErasedCopy]
NoTrackers == [s \in Switches |-> Erased]
AllNormal == [x \in Outputs |-> "normal"]

Config == [startup : [Outputs -> Startup], last : [Outputs -> Position]]
Vector == [Outputs -> Known]

(***************************************************************************)
(* No part of the code: what the properties ask about a power cycle.       *)
(***************************************************************************)
History ==
    [dipped : BOOLEAN,              \* the supply dipped and came back
     failed : BOOLEAN,              \* an erase or write of the main thread failed
     restored : SUBSET Outputs,     \* started from the saved positions
     tracking : BOOLEAN]            \* mode has been "save" all the time

NoHistory == [dipped |-> FALSE, failed |-> FALSE, restored |-> {}, tracking |-> FALSE]

FlashFails == history' = [history EXCEPT !.failed = TRUE]

-----------------------------------------------------------------------------
(***************************************************************************)
(* The flash (external): double words are programmed in order; the driver  *)
(* stops at one that is not erased, unless it is to become all zero.       *)
(***************************************************************************)
Refused(old, new, blank, zero) == {i \in DOMAIN new : old[i] # blank[i] /\ new[i] # zero}

Written(old, new, blank, zero, k) ==
    {i \in 1..k : \A j \in 1..i : j \notin Refused(old, new, blank, zero)}

Program(old, new, blank, zero, k) ==
    [i \in DOMAIN new |-> IF i \in Written(old, new, blank, zero, k) THEN new[i] ELSE old[i]]

\* The main thread is inside flash_area_erase or flash_area_write, and holds the
\* lock of the driver.
Busy == main \in {"erasing", "trackerErasing", "rewriting", "writing", "otherFlash"}

\* What power that is cut leaves of a partition that is being erased.
CutErase(flash, blank) ==
    {[i \in DOMAIN flash |-> IF i \in S THEN blank[i] ELSE flash[i]] : S \in SUBSET DOMAIN flash}

SomeoneRestores(c) == \E x \in Outputs : c.startup[x] = "last"

-----------------------------------------------------------------------------
(***************************************************************************)
(* save_tortoise_positions and save_switch_tracker, cut after k and t      *)
(* double words.                                                           *)
(***************************************************************************)

SavedVector == [i \in Copies |-> current]

SavesPositions == ~Busy /\ armed /\ dirty

PositionFlash(k) ==
    IF SavesPositions THEN Program(copies, SavedVector, AllErased, AllNormal, k) ELSE copies

\* Both flags are cleared when the write succeeds.
PositionsSaved ==
    SavesPositions /\ Written(copies, SavedVector, AllErased, AllNormal, NumCopies) = Copies

\* The ring of once: a tracker saved in one dip is not saved in the next.
TrackerOnce == ~Busy /\ mode = "save" /\ trackDirty /\ ~history.dipped

SavesTracker == ~Busy /\ mode = "save" /\ trackDirty

TrackerFlash(t) ==
    IF SavesTracker THEN Program(trackFlash, trackers, NoTrackers, Unknown, t) ELSE trackFlash

TrackerSaved ==
    SavesTracker /\ Written(trackFlash, trackers, NoTrackers, Unknown, NumSwitches) = Switches

-----------------------------------------------------------------------------
(***************************************************************************)
(* Start-up: load_tortoise_settings and switch_tracker_init.               *)
(***************************************************************************)
Votes(x, p) == Cardinality({i \in Copies : copies[i][x] = p})

\* Only a full set of copies counts.
VoteAll(x, c) ==
    IF Votes(x, "normal") = NumCopies THEN "normal"
    ELSE IF Votes(x, "reverse") = NumCopies THEN "reverse"
    ELSE c.last[x]

\* The majority of the copies; last_known_pos stays as it is when they tie.
LastKnown(x, c) ==
    IF Votes(x, "normal") > Votes(x, "reverse") THEN "normal"
    ELSE IF Votes(x, "reverse") > Votes(x, "normal") THEN "reverse"
    ELSE c.last[x]

Loaded(c) ==
    [c EXCEPT !.last = [x \in Outputs |->
        IF c.startup[x] = "last" THEN LastKnown(x, c) ELSE c.last[x]]]

\* tortoise_init_startup_position
StartPosition(x, c) == IF c.startup[x] = "last" THEN c.last[x] ELSE c.startup[x]

\* The flash as it is.
RawTracker(s) == trackFlash[s]

\* An erased double word reads as no position for its switches.
LoadedTracker(s) == IF trackFlash[s] = Erased THEN Unknown ELSE trackFlash[s]

FactoryConfig ==
    [startup |-> [x \in Outputs |-> "last"], last |-> [x \in Outputs |-> "normal"]]

\* A blank chip is reset to the factory settings, its outputs not told to go anywhere.
Start ==
    /\ phase = "off"
    /\ phase' = "starting"
    /\ main' = "idle"
    /\ IF stored = Blank
         THEN /\ config' = FactoryConfig
              /\ stored' = FactoryConfig
              /\ desired' = [x \in Outputs |-> Unknown]
              /\ armed' = TRUE
              /\ mode' = "off"
         ELSE /\ config' = Loaded(stored)
              /\ desired' = [x \in Outputs |-> StartPosition(x, config')]
              /\ armed' = FALSE
              /\ UNCHANGED <<stored, mode>>
    /\ current' = [x \in Outputs |-> Unknown]
    /\ dirty' = FALSE
    /\ trackers' = [s \in Switches |-> IF mode' = "save" THEN LoadedTracker(s) ELSE Unknown]
    /\ trackDirty' = FALSE
    /\ dcc' = "on"
    /\ history' = [dipped |-> FALSE, failed |-> FALSE, tracking |-> mode' = "save",
                   restored |-> IF stored = Blank THEN {}
                                ELSE {x \in Outputs : stored.startup[x] = "last"}]
    /\ UNCHANGED <<copies, trackFlash>>

\* powerhandle_init and powerhandle_check_if_save_required in the first pass.
FirstPass ==
    /\ phase = "starting"
    /\ main = "idle"
    /\ phase' = "running"
    /\ armed' = SomeoneRestores(config)
    /\ UNCHANGED <<main, config, stored, desired, current, dirty, copies, trackerVars, dcc, history>>

-----------------------------------------------------------------------------
(***************************************************************************)
(* The main thread.                                                        *)
(***************************************************************************)

\* check_for_turnout_changes starts a move.
Move(x) ==
    /\ phase = "running"
    /\ main = "idle"
    /\ current[x] # desired[x]
    /\ current' = [current EXCEPT ![x] = desired[x]]
    /\ UNCHANGED <<phase, main, config, stored, desired, armed, dirty, copies, trackerVars, dcc, history>>

\* incoming_event and accy_cb, for one output.
Command(x, p) ==
    /\ phase # "off"
    /\ main = "idle"
    /\ desired[x] # p
    /\ desired' = [desired EXCEPT ![x] = p]
    /\ main' = "commanded"
    /\ UNCHANGED <<phase, config, stored, current, armed, dirty, copies, trackerVars, dcc, history>>

\* An event that tortoise_incoming_event cannot convert: -1 counts as a change.
UnreadableEvent ==
    /\ phase # "off"
    /\ main = "idle"
    /\ main' = "commanded"
    /\ UNCHANGED <<phase, positionVars, trackerVars, dcc, history>>

\* Dirty before the first erase of this power cycle as well.
MarkWithoutErase ==
    /\ phase # "off"
    /\ main = "commanded"
    /\ dirty' = TRUE
    /\ main' = "idle"
    /\ UNCHANGED <<phase, config, stored, desired, current, armed, copies, trackerVars, dcc, history>>

\* set_tortoise_posistions_dirty, up to the erase.
MarkDirty ==
    /\ phase # "off"
    /\ main = "commanded"
    /\ dirty' = TRUE
    /\ main' = IF dirty THEN "idle" ELSE "marked"
    /\ UNCHANGED <<phase, config, stored, desired, current, armed, copies, trackerVars, dcc, history>>

\* The erase of set_tortoise_posistions_dirty; when it fails the mark stays.
EraseLocation ==
    /\ phase # "off"
    /\ main = "erasing"
    /\ main' = "idle"
    /\ \/ copies' = AllErased /\ UNCHANGED history
       \/ UNCHANGED copies /\ FlashFails
    /\ UNCHANGED <<phase, config, stored, desired, current, armed, dirty, trackerVars, dcc>>

\* A command of a DCC switch that no output answers to; a dip leaves one packet
\* at most in the queue of the decoder.
TrackSwitch(s, p) ==
    /\ phase # "off"
    /\ main = "idle"
    /\ mode # "off"
    /\ dcc # "off"
    /\ trackers[s] # p
    /\ trackers' = [trackers EXCEPT ![s] = p]
    /\ main' = "tracked"
    /\ dcc' = IF dcc = "draining" THEN "off" ELSE dcc
    /\ UNCHANGED <<phase, positionVars, mode, trackDirty, trackFlash, history>>

\* set_switch_tracker_dirty, up to the erase, which comes first here.
SetTrackerDirty ==
    /\ phase # "off"
    /\ main = "tracked"
    /\ main' = IF trackDirty \/ mode # "save" THEN "idle" ELSE "trackerErasing"
    /\ UNCHANGED <<phase, positionVars, trackerVars, dcc, history>>

\* Marked without an erase.
MarkOnly ==
    /\ phase # "off"
    /\ main = "trackerErasing"
    /\ main' = "trackerErased"
    /\ UNCHANGED <<phase, positionVars, trackerVars, dcc, history>>

\* When the erase fails there is no mark.
EraseTracker ==
    /\ phase # "off"
    /\ main = "trackerErasing"
    /\ \/ main' = "trackerErased" /\ trackFlash' = NoTrackers /\ UNCHANGED history
       \/ main' = "idle" /\ UNCHANGED trackFlash /\ FlashFails
    /\ UNCHANGED <<phase, positionVars, mode, trackers, trackDirty, dcc>>

MarkTracker ==
    /\ phase # "off"
    /\ main = "trackerErased"
    /\ trackDirty' = TRUE
    /\ main' = "idle"
    /\ UNCHANGED <<phase, positionVars, mode, trackers, trackFlash, dcc, history>>

\* A write to space 253, up to save_configs_to_flash.
WriteConfig(x, s) ==
    /\ phase # "off"
    /\ main = "idle"
    /\ config' = [config EXCEPT !.startup[x] = s]
    /\ main' = "configured"
    /\ UNCHANGED <<phase, stored, desired, current, armed, dirty, copies, trackerVars, dcc, history>>

\* factory_reset, up to the same point; its save_global_config is OtherFlash.
FactoryReset ==
    /\ phase # "off"
    /\ main = "idle"
    /\ config' = FactoryConfig
    /\ mode' = "off"
    /\ main' = "configured"
    /\ history' = [history EXCEPT !.tracking = FALSE, !.restored = {}]
    /\ UNCHANGED <<phase, stored, desired, current, armed, dirty, copies, trackers, trackDirty,
                   trackFlash, dcc>>

\* powerhandle_check_if_save_required, at the end of save_configs_to_flash.
ConfigDone == main' = "idle" /\ armed' = SomeoneRestores(config)

\* The erase of save_configs_to_flash; when it fails there is no write.
EraseConfig ==
    /\ phase # "off"
    /\ main = "rewriting"
    /\ \/ stored' = Blank /\ main' = "blanked" /\ UNCHANGED <<armed, history>>
       \/ UNCHANGED stored /\ ConfigDone /\ FlashFails
    /\ UNCHANGED <<phase, config, desired, current, dirty, copies, trackerVars, dcc>>

\* The write of save_configs_to_flash.
FinishConfig ==
    /\ phase # "off"
    /\ main = "writing"
    /\ ConfigDone
    /\ \/ stored' = config /\ UNCHANGED history
       \/ UNCHANGED stored /\ FlashFails
    /\ UNCHANGED <<phase, config, desired, current, dirty, copies, trackerVars, dcc>>

\* The main thread calls the flash driver for what it has got ready.
EnterDriver ==
    /\ phase # "off"
    /\ \/ main = "marked" /\ main' = "erasing"
       \/ main = "configured" /\ main' = "rewriting"
       \/ main = "blanked" /\ main' = "writing"
    /\ UNCHANGED <<phase, positionVars, trackerVars, dcc, history>>

\* A write to space 250.
WriteMode(m) ==
    /\ phase # "off"
    /\ main = "idle"
    /\ mode' = m
    /\ main' = "otherFlash"
    /\ history' = [history EXCEPT !.tracking = FALSE]
    /\ UNCHANGED <<phase, positionVars, trackers, trackDirty, trackFlash, dcc>>

\* A write to space 251, the end of a factory reset, a part of a new firmware.
OtherFlash ==
    /\ phase # "off"
    /\ main = "idle"
    /\ main' = "otherFlash"
    /\ UNCHANGED <<phase, positionVars, trackerVars, dcc, history>>

OtherFlashDone ==
    /\ phase # "off"
    /\ main = "otherFlash"
    /\ main' = "idle"
    /\ UNCHANGED <<phase, positionVars, trackerVars, dcc, history>>

-----------------------------------------------------------------------------
(***************************************************************************)
(* The supply.                                                             *)
(***************************************************************************)

\* The RAM is lost; only the flash is left (the global partition: mode).
Off ==
    /\ phase' = "off"
    /\ main' = "idle"
    /\ config' = FactoryConfig
    /\ desired' = [x \in Outputs |-> Unknown]
    /\ current' = [x \in Outputs |-> Unknown]
    /\ armed' = FALSE
    /\ dirty' = FALSE
    /\ trackers' = [s \in Switches |-> Unknown]
    /\ trackDirty' = FALSE
    /\ dcc' = "off"
    /\ history' = NoHistory
    /\ UNCHANGED mode

\* adc_irq_fn, after which the supply comes back; a save that finds the driver
\* busy keeps its flag.
Dip ==
    /\ phase = "running"
    /\ copies' = PositionFlash(NumCopies)
    /\ armed' = (armed /\ ~PositionsSaved)
    /\ dirty' = (dirty /\ ~PositionsSaved)
    /\ trackFlash' = TrackerFlash(NumSwitches)
    /\ trackDirty' = (trackDirty /\ ~TrackerSaved)
    /\ dcc' = IF dcc = "on" THEN "draining" ELSE dcc
    /\ history' = [history EXCEPT !.dipped = TRUE]
    /\ UNCHANGED <<phase, main, config, stored, desired, current, mode, trackers>>

\* adc_irq_fn, and the power lasts for k copies, and for t switches after all copies.
PowerFails(k, t) ==
    /\ phase = "running"
    /\ ~Busy
    /\ t > 0 => k = NumCopies
    /\ copies' = PositionFlash(k)
    /\ trackFlash' = TrackerFlash(t)
    /\ UNCHANGED stored
    /\ Off

\* reboot (LCC) and firmware_upgrade_finished save before they reset the node.
Reboot ==
    /\ phase # "off"
    /\ main = "idle"
    /\ copies' = PositionFlash(NumCopies)
    /\ trackFlash' = TrackerFlash(NumSwitches)
    /\ UNCHANGED stored
    /\ Off

\* The reset button, or a supply that fails before it is watched.
Reset ==
    /\ phase # "off"
    /\ ~Busy
    /\ Off
    /\ UNCHANGED <<stored, copies, trackFlash>>

\* The supply fails, or the node is reset, inside a flash operation of the main
\* thread; an interrupt saves nothing then.  A configuration that was not
\* rewritten to its end reads as blank.
FlashCut ==
    /\ phase # "off"
    /\ Busy
    /\ copies' \in IF main = "erasing" THEN CutErase(copies, AllErased) ELSE {copies}
    /\ trackFlash' \in
         IF main = "trackerErasing" THEN CutErase(trackFlash, NoTrackers) ELSE {trackFlash}
    /\ stored' \in CASE main = "rewriting" -> {stored, Blank}
                     [] main = "writing" -> {config, Blank}
                     [] OTHER -> {stored}
    /\ Off

\* A node fresh from the factory: all partitions erased.
Init ==
    /\ phase = "off"
    /\ main = "idle"
    /\ config = FactoryConfig
    /\ stored = Blank
    /\ desired = [x \in Outputs |-> Unknown]
    /\ current = [x \in Outputs |-> Unknown]
    /\ armed = FALSE
    /\ dirty = FALSE
    /\ copies = AllErased
    /\ mode = "off"
    /\ trackers = [s \in Switches |-> Unknown]
    /\ trackDirty = FALSE
    /\ trackFlash = NoTrackers
    /\ dcc = "off"
    /\ history = NoHistory

Next ==
    \/ Start \/ FirstPass
    \/ \E x \in Outputs : Move(x)
    \/ \E x \in Outputs, p \in Position : Command(x, p)
    \/ UnreadableEvent
    \/ MarkDirty \/ EraseLocation
    \/ \E s \in Switches, p \in Position : TrackSwitch(s, p)
    \/ SetTrackerDirty \/ EraseTracker \/ MarkTracker
    \/ \E x \in Outputs, s \in Startups : WriteConfig(x, s)
    \/ FactoryReset \/ EraseConfig \/ FinishConfig
    \/ EnterDriver
    \/ \E m \in Modes : WriteMode(m)
    \/ OtherFlash \/ OtherFlashDone
    \/ Dip
    \/ \E k \in 0..NumCopies, t \in 0..NumSwitches : PowerFails(k, t)
    \/ Reboot \/ Reset \/ FlashCut

Spec == Init /\ [][Next]_vars

-----------------------------------------------------------------------------
(***************************************************************************)
(* Properties.                                                             *)
(***************************************************************************)

TypeOK ==
    /\ phase \in {"off", "starting", "running"}
    /\ main \in {"idle", "commanded", "marked", "erasing",
                 "tracked", "trackerErasing", "trackerErased",
                 "configured", "rewriting", "blanked", "writing", "otherFlash"}
    /\ config \in Config
    /\ stored \in Config \cup {Blank}
    /\ desired \in Vector
    /\ current \in Vector
    /\ armed \in BOOLEAN
    /\ dirty \in BOOLEAN
    /\ copies \in [Copies -> Vector \cup {ErasedCopy}]
    /\ mode \in Mode
    /\ trackers \in [Switches -> Known]
    /\ trackDirty \in BOOLEAN
    /\ trackFlash \in [Switches -> Known \cup {Erased}]
    /\ dcc \in {"on", "draining", "off"}
    /\ history \in History

\* Whatever order commands, dips and resets come in: when the interrupt is to
\* save, the flash it will write is erased, so that no save is refused, except
\* between the mark of the positions and the end of their erase, if no erase failed.
ReadyToSave ==
    phase # "off" /\ ~history.failed =>
        /\ dirty /\ main \notin {"marked", "erasing"} => copies = AllErased
        /\ trackDirty => trackFlash = NoTrackers

\* As the output starts after the next power-up.
Restored(x) == StartPosition(x, Loaded(stored))

\* "Last State": after a power failure that the interrupt had the time to handle,
\* or a reboot, an output starts at the position it had reached, the interrupt
\* having come at any step of a command or of a configuration write, in which the
\* main thread is not inside the flash driver (PowerFails), if the supply had not
\* dipped before and no erase or write had failed.
LastPositionSurvives ==
    [][/\ phase = "running" /\ phase' = "off"
       /\ (\E k \in Copies, t \in 0..NumSwitches : PowerFails(k, t)) \/ Reboot
       /\ ~history.dipped /\ ~history.failed
       /\ stored # Blank
       => \A x \in history.restored :
            stored.startup[x] = "last" /\ current[x] # Unknown => Restored(x)' = current[x]]_vars

\* "Enable and save": when the power lasts for both partitions and the driver is
\* free, every switch is known after the next start as it was last commanded,
\* dips that were saved or refused and packets left in the decoder
\* notwithstanding, unless the interrupt came between a command and the mark of
\* the tracker, or an erase had failed.
TrackerSurvives ==
    [][/\ phase = "running" /\ phase' = "off"
       /\ PowerFails(NumCopies, NumSwitches) \/ Reboot
       /\ history.tracking /\ ~history.failed
       /\ main # "trackerErased"
       /\ main = "tracked" => trackDirty
       => \A s \in Switches : LoadedTracker(s)' = trackers[s]]_vars

\* However the node goes down, a cut in the middle of the save, of any other
\* flash operation and the reset button included, a switch is loaded as it was
\* last commanded or as unknown, and never as it was before, once the erase that
\* follows its command is through: the tracker is erased before it is marked.
TrackerNeverStale ==
    [][/\ phase # "off" /\ phase' = "off"
       /\ history.tracking /\ ~history.failed
       /\ main \notin {"tracked", "trackerErasing"}
       => \A s \in Switches : LoadedTracker(s)' \in {trackers[s], Unknown}]_vars

-----------------------------------------------------------------------------
(***************************************************************************)
(* The inductive invariant that the proofs rest on (SmtcStorageProofs).    *)
(***************************************************************************)

\* No dip between the erase and the mark of the tracker writes it again.
ErasedBeforeMark ==
    phase # "off" =>
        /\ main \in {"trackerErasing", "trackerErased"} => ~trackDirty
        /\ main = "trackerErased" => trackFlash = NoTrackers

\* A tracker that is neither marked nor about to be is in the flash.
TrackerInFlash ==
    phase # "off" /\ history.tracking /\ ~history.failed =>
        /\ mode = "save"
        /\ \/ trackDirty \/ main \in {"tracked", "trackerErasing", "trackerErased"}
           \/ \A s \in Switches : LoadedTracker(s) = trackers[s]

\* The stored configuration tells what to start from, and the save is armed by it.
ConfigInFlash ==
    phase # "off" /\ ~history.failed =>
        IF main \in {"blanked", "writing"} THEN stored = Blank
        ELSE /\ stored \in Config
             /\ main \notin {"configured", "rewriting"} => stored.startup = config.startup
             /\ phase = "running" /\ ~history.dipped => (armed <=> SomeoneRestores(stored))

\* Before the first erase of a power cycle the outputs are where the flash says.
PositionsInFlash ==
    phase # "off" /\ ~history.dipped /\ ~history.failed =>
        /\ main \in {"marked", "erasing"} => dirty
        /\ ~dirty \/ main \in {"marked", "erasing"} =>
             \A x \in history.restored :
                /\ main \notin {"commanded", "marked", "erasing"} => desired[x] = LastKnown(x, config)
                /\ current[x] \in {Unknown, LastKnown(x, config)}
                /\ main \notin {"blanked", "writing"} => LastKnown(x, stored) = LastKnown(x, config)

StorageInv ==
    /\ TypeOK /\ ReadyToSave
    /\ ErasedBeforeMark /\ TrackerInFlash
    /\ ConfigInFlash /\ PositionsInFlash

=============================================================================
