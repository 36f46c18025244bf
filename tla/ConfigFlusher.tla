----------------------------- MODULE ConfigFlusher -----------------------------
(***************************************************************************)
(* How edits of the crossing gate's configuration reach the flash: the     *)
(* configuration flusher (a set of dirty segments, a one-shot timer of six *)
(* minutes, a work item on the system work queue), the save of a partition *)
(* (erase, then write), the reboot and factory-reset handlers, and power   *)
(* failures.                                                               *)
(*                                                                         *)
(* The work queue is a cooperative thread of a higher priority than the    *)
(* main thread, and the flash driver does not yield: the main thread runs  *)
(* only while the work item is idle, but can be preempted by it between    *)
(* any two of its steps.                                                   *)
(***************************************************************************)
EXTENDS Naturals

CONSTANTS
    NumSegments,    \* num_segments, in the order of memory_segments
    ResetOrder,     \* the order in which factory_reset saves them
    Value,          \* the contents a segment can have
    Default,        \* the contents crossing_gate_set_default_values gives it
    Erased,         \* what an erased partition reads as
    ResetTries,     \* how often factory_reset tries to save its first segment
    FlashFails      \* may an erase or a write return an error?

Segments == 1 .. NumSegments

ASSUME FlusherAssumption ==
    /\ NumSegments \in Nat \ {0}
    /\ ResetOrder \in [Segments -> Segments]
    /\ \A s \in Segments : \E k \in Segments : ResetOrder[k] = s
    /\ Default \in Value /\ Erased \notin Value
    /\ ResetTries \in Nat \ {0}
    /\ FlashFails \in BOOLEAN

VARIABLES
    ram,            \* the segment structures in crossing_gate_state
    flash,          \* the partitions
    segment_dirty,
    flush_timer,    \* is it running?
    main,           \* the main thread: [at, seg, loaded, tries]
    work            \* the work item: [at, seg]

vars == <<ram, flash, segment_dirty, flush_timer, main, work>>

MainLabel == {"idle", "load", "store", "start", "force", "force_erase", "force_write",
              "force_next", "reboot", "reset", "reset_write"}
MainThread ==
    [at : MainLabel, seg : Segments, loaded : SUBSET Segments, tries : 0 .. ResetTries]
WorkItem == [at : {"idle", "flush", "write", "next"}, seg : Segments]

MainIdle == [at |-> "idle", seg |-> 1, loaded |-> {}, tries |-> 0]
WorkIdle == [at |-> "idle", seg |-> 1]

Init ==
    /\ ram = [s \in Segments |-> Default]
    /\ flash = ram
    /\ segment_dirty = {}
    /\ flush_timer = FALSE
    /\ main = MainIdle
    /\ work = WorkIdle

-------------------------------------------------------------------------------
(* partition_util_save, in the two steps between which anything can happen. *)

\* The loops over the segments ending one segment late, or one early.
OneSegmentMore(s) == s <= NumSegments
OneSegmentLess(s) == s < NumSegments - 1

\* Is there a segment after s?
MoreSegments(s) == s < NumSegments

\* flash_area_erase
Erase(s, ok) == flash' = IF ok THEN [flash EXCEPT ![s] = Erased] ELSE flash

\* flash_area_write; the driver refuses to write where the flash is not erased
Write(s, ok) ==
    flash' = IF ok /\ flash[s] = Erased THEN [flash EXCEPT ![s] = ram[s]] ELSE flash

Outcome == IF FlashFails THEN BOOLEAN ELSE {TRUE}

-------------------------------------------------------------------------------
(* The main thread. *)

MainAt(label) == main.at = label /\ work.at = "idle"

\* A memory-configuration write: liblcc stores the data and calls
\* memory_space_written, which calls configuration_flusher_set_dirty ...
EditSegment(s, v) ==
    /\ MainAt("idle")
    /\ ram' = [ram EXCEPT ![s] = v]
    /\ main' = [main EXCEPT !.at = "load", !.seg = s]
    /\ UNCHANGED <<flash, segment_dirty, flush_timer, work>>

\* ... whose "|=" loads the set of dirty segments ...
LoadDirty ==
    /\ MainAt("load")
    /\ main' = [main EXCEPT !.at = "store", !.loaded = segment_dirty]
    /\ UNCHANGED <<ram, flash, segment_dirty, flush_timer, work>>

\* "=" in the place of "|=".
StoreOneDirty ==
    /\ MainAt("store")
    /\ segment_dirty' = {main.seg}
    /\ main' = [main EXCEPT !.at = "start", !.loaded = {}]
    /\ UNCHANGED <<ram, flash, flush_timer, work>>

\* ... and stores it with one more ...
StoreDirty ==
    /\ MainAt("store")
    /\ segment_dirty' = main.loaded \cup {main.seg}
    /\ main' = [main EXCEPT !.at = "start", !.loaded = {}]
    /\ UNCHANGED <<ram, flash, flush_timer, work>>

\* The timer is only started when no segment was dirty, by a test made too late.
StartWhenClean ==
    /\ MainAt("start")
    /\ flush_timer' = (flush_timer \/ segment_dirty = {})
    /\ main' = MainIdle
    /\ UNCHANGED <<ram, flash, segment_dirty, work>>

\* ... before it starts the six minutes anew.
StartFlushTimer ==
    /\ MainAt("start")
    /\ flush_timer' = TRUE
    /\ main' = MainIdle
    /\ UNCHANGED <<ram, flash, segment_dirty, work>>

\* The reboot command: configuration_flusher_force_write_if_dirty ...
BeginReboot ==
    /\ MainAt("idle")
    /\ main' = [main EXCEPT !.at = "force"]
    /\ UNCHANGED <<ram, flash, segment_dirty, flush_timer, work>>

\* ... looks at one segment after the other ...
ForceSegment ==
    /\ MainAt("force")
    /\ main' = [main EXCEPT !.at = IF main.seg \in segment_dirty THEN "force_erase"
                                                             ELSE "force_next"]
    /\ UNCHANGED <<ram, flash, segment_dirty, flush_timer, work>>

\* ... and saves those that are dirty ...
ForceErase ==
    /\ MainAt("force_erase")
    /\ \E ok \in Outcome :
        /\ Erase(main.seg, ok)
        /\ main' = [main EXCEPT !.at = IF ok THEN "force_write" ELSE "force_next"]
    /\ UNCHANGED <<ram, segment_dirty, flush_timer, work>>

ForceWrite ==
    /\ MainAt("force_write")
    /\ \E ok \in Outcome : Write(main.seg, ok)
    /\ main' = [main EXCEPT !.at = "force_next"]
    /\ UNCHANGED <<ram, segment_dirty, flush_timer, work>>

\* ... and, after the last one, clears the dirty set.
ForceNext ==
    /\ MainAt("force_next")
    /\ IF MoreSegments(main.seg)
         THEN /\ main' = [main EXCEPT !.at = "force", !.seg = @ + 1]
              /\ UNCHANGED segment_dirty
         ELSE /\ main' = [main EXCEPT !.at = "reboot"]
              /\ segment_dirty' = {}
    /\ UNCHANGED <<ram, flash, flush_timer, work>>

\* factory_reset puts the defaults in RAM and saves every segment, dirty or not,
\* trying the first save again while it fails.
BeginFactoryReset ==
    /\ MainAt("idle")
    /\ ram' = [s \in Segments |-> Default]
    /\ main' = [main EXCEPT !.at = "reset", !.tries = ResetTries]
    /\ UNCHANGED <<flash, segment_dirty, flush_timer, work>>

\* A save of the reset ended with or without an error; main.seg counts them.
ResetSaved(ok) ==
    IF main.seg = 1 /\ ~ok /\ main.tries > 1
      THEN main' = [main EXCEPT !.at = "reset", !.tries = @ - 1]
      ELSE IF MoreSegments(main.seg)
             THEN main' = [main EXCEPT !.at = "reset", !.seg = @ + 1]
             ELSE main' = MainIdle

ResetErase ==
    /\ MainAt("reset")
    /\ \E ok \in Outcome :
        /\ Erase(ResetOrder[main.seg], ok)
        /\ IF ok THEN main' = [main EXCEPT !.at = "reset_write"] ELSE ResetSaved(FALSE)
    /\ UNCHANGED <<ram, segment_dirty, flush_timer, work>>

ResetWrite ==
    /\ MainAt("reset_write")
    /\ \E ok \in Outcome :
        /\ Write(ResetOrder[main.seg], ok)
        /\ ResetSaved(ok /\ flash[ResetOrder[main.seg]] = Erased)
    /\ UNCHANGED <<ram, segment_dirty, flush_timer, work>>

-------------------------------------------------------------------------------
(* The timer interrupt and the work item. *)

\* configuration_flusher_timer_expired submits the work item.
TimerExpired ==
    /\ flush_timer /\ work.at = "idle"
    /\ flush_timer' = FALSE
    /\ work' = [at |-> "flush", seg |-> 1]
    /\ UNCHANGED <<ram, flash, segment_dirty, main>>

FlushSegment ==
    /\ work.at = "flush"
    /\ IF work.seg \in segment_dirty
         THEN \E ok \in Outcome :
                /\ Erase(work.seg, ok)
                /\ work' = [work EXCEPT !.at = IF ok THEN "write" ELSE "next"]
         ELSE work' = [work EXCEPT !.at = "next"] /\ UNCHANGED flash
    /\ UNCHANGED <<ram, segment_dirty, flush_timer, main>>

FlushWrite ==
    /\ work.at = "write"
    /\ \E ok \in Outcome : Write(work.seg, ok)
    /\ work' = [work EXCEPT !.at = "next"]
    /\ UNCHANGED <<ram, segment_dirty, flush_timer, main>>

FlushNext ==
    /\ work.at = "next"
    /\ IF MoreSegments(work.seg)
         THEN /\ work' = [at |-> "flush", seg |-> work.seg + 1]
              /\ UNCHANGED segment_dirty
         ELSE /\ work' = WorkIdle
              /\ segment_dirty' = {}
    /\ UNCHANGED <<ram, flash, flush_timer, main>>

-------------------------------------------------------------------------------
(* Starting again. *)

\* crossing_gate_load_config reads the partitions as they are.
Restart ==
    /\ ram' = flash
    /\ segment_dirty' = {}
    /\ flush_timer' = FALSE
    /\ main' = MainIdle
    /\ work' = WorkIdle
    /\ UNCHANGED flash

Reboot == MainAt("reboot") /\ Restart

PowerFails == Restart

MainSteps ==
    \/ LoadDirty \/ StoreDirty \/ StartFlushTimer
    \/ ForceSegment \/ ForceErase \/ ForceWrite \/ ForceNext \/ Reboot
    \/ ResetErase \/ ResetWrite

WorkSteps == FlushSegment \/ FlushWrite \/ FlushNext

Next ==
    \/ \E s \in Segments, v \in Value : EditSegment(s, v)
    \/ BeginReboot \/ BeginFactoryReset
    \/ MainSteps \/ TimerExpired \/ WorkSteps

Spec == Init /\ [][Next]_vars

\* The same where power may fail between any two steps.
PowerSpec == Init /\ [][Next \/ PowerFails]_vars

\* Threads that are ready run and the timer expires; edits, reboots and resets
\* are the operator's.
FairPowerSpec ==
    /\ PowerSpec
    /\ WF_vars(MainSteps) /\ WF_vars(TimerExpired) /\ WF_vars(WorkSteps)

-------------------------------------------------------------------------------
(* Properties. *)

TypeOK ==
    /\ ram \in [Segments -> Value \cup {Erased}]
    /\ flash \in [Segments -> Value \cup {Erased}]
    /\ segment_dirty \subseteq Segments
    /\ flush_timer \in BOOLEAN
    /\ main \in MainThread
    /\ work \in WorkItem

BeingMarked(s) == main.at \in {"load", "store"} /\ main.seg = s

BeingSaved(s) ==
    \/ main.at = "force_write" /\ main.seg = s
    \/ main.at \in {"reset", "reset_write"}

\* The flash holds what the node uses, except for the segments that are dirty,
\* about to be marked dirty or being saved by the main thread: the flush clears
\* bits it has not looked at and can run in the middle of a "|=", and still no
\* edit loses its mark.  So a power failure costs no segment but these.
DirtyTracksFlash ==
    \A s \in Segments :
        flash[s] # ram[s] => s \in segment_dirty \/ BeingMarked(s) \/ BeingSaved(s)

\* A dirty segment does not wait for ever: the timer that flushes it is running
\* whenever both threads are idle.
DirtyHasTimer ==
    main.at = "idle" /\ work.at = "idle" /\ segment_dirty # {} => flush_timer

\* A segment is taken off the dirty set only when the flash holds what it holds.
SavedBeforeClean ==
    [][FlushNext \/ ForceNext =>
          \A s \in segment_dirty \ segment_dirty' : flash[s] = ram[s]]_vars

\* A reboot that the configuration tool asks for loses no edit.
RebootLosesNothing == [][Reboot => \A s \in Segments : flash[s] = ram[s]]_vars

\* What the node may lose: the segments that are dirty or about to be marked,
\* those of the set that a "|=" has loaded, and those the main thread saves.
Unsaved ==
    segment_dirty
    \cup (IF main.at \in {"load", "store", "force_erase", "force_write"} THEN {main.seg} ELSE {})
    \cup (IF main.at = "store" THEN main.loaded ELSE {})
    \cup (IF main.at \in {"reset", "reset_write"} THEN Segments ELSE {})

Store == INSTANCE SettingsStore WITH used <- ram, kept <- flash, unsaved <- Unsaved

\* The flusher is a SettingsStore: whatever a flush interrupts and whenever power
\* fails, no segment but the unsaved ones is erased, nothing is written but what
\* the node uses, and none counts as saved before the flash holds it.
KeepsSettings == Store!Spec

Disturbed ==
    \/ PowerFails \/ BeginReboot \/ BeginFactoryReset
    \/ \E s \in Segments, v \in Value : EditSegment(s, v)

\* If the power stays on and the operator leaves the node alone, the flash ends up
\* with what the node uses.
EditsReachFlash == <>[][~Disturbed]_vars => <>[](flash = ram)

-------------------------------------------------------------------------------
(* The invariant that makes them inductive, for a flash that does not fail. *)

Saved(s) == flash[s] = ram[s]

\* The flush is between the erase and the write of s.
BeingFlushed(s) == work.at = "write" /\ work.seg = s

\* The segments that the flush has been through are saved if they were dirty: the
\* main thread, which alone edits, is held up by it.  What the flush has erased
\* was dirty and is written next.
FlushedSoFar ==
    /\ work.at # "idle" =>
         \A s \in segment_dirty :
            s < work.seg \/ (work.at = "next" /\ s = work.seg) => Saved(s)
    /\ work.at = "write" => work.seg \in segment_dirty /\ flash[work.seg] = Erased

\* The segments that a forced write has been through are saved, but for the one
\* that a flush has just erased; the last step leaves nothing dirty.
ForcedSoFar ==
    /\ main.at \in {"force", "force_erase", "force_write", "force_next"} =>
         \A s \in Segments :
            s < main.seg \/ (main.at = "force_next" /\ s = main.seg) =>
                Saved(s) \/ BeingFlushed(s)
    /\ main.at = "force_write" => Saved(main.seg) \/ flash[main.seg] = Erased
    /\ main.at = "reboot" => segment_dirty = {} /\ \A s \in Segments : Saved(s)

\* The same for the saves of a factory reset.
ResetSoFar ==
    /\ main.at \in {"reset", "reset_write"} =>
         \A k \in Segments : k < main.seg =>
            \/ Saved(ResetOrder[k]) \/ BeingFlushed(ResetOrder[k])
            \/ /\ main.at = "reset_write"
               /\ ResetOrder[k] = ResetOrder[main.seg]
    /\ main.at = "reset_write" =>
         Saved(ResetOrder[main.seg]) \/ flash[ResetOrder[main.seg]] = Erased

\* A flush in the middle of a "|=" only takes segments off the set that was loaded.
LoadedKeepsDirty == main.at = "store" => segment_dirty \subseteq main.loaded

\* Only between the two halves of configuration_flusher_set_dirty is a segment
\* dirty and nothing under way that flushes it.
TimerKept == main.at # "start" /\ work.at = "idle" /\ segment_dirty # {} => flush_timer

\* Every loop over the segments starts at the first one.
StartsAtFirst == main.at = "idle" => main.seg = 1

SavesSoFar ==
    /\ DirtyTracksFlash /\ LoadedKeepsDirty /\ StartsAtFirst
    /\ FlushedSoFar /\ ForcedSoFar /\ ResetSoFar

FlusherInv == TypeOK /\ TimerKept /\ SavesSoFar
===============================================================================
