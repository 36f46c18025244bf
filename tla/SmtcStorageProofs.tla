--------------------------- MODULE SmtcStorageProofs ---------------------------
(***************************************************************************)
(* What holds of SmtcStorage for every number of outputs, copies and       *)
(* tracked switches: that the flash is ready when the interrupt of the     *)
(* falling supply is to save, and that it brings back positions and        *)
(* switches, when the interrupt finds the flash driver free.               *)
(***************************************************************************)
EXTENDS SmtcStorage, FiniteSetTheorems, TLAPS

-------------------------------------------------------------------------------
(* The flash. *)

\* Each double word becomes the new one or stays.
LEMMA ProgramWord ==
    ASSUME NEW old, NEW new, NEW blank, NEW zero, NEW k, NEW i \in DOMAIN new
    PROVE  /\ Program(old, new, blank, zero, k)[i] \in {new[i], old[i]}
           /\ i \in Written(old, new, blank, zero, k) => Program(old, new, blank, zero, k)[i] = new[i]
  BY DEF Program

\* An erased partition refuses nothing.
LEMMA ErasedTakesAll ==
    ASSUME NEW new, NEW blank, NEW zero, NEW k
    PROVE  Written(blank, new, blank, zero, k) = 1..k
  BY DEF Written, Refused

-------------------------------------------------------------------------------
(* Type correctness. *)

\* The constant values are well typed.
LEMMA ValueTypes ==
    /\ FactoryConfig \in Config
    /\ NoHistory \in History
    /\ ErasedCopy \in Vector \cup {ErasedCopy}
    /\ AllErased \in [Copies -> Vector \cup {ErasedCopy}]
    /\ NoTrackers \in [Switches -> Known \cup {Erased}]
    /\ [x \in Outputs |-> Unknown] \in Vector
    /\ [s \in Switches |-> Unknown] \in [Switches -> Known]
<1>1. FactoryConfig \in Config
  BY DEF FactoryConfig, Config, Startup, Position
<1>2. NoHistory \in History
  BY DEF NoHistory, History
<1> QED
  BY <1>1, <1>2 DEF AllErased, NoTrackers, Vector, Known

\* The vote chooses a position, and what is started from is one.
LEMMA LoadedType ==
    ASSUME NEW c \in Config
    PROVE  /\ Loaded(c) \in Config
           /\ Loaded(c).startup = c.startup
           /\ \A x \in Outputs : c.startup[x] = "last" => Loaded(c).last[x] = LastKnown(x, c)
           /\ \A x \in Outputs : StartPosition(x, c) \in Position
<1>1. c.startup \in [Outputs -> Startup] /\ c.last \in [Outputs -> Position]
  BY DEF Config
<1>2. \A x \in Outputs : LastKnown(x, c) \in Position
  BY <1>1 DEF LastKnown, Position
<1> DEFINE L == [x \in Outputs |-> IF c.startup[x] = "last" THEN LastKnown(x, c) ELSE c.last[x]]
<1>3. L \in [Outputs -> Position]
  BY <1>1, <1>2
<1> HIDE DEF L
<1>4. [c EXCEPT !.last = L] \in Config /\ [c EXCEPT !.last = L].startup = c.startup
        /\ [c EXCEPT !.last = L].last = L
  BY <1>3 DEF Config
<1>5. Loaded(c) = [c EXCEPT !.last = L]
  BY DEF Loaded, L
<1>6. \A x \in Outputs : StartPosition(x, c) \in Position
  BY <1>1 DEF StartPosition, Startup, Position
<1> QED
  BY <1>4, <1>5, <1>6 DEF L

\* A configuration write leaves a configuration that restarts alike.
LEMMA WrittenConfigType ==
    ASSUME NEW c \in Config, NEW x \in Outputs, NEW s \in Startup
    PROVE  /\ [c EXCEPT !.startup[x] = s] \in Config
           /\ [c EXCEPT !.startup[x] = s].last = c.last
  BY DEF Config

\* What the interrupt leaves in the flash, cut anywhere.
LEMMA SavedTypes ==
    ASSUME TypeOK, NEW k \in 0..NumCopies, NEW t \in 0..NumSwitches
    PROVE  /\ PositionFlash(k) \in [Copies -> Vector \cup {ErasedCopy}]
           /\ TrackerFlash(t) \in [Switches -> Known \cup {Erased}]
<1>1. Program(copies, SavedVector, AllErased, AllNormal, k) \in [Copies -> Vector \cup {ErasedCopy}]
  BY DEF TypeOK, Program, SavedVector
<1>2. Program(trackFlash, trackers, NoTrackers, Unknown, t) \in [Switches -> Known \cup {Erased}]
  BY DEF TypeOK, Program
<1> QED
  BY <1>1, <1>2 DEF TypeOK, PositionFlash, TrackerFlash

\* A failure is remembered as one.
LEMMA FailureType ==
    TypeOK /\ FlashFails =>
        /\ history' \in History /\ history'.failed
        /\ history'.tracking = history.tracking
  BY DEF TypeOK, History, FlashFails

\* The initial state is well typed.
LEMMA InitType == Init => TypeOK
<1> SUFFICES ASSUME Init PROVE TypeOK
  OBVIOUS
<1> QED
  BY ValueTypes DEF Init, TypeOK, Mode

\* What power that is cut inside an erase leaves is a partition still.
LEMMA CutEraseType ==
    ASSUME TypeOK
    PROVE  /\ CutErase(copies, AllErased) \subseteq [Copies -> Vector \cup {ErasedCopy}]
           /\ CutErase(trackFlash, NoTrackers) \subseteq [Switches -> Known \cup {Erased}]
<1>1. ASSUME NEW S \in SUBSET DOMAIN copies
      PROVE  [i \in DOMAIN copies |-> IF i \in S THEN AllErased[i] ELSE copies[i]]
                \in [Copies -> Vector \cup {ErasedCopy}]
  BY DEF TypeOK, AllErased
<1>2. ASSUME NEW S \in SUBSET DOMAIN trackFlash
      PROVE  [i \in DOMAIN trackFlash |-> IF i \in S THEN NoTrackers[i] ELSE trackFlash[i]]
                \in [Switches -> Known \cup {Erased}]
  BY DEF TypeOK, NoTrackers
<1> QED
  BY <1>1, <1>2 DEF CutErase

\* Going off leaves a well-typed state when the flash is.
LEMMA OffType ==
    ASSUME TypeOK, Off,
           stored' \in Config \cup {Blank},
           copies' \in [Copies -> Vector \cup {ErasedCopy}],
           trackFlash' \in [Switches -> Known \cup {Erased}]
    PROVE  TypeOK'
  BY ValueTypes DEF Off, TypeOK

\* Every step keeps the types.
LEMMA NextType == TypeOK /\ [Next]_vars => TypeOK'
<1> SUFFICES ASSUME TypeOK, [Next]_vars PROVE TypeOK'
  OBVIOUS
<1> DEFINE Flash == [Copies -> Vector \cup {ErasedCopy}]
<1> DEFINE Track == [Switches -> Known \cup {Erased}]
<1>1. CASE Start
  <2> USE <1>1 DEF Start
  <2>1. config' \in Config /\ stored' \in Config \cup {Blank} /\ desired' \in Vector
    <3>1. CASE stored = Blank
      BY <3>1, ValueTypes
    <3>2. CASE stored # Blank
      <4>1. stored \in Config
        BY <3>2 DEF TypeOK
      <4>2. config' = Loaded(stored) /\ config' \in Config
        BY <3>2, <4>1, LoadedType
      <4>3. \A x \in Outputs : StartPosition(x, config') \in Position
        BY <4>2, LoadedType
      <4> QED
        BY <3>2, <4>1, <4>2, <4>3 DEF Vector, Known
    <3> QED
      BY <3>1, <3>2
  <2>2. mode' \in Mode /\ armed' \in BOOLEAN
    BY DEF TypeOK, Mode
  <2>3. trackers' \in [Switches -> Known]
    BY DEF TypeOK, LoadedTracker, Known
  <2>4. history' \in History
    <3>1. CASE stored = Blank
      BY <3>1 DEF History
    <3>2. CASE stored # Blank
      BY <3>2 DEF History
    <3> QED
      BY <3>1, <3>2
  <2>5. current' \in Vector
    BY ValueTypes
  <2> QED
    BY <2>1, <2>2, <2>3, <2>4, <2>5 DEF TypeOK
<1>2. CASE FirstPass
  BY <1>2 DEF FirstPass, TypeOK, SomeoneRestores, trackerVars
<1>3. CASE \E x \in Outputs : Move(x)
  BY <1>3 DEF Move, TypeOK, Vector, trackerVars
<1>4. CASE \E x \in Outputs, p \in Position : Command(x, p)
  BY <1>4 DEF Command, TypeOK, Vector, Known, trackerVars
<1>5. CASE MarkDirty \/ UnreadableEvent \/ SetTrackerDirty \/ EnterDriver \/ OtherFlash \/ OtherFlashDone
  BY <1>5 DEF MarkDirty, UnreadableEvent, SetTrackerDirty, EnterDriver, OtherFlash, OtherFlashDone,
     TypeOK, positionVars, trackerVars
<1>6. CASE EraseLocation
  BY <1>6, ValueTypes, FailureType DEF EraseLocation, TypeOK, trackerVars
<1>7. CASE \E s \in Switches, p \in Position : TrackSwitch(s, p)
  BY <1>7 DEF TrackSwitch, TypeOK, Known, positionVars
<1>8. CASE EraseTracker
  BY <1>8, ValueTypes, FailureType DEF EraseTracker, TypeOK, positionVars
<1>9. CASE MarkTracker
  BY <1>9 DEF MarkTracker, TypeOK, positionVars
<1>10. CASE \E x \in Outputs, s \in Startups : WriteConfig(x, s)
  <2>1. PICK x \in Outputs, s \in Startups : WriteConfig(x, s)
    BY <1>10
  <2>2. s \in Startup
    BY StorageAssumption DEF StorageAssumption, Startup, Position
  <2>3. config' \in Config
    BY <2>1, <2>2, WrittenConfigType DEF WriteConfig, TypeOK
  <2> QED
    BY <2>1, <2>3 DEF WriteConfig, TypeOK, trackerVars
<1>11. CASE FactoryReset
  <2>1. history' \in History
    BY <1>11 DEF FactoryReset, TypeOK, History
  <2> QED
    BY <1>11, <2>1, ValueTypes DEF FactoryReset, TypeOK, Mode
<1>12. CASE EraseConfig \/ FinishConfig
  BY <1>12, FailureType
     DEF EraseConfig, FinishConfig, ConfigDone, TypeOK, SomeoneRestores, trackerVars
<1>13. CASE \E m \in Modes : WriteMode(m)
  <2>1. mode' \in Mode
    BY <1>13, StorageAssumption DEF WriteMode, StorageAssumption, Mode
  <2>2. history' \in History
    BY <1>13 DEF WriteMode, TypeOK, History
  <2> QED
    BY <1>13, <2>1, <2>2 DEF WriteMode, TypeOK, positionVars
<1>14. CASE Dip
  <2>1. NumCopies \in 0..NumCopies /\ NumSwitches \in 0..NumSwitches
    BY StorageAssumption DEF StorageAssumption
  <2>2. copies' \in Flash /\ trackFlash' \in Track
    BY <1>14, <2>1, SavedTypes DEF Dip
  <2>3. history' \in History
    BY <1>14 DEF Dip, TypeOK, History
  <2> QED
    BY <1>14, <2>2, <2>3 DEF Dip, TypeOK
<1>15. CASE \E k \in 0..NumCopies, t \in 0..NumSwitches : PowerFails(k, t)
  <2>1. Off /\ copies' \in Flash /\ trackFlash' \in Track /\ stored' \in Config \cup {Blank}
    BY <1>15, SavedTypes DEF PowerFails, TypeOK
  <2> QED
    BY <2>1, OffType
<1>16. CASE Reboot
  <2>1. NumCopies \in 0..NumCopies /\ NumSwitches \in 0..NumSwitches
    BY StorageAssumption DEF StorageAssumption
  <2>2. Off /\ copies' \in Flash /\ trackFlash' \in Track /\ stored' \in Config \cup {Blank}
    BY <1>16, <2>1, SavedTypes DEF Reboot, TypeOK
  <2> QED
    BY <2>2, OffType
<1>17. CASE Reset
  <2>1. Off /\ copies' \in Flash /\ trackFlash' \in Track /\ stored' \in Config \cup {Blank}
    BY <1>17 DEF Reset, TypeOK
  <2> QED
    BY <2>1, OffType
<1>18. CASE FlashCut
  <2>1. Off /\ copies' \in Flash /\ trackFlash' \in Track
    BY <1>18, CutEraseType DEF FlashCut, TypeOK
  <2>2. stored' \in Config \cup {Blank}
    BY <1>18 DEF FlashCut, TypeOK
  <2> QED
    BY <2>1, <2>2, OffType
<1>19. CASE UNCHANGED vars
  BY <1>19 DEF TypeOK, vars, positionVars, trackerVars
<1> QED
  BY <1>1, <1>2, <1>3, <1>4, <1>5, <1>6, <1>7, <1>8, <1>9, <1>10, <1>11, <1>12, <1>13,
     <1>14, <1>15, <1>16, <1>17, <1>18, <1>19 DEF Next

\* Every reachable state is well typed: a copy of the positions is erased or
\* whole, however often the power was cut.
THEOREM StorageTypeCorrect == Spec => []TypeOK
<1> QED
  BY InitType, NextType, PTL DEF Spec

-------------------------------------------------------------------------------
(* The flash is erased when it is to be written. *)

\* What the interrupt writes over an erased partition, it writes in full.
LEMMA ReadySaves ==
    ASSUME TypeOK, ReadyToSave, phase # "off", ~history.failed
    PROVE  /\ SavesPositions /\ main # "marked" => PositionsSaved
           /\ SavesTracker => TrackerSaved /\ TrackerFlash(NumSwitches) = trackers
<1>1. SavesPositions /\ main # "marked" => PositionsSaved
  BY ErasedTakesAll DEF ReadyToSave, SavesPositions, PositionsSaved, Copies, Busy
<1>2. ASSUME SavesTracker PROVE TrackerSaved /\ TrackerFlash(NumSwitches) = trackers
  <2>1. trackFlash = NoTrackers
    BY <1>2 DEF ReadyToSave, SavesTracker
  <2>2. Written(trackFlash, trackers, NoTrackers, Unknown, NumSwitches) = Switches
    BY <2>1, ErasedTakesAll DEF Switches
  <2>3. Program(trackFlash, trackers, NoTrackers, Unknown, NumSwitches) = trackers
    BY <2>2 DEF Program, TypeOK
  <2> QED
    BY <1>2, <2>2, <2>3 DEF TrackerSaved, TrackerFlash
<1> QED
  BY <1>1, <1>2

\* No step leaves a mark whose partition is not erased, nor an erased tracker
\* with a mark of its own.
LEMMA NextReady ==
    TypeOK /\ ReadyToSave /\ ErasedBeforeMark /\ [Next]_vars => (ReadyToSave /\ ErasedBeforeMark)'
<1> SUFFICES ASSUME TypeOK, ReadyToSave, ErasedBeforeMark, [Next]_vars
             PROVE  (ReadyToSave /\ ErasedBeforeMark)'
  OBVIOUS
<1> USE DEF ReadyToSave, ErasedBeforeMark
<1>1. CASE Start
  BY <1>1 DEF Start
<1>2. CASE FirstPass \/ (\E x \in Outputs : Move(x)) \/ UNCHANGED vars
           \/ (\E x \in Outputs, p \in Position : Command(x, p)) \/ UnreadableEvent
           \/ (\E x \in Outputs, s \in Startups : WriteConfig(x, s))
  BY <1>2 DEF FirstPass, Move, Command, UnreadableEvent, WriteConfig, vars, positionVars, trackerVars
<1>3. CASE MarkDirty \/ SetTrackerDirty \/ EnterDriver \/ OtherFlash \/ OtherFlashDone
  BY <1>3 DEF MarkDirty, SetTrackerDirty, EnterDriver, OtherFlash, OtherFlashDone,
     positionVars, trackerVars
<1>4. CASE EraseLocation \/ EraseConfig \/ FinishConfig
  BY <1>4, FailureType DEF EraseLocation, EraseConfig, FinishConfig, ConfigDone, trackerVars
<1>5. CASE \E s \in Switches, p \in Position : TrackSwitch(s, p)
  BY <1>5 DEF TrackSwitch, positionVars
<1>6. CASE EraseTracker
  BY <1>6, FailureType DEF EraseTracker, positionVars
<1>7. CASE MarkTracker
  BY <1>7 DEF MarkTracker, positionVars
<1>8. CASE FactoryReset
  BY <1>8 DEF FactoryReset, TypeOK, History
<1>9. CASE \E m \in Modes : WriteMode(m)
  BY <1>9 DEF WriteMode, positionVars, TypeOK, History
<1>10. CASE Dip
  <2> SUFFICES ASSUME ~history'.failed PROVE (ReadyToSave /\ ErasedBeforeMark)'
    <3>1. phase' = phase /\ main' = main /\ phase # "off"
      BY <1>10 DEF Dip
    <3>2. main = "trackerErased" => ~trackDirty' /\ trackFlash' = NoTrackers
      BY <1>10, <3>1 DEF Dip, TrackerFlash, SavesTracker
    <3>3. main = "trackerErasing" => ~trackDirty'
      BY <1>10, <3>1 DEF Dip
    <3> QED
      BY <3>1, <3>2, <3>3
  <2>1. phase # "off" /\ main' = main /\ phase' = phase /\ ~history.failed
    BY <1>10 DEF Dip, TypeOK, History
  <2>2. dirty' /\ main \notin {"marked", "erasing"} => copies' = AllErased
    <3>1. SUFFICES ASSUME dirty', main \notin {"marked", "erasing"} PROVE copies' = AllErased
      OBVIOUS
    <3>2. dirty /\ ~PositionsSaved
      BY <1>10, <3>1 DEF Dip
    <3>3. ~SavesPositions
      BY <2>1, <3>1, <3>2, ReadySaves
    <3> QED
      BY <1>10, <2>1, <3>1, <3>2, <3>3 DEF Dip, PositionFlash
  <2>3. trackDirty' => trackFlash' = NoTrackers
    <3>1. SUFFICES ASSUME trackDirty' PROVE trackFlash' = NoTrackers
      OBVIOUS
    <3>2. trackDirty /\ ~TrackerSaved
      BY <1>10, <3>1 DEF Dip
    <3>3. ~SavesTracker
      BY <2>1, <3>2, ReadySaves
    <3> QED
      BY <1>10, <2>1, <3>2, <3>3 DEF Dip, TrackerFlash
  <2>4. main = "trackerErased" => ~trackDirty' /\ trackFlash' = NoTrackers
    BY <1>10, <2>1 DEF Dip, TrackerFlash, SavesTracker
  <2>5. main = "trackerErasing" => ~trackDirty'
    BY <1>10, <2>1 DEF Dip
  <2> QED
    BY <2>1, <2>2, <2>3, <2>4, <2>5
<1>11. CASE Off
  BY <1>11 DEF Off
<1> QED
  BY <1>1, <1>2, <1>3, <1>4, <1>5, <1>6, <1>7, <1>8, <1>9, <1>10, <1>11
     DEF Next, PowerFails, Reboot, Reset, FlashCut

-------------------------------------------------------------------------------
(* The switch tracker. *)

\* What a start loads of the words that the interrupt left.
LEMMA LoadsTracker ==
    ASSUME TypeOK, trackFlash' \in [Switches -> Known \cup {Erased}], NEW s \in Switches
    PROVE  /\ trackFlash'[s] = Erased => LoadedTracker(s)' = Unknown
           /\ trackFlash'[s] # Erased => LoadedTracker(s)' = trackFlash'[s]
           /\ trackers[s] # Erased
  BY DEF LoadedTracker, TypeOK, Known, Position, Unknown, Erased

\* A tracker that is not marked stays in the flash, and one that is saved gets there.
LEMMA NextTracker ==
    TypeOK /\ ReadyToSave /\ TrackerInFlash /\ [Next]_vars => TrackerInFlash'
<1> SUFFICES ASSUME TypeOK, ReadyToSave, TrackerInFlash, [Next]_vars PROVE TrackerInFlash'
  OBVIOUS
<1> USE DEF TrackerInFlash
<1>1. CASE Start
  <2>1. SUFFICES ASSUME history'.tracking PROVE TrackerInFlash'
    OBVIOUS
  <2>2. mode' = "save" /\ trackFlash' = trackFlash
    BY <1>1, <2>1 DEF Start
  <2>3. \A s \in Switches : trackers'[s] = LoadedTracker(s)
    BY <1>1, <2>2 DEF Start
  <2> QED
    BY <2>2, <2>3 DEF LoadedTracker
<1>2. CASE FirstPass \/ (\E x \in Outputs : Move(x)) \/ UNCHANGED vars \/ UnreadableEvent
           \/ (\E x \in Outputs, p \in Position : Command(x, p))
           \/ (\E x \in Outputs, s \in Startups : WriteConfig(x, s))
           \/ MarkDirty \/ EnterDriver \/ OtherFlash \/ OtherFlashDone
  BY <1>2 DEF FirstPass, Move, Command, UnreadableEvent, WriteConfig, MarkDirty, EnterDriver,
     OtherFlash, OtherFlashDone, vars, positionVars, trackerVars, LoadedTracker
<1>3. CASE \E s \in Switches, p \in Position : TrackSwitch(s, p)
  BY <1>3 DEF TrackSwitch, positionVars, LoadedTracker
<1>4. CASE EraseTracker
  BY <1>4, FailureType DEF EraseTracker, positionVars, LoadedTracker
<1>5. CASE MarkTracker
  BY <1>5 DEF MarkTracker, positionVars, LoadedTracker
<1>6. CASE FactoryReset \/ \E m \in Modes : WriteMode(m)
  <2>1. ~history'.tracking
    BY <1>6 DEF FactoryReset, WriteMode, TypeOK, History
  <2> QED
    BY <2>1
<1>7. CASE Dip
  <2>1. SUFFICES ASSUME history'.tracking, ~history'.failed PROVE TrackerInFlash'
    OBVIOUS
  <2>2. /\ phase # "off" /\ phase' = phase /\ main' = main /\ mode' = mode /\ trackers' = trackers
        /\ history.tracking /\ ~history.failed
    BY <1>7, <2>1 DEF Dip, TypeOK, History
  <2>3. CASE SavesTracker
    <3>1. trackFlash' = trackers
      BY <1>7, <2>2, <2>3, ReadySaves DEF Dip
    <3>2. \A s \in Switches : LoadedTracker(s)' = trackers'[s]
      BY <2>2, <3>1, LoadsTracker DEF TypeOK
    <3> QED
      BY <2>2, <3>2
  <2>4. CASE ~SavesTracker
    <3>1. trackFlash' = trackFlash /\ trackDirty' = trackDirty
      BY <1>7, <2>4 DEF Dip, TrackerFlash, TrackerSaved, TypeOK
    <3> QED
      BY <2>2, <3>1 DEF LoadedTracker
  <2> QED
    BY <2>3, <2>4
<1>8. CASE Off
  BY <1>8 DEF Off
<1>9. CASE EraseLocation \/ EraseConfig \/ FinishConfig
  BY <1>9, FailureType DEF EraseLocation, EraseConfig, FinishConfig, ConfigDone, trackerVars,
     LoadedTracker
<1>10. CASE SetTrackerDirty
  BY <1>10 DEF SetTrackerDirty, positionVars, trackerVars, LoadedTracker
<1> QED
  BY <1>1, <1>2, <1>3, <1>4, <1>5, <1>6, <1>7, <1>8, <1>9, <1>10
     DEF Next, PowerFails, Reboot, Reset, FlashCut

-------------------------------------------------------------------------------
(* The configuration and the positions. *)

\* The configuration that arms the save is the stored one.
LEMMA NextConfig == TypeOK /\ ConfigInFlash /\ [Next]_vars => ConfigInFlash'
<1> SUFFICES ASSUME TypeOK, ConfigInFlash, [Next]_vars PROVE ConfigInFlash'
  OBVIOUS
<1> USE DEF ConfigInFlash
<1>1. CASE Start
  <2>1. phase' = "starting" /\ main' = "idle"
    BY <1>1 DEF Start
  <2>2. stored' \in Config /\ stored'.startup = config'.startup
    <3>1. CASE stored = Blank
      BY <1>1, <3>1, ValueTypes DEF Start
    <3>2. CASE stored # Blank
      <4>1. stored \in Config
        BY <3>2 DEF TypeOK
      <4> QED
        BY <1>1, <3>2, <4>1, LoadedType DEF Start
    <3> QED
      BY <3>1, <3>2
  <2> QED
    BY <2>1, <2>2
<1>2. CASE FirstPass
  BY <1>2 DEF FirstPass, SomeoneRestores
<1>3. CASE MarkTracker \/ (\E x \in Outputs : Move(x)) \/ UNCHANGED vars \/ UnreadableEvent
           \/ (\E x \in Outputs, p \in Position : Command(x, p)) \/ MarkDirty
           \/ (\E s \in Switches, p \in Position : TrackSwitch(s, p)) \/ SetTrackerDirty
           \/ EnterDriver \/ OtherFlash \/ OtherFlashDone
  BY <1>3 DEF Move, Command, UnreadableEvent, MarkDirty, TrackSwitch, SetTrackerDirty, MarkTracker,
     EnterDriver, OtherFlash, OtherFlashDone, vars, positionVars, trackerVars, SomeoneRestores
<1>4. CASE \E x \in Outputs, s \in Startups : WriteConfig(x, s)
  BY <1>4 DEF WriteConfig, SomeoneRestores
<1>5. CASE FactoryReset
  BY <1>5 DEF FactoryReset, SomeoneRestores, TypeOK, History
<1>6. CASE EraseConfig \/ FinishConfig
  BY <1>6, FailureType DEF EraseConfig, FinishConfig, ConfigDone, TypeOK, SomeoneRestores
<1>7. CASE \E m \in Modes : WriteMode(m)
  BY <1>7 DEF WriteMode, positionVars, TypeOK, History, SomeoneRestores
<1>8. CASE Dip
  BY <1>8 DEF Dip, TypeOK, History
<1>9. CASE Off
  BY <1>9 DEF Off
<1>10. CASE EraseLocation \/ EraseTracker
  BY <1>10, FailureType DEF EraseLocation, EraseTracker, positionVars, SomeoneRestores
<1> QED
  BY <1>1, <1>2, <1>3, <1>4, <1>5, <1>6, <1>7, <1>8, <1>9, <1>10
     DEF Next, PowerFails, Reboot, Reset, FlashCut

\* Loading a configuration does not change what its copies vote for.
LEMMA LoadedVote ==
    ASSUME NEW c \in Config, NEW x \in Outputs, c.startup[x] = "last"
    PROVE  LastKnown(x, Loaded(c)) = LastKnown(x, c)
<1>1. Loaded(c).last[x] = LastKnown(x, c)
  BY LoadedType
<1> QED
  BY <1>1 DEF LastKnown

\* Until something is commanded the outputs go where they were started to go.
LEMMA NextPositions ==
    TypeOK /\ ConfigInFlash /\ PositionsInFlash /\ [Next]_vars => PositionsInFlash'
<1> SUFFICES ASSUME TypeOK, ConfigInFlash, PositionsInFlash, [Next]_vars PROVE PositionsInFlash'
  OBVIOUS
<1> USE DEF PositionsInFlash
<1>0. copies' = copies /\ config' = config /\ stored' = stored =>
        \A x : /\ LastKnown(x, config)' = LastKnown(x, config)
               /\ LastKnown(x, stored)' = LastKnown(x, stored)
  BY DEF LastKnown, Votes
<1>1. CASE Start
  <2> SUFFICES ASSUME NEW x \in history'.restored
               PROVE  /\ desired'[x] = LastKnown(x, config)'
                      /\ current'[x] = Unknown
                      /\ LastKnown(x, stored)' = LastKnown(x, config)'
    BY <1>1 DEF Start
  <2>1. stored # Blank /\ x \in Outputs /\ stored.startup[x] = "last"
    BY <1>1 DEF Start
  <2>2. stored \in Config
    BY <2>1 DEF TypeOK
  <2>3. /\ config' = Loaded(stored) /\ stored' = stored /\ copies' = copies
        /\ desired'[x] = StartPosition(x, config') /\ current'[x] = Unknown
    BY <1>1, <2>1 DEF Start
  <2>4. \A c : LastKnown(x, c)' = LastKnown(x, c')
    BY <2>3 DEF LastKnown, Votes
  <2>5. LastKnown(x, config)' = LastKnown(x, stored)
    BY <2>1, <2>2, <2>3, LoadedVote DEF LastKnown, Votes
  <2>6. config'.startup[x] = "last" /\ config'.last[x] = LastKnown(x, stored)
    BY <2>1, <2>2, <2>3, LoadedType
  <2> QED
    BY <2>3, <2>5, <2>6 DEF StartPosition, LastKnown, Votes
<1>2. CASE FirstPass \/ UNCHANGED vars
  BY <1>0, <1>2 DEF FirstPass, vars, positionVars, trackerVars
<1>3. CASE \E x \in Outputs : Move(x)
  <2>1. PICK y \in Outputs : Move(y)
    BY <1>3
  <2>2. /\ main = "idle" /\ main' = "idle" /\ copies' = copies /\ config' = config /\ stored' = stored
        /\ phase' = phase /\ history' = history /\ dirty' = dirty /\ desired' = desired
        /\ \A x \in Outputs : current'[x] \in {current[x], desired[x]}
    BY <2>1 DEF Move, TypeOK, Vector
  <2>3. history.restored \subseteq Outputs
    BY DEF TypeOK, History
  <2> QED
    BY <1>0, <2>2, <2>3
<1>4. CASE \E x \in Outputs, p \in Position : Command(x, p)
  <2>1. /\ main = "idle" /\ main' = "commanded" /\ phase' = phase /\ history' = history
        /\ dirty' = dirty /\ config' = config /\ stored' = stored /\ copies' = copies
        /\ current' = current
    BY <1>4 DEF Command
  <2> QED
    BY <1>0, <2>1
<1>5. CASE MarkDirty
  BY <1>0, <1>5 DEF MarkDirty
<1>6. CASE EraseLocation
  BY <1>6, FailureType DEF EraseLocation
<1>7. CASE \E x \in Outputs, s \in Startups : WriteConfig(x, s)
  <2>1. config'.last = config.last
    BY <1>7 DEF WriteConfig, TypeOK, Config
  <2> QED
    BY <1>7, <2>1 DEF WriteConfig, LastKnown, Votes
<1>8. CASE FactoryReset
  <2>1. history'.restored = {}
    BY <1>8 DEF FactoryReset, TypeOK, History
  <2> QED
    BY <1>8, <2>1 DEF FactoryReset
<1>9. CASE EraseConfig
  BY <1>9, FailureType DEF EraseConfig, ConfigDone, LastKnown, Votes
<1>10. CASE \E m \in Modes : WriteMode(m)
  <2>1. /\ history'.restored = history.restored /\ history'.dipped = history.dipped
        /\ history'.failed = history.failed
    BY <1>10 DEF WriteMode, TypeOK, History
  <2>2. main = "idle" /\ main' = "otherFlash" /\ phase' = phase /\ positionVars' = positionVars
    BY <1>10 DEF WriteMode
  <2> QED
    BY <2>1, <2>2 DEF positionVars, LastKnown, Votes
<1>11. CASE Dip
  BY <1>11 DEF Dip, TypeOK, History
<1>12. CASE Off
  BY <1>12 DEF Off
<1>13. CASE EraseTracker
  BY <1>13, FailureType DEF EraseTracker, positionVars, LastKnown, Votes
<1>14. CASE FinishConfig
  BY <1>14, FailureType DEF FinishConfig, ConfigDone, LastKnown, Votes
<1>15. CASE SetTrackerDirty \/ MarkTracker \/ UnreadableEvent
            \/ \E s \in Switches, p \in Position : TrackSwitch(s, p)
  BY <1>0, <1>15 DEF SetTrackerDirty, MarkTracker, UnreadableEvent, TrackSwitch, positionVars, trackerVars
<1>16. CASE EnterDriver
  BY <1>0, <1>16 DEF EnterDriver, positionVars, trackerVars
<1>17. CASE OtherFlash \/ OtherFlashDone
  BY <1>0, <1>17 DEF OtherFlash, OtherFlashDone, positionVars, trackerVars
<1> QED
  BY <1>1, <1>2, <1>3, <1>4, <1>5, <1>6, <1>7, <1>8, <1>9, <1>10, <1>11, <1>12, <1>13,
     <1>14, <1>15, <1>16, <1>17
     DEF Next, PowerFails, Reboot, Reset, FlashCut

-------------------------------------------------------------------------------
(* The properties. *)

\* The invariant holds in every reachable state.
THEOREM StorageInvariant == Spec => []StorageInv
<1>1. Init => StorageInv
  BY InitType DEF Init, StorageInv, ReadyToSave, ErasedBeforeMark, TrackerInFlash, ConfigInFlash,
     PositionsInFlash
<1>2. StorageInv /\ [Next]_vars => StorageInv'
  BY NextType, NextReady, NextTracker, NextConfig, NextPositions DEF StorageInv
<1> QED
  BY <1>1, <1>2, PTL DEF Spec

\* Whenever the interrupt is to save, and no erase has failed, it finds the flash
\* erased, except between the mark of the positions and the end of their erase.
THEOREM AlwaysReadyToSave == Spec => []ReadyToSave
<1>1. StorageInv => ReadyToSave
  BY DEF StorageInv
<1> QED
  BY <1>1, StorageInvariant, PTL

\* What going off leaves of the tracker: each word is what it was, or, when the
\* tracker is saved, what was last commanded, or, inside its erase, erased.
LEMMA OffTracker ==
    ASSUME TypeOK, [Next]_vars, phase # "off", phase' = "off"
    PROVE  /\ trackFlash' \in [Switches -> Known \cup {Erased}]
           /\ \/ trackFlash' = trackFlash
              \/ SavesTracker /\ \A s \in Switches : trackFlash'[s] \in {trackers[s], trackFlash[s]}
              \/ main = "trackerErasing"
<1>1. trackFlash' \in [Switches -> Known \cup {Erased}]
  BY NextType DEF TypeOK
<1>2. \A t : \A s \in Switches :
        SavesTracker => TrackerFlash(t)[s] \in {trackers[s], trackFlash[s]}
  BY ProgramWord DEF TypeOK, TrackerFlash
<1>3. \A t : ~SavesTracker => TrackerFlash(t) = trackFlash
  BY DEF TrackerFlash
<1>4. \/ trackFlash' = trackFlash
      \/ \E t \in 0..NumSwitches : trackFlash' = TrackerFlash(t)
      \/ main = "trackerErasing"
  <2>1. CASE \E k \in 0..NumCopies, t \in 0..NumSwitches : PowerFails(k, t)
    BY <2>1 DEF PowerFails
  <2>2. CASE Reboot
    BY <2>2, StorageAssumption DEF Reboot, StorageAssumption
  <2>3. CASE Reset \/ FlashCut
    BY <2>3 DEF Reset, FlashCut
  <2> QED
    BY <2>1, <2>2, <2>3 DEF Next, Start, FirstPass, Move, Command, UnreadableEvent, MarkDirty,
       EraseLocation, TrackSwitch, SetTrackerDirty, EraseTracker, MarkTracker, WriteConfig,
       FactoryReset, EraseConfig, FinishConfig, EnterDriver, WriteMode, OtherFlash, OtherFlashDone,
       Dip, vars
<1> QED
  BY <1>1, <1>2, <1>3, <1>4

\* However the node goes down, inside an erase of another partition included, no
\* switch is loaded as it was before its last command, once its own erase is through.
THEOREM TrackerIsNeverStale == Spec => TrackerNeverStale
<1>1. ASSUME StorageInv, [Next]_vars, phase # "off", phase' = "off", history.tracking,
             ~history.failed, main \notin {"tracked", "trackerErasing"}, NEW s \in Switches
      PROVE  LoadedTracker(s)' \in {trackers[s], Unknown}
  <2>1. TypeOK /\ ReadyToSave /\ ErasedBeforeMark /\ TrackerInFlash
    BY <1>1 DEF StorageInv
  <2>2. trackFlash[s] = Erased \/ (~trackDirty /\ LoadedTracker(s) = trackers[s])
    BY <1>1, <2>1 DEF ReadyToSave, ErasedBeforeMark, TrackerInFlash, NoTrackers
  <2>3. CASE trackFlash' = trackFlash
    <3>1. LoadedTracker(s)' = LoadedTracker(s)
      BY <2>3 DEF LoadedTracker
    <3> QED
      BY <2>2, <3>1 DEF LoadedTracker
  <2>4. CASE SavesTracker /\ trackFlash'[s] \in {trackers[s], trackFlash[s]}
    <3>1. trackFlash[s] = Erased
      BY <2>2, <2>4 DEF SavesTracker
    <3>2. trackFlash' \in [Switches -> Known \cup {Erased}]
      BY <1>1, <2>1, OffTracker
    <3> QED
      BY <2>1, <2>4, <3>1, <3>2, LoadsTracker
  <2> QED
    BY <1>1, <2>1, <2>3, <2>4, OffTracker
<1>2. StorageInv /\ [Next]_vars =>
        [/\ phase # "off" /\ phase' = "off"
         /\ history.tracking /\ ~history.failed
         /\ main \notin {"tracked", "trackerErasing"}
         => \A s \in Switches : LoadedTracker(s)' \in {trackers[s], Unknown}]_vars
  BY <1>1
<1> QED
  BY <1>2, StorageInvariant, PTL DEF Spec, TrackerNeverStale

\* When the power lasts for the whole save, and fails while the main thread is not
\* inside the flash driver, every switch comes back as it was last commanded.
THEOREM TrackerComesBack == Spec => TrackerSurvives
<1>1. ASSUME StorageInv, [Next]_vars, phase = "running", phase' = "off",
             PowerFails(NumCopies, NumSwitches) \/ Reboot, history.tracking,
             ~history.failed, main # "trackerErased", main = "tracked" => trackDirty, NEW s \in Switches
      PROVE  LoadedTracker(s)' = trackers[s]
  <2>1. TypeOK /\ ReadyToSave /\ TrackerInFlash
    BY <1>1 DEF StorageInv
  <2>2. trackFlash' = TrackerFlash(NumSwitches)
    BY <1>1 DEF PowerFails, Reboot
  <2>3. mode = "save" /\ ~Busy
    BY <1>1, <2>1 DEF TrackerInFlash, PowerFails, Reboot, Busy
  <2>4. CASE trackDirty
    <3>1. trackFlash' = trackers
      BY <1>1, <2>1, <2>2, <2>3, <2>4, ReadySaves DEF SavesTracker
    <3> QED
      BY <2>1, <3>1, LoadsTracker DEF TypeOK
  <2>5. CASE ~trackDirty
    <3>1. LoadedTracker(s) = trackers[s]
      BY <1>1, <2>1, <2>3, <2>5 DEF TrackerInFlash, Busy
    <3>2. trackFlash' = trackFlash
      BY <2>2, <2>5 DEF TrackerFlash, SavesTracker
    <3> QED
      BY <3>1, <3>2 DEF LoadedTracker
  <2> QED
    BY <2>4, <2>5
<1>2. StorageInv /\ [Next]_vars =>
        [/\ phase = "running" /\ phase' = "off"
         /\ PowerFails(NumCopies, NumSwitches) \/ Reboot
         /\ history.tracking /\ ~history.failed
         /\ main # "trackerErased"
         /\ main = "tracked" => trackDirty
         => \A s \in Switches : LoadedTracker(s)' = trackers[s]]_vars
  BY <1>1
<1> QED
  BY <1>2, StorageInvariant, PTL DEF Spec, TrackerSurvives

\* Votes are counted, and more copies that say p are no fewer votes for p.
LEMMA MoreVotes ==
    ASSUME NEW F, NEW G, F \subseteq G, G \subseteq Copies
    PROVE  Cardinality(F) \in Nat /\ Cardinality(G) \in Nat /\ Cardinality(F) <= Cardinality(G)
<1>1. IsFiniteSet(Copies)
  BY StorageAssumption, FS_Interval DEF StorageAssumption, Copies
<1>2. IsFiniteSet(G)
  BY <1>1, FS_Subset
<1>3. IsFiniteSet(F) /\ Cardinality(F) <= Cardinality(G)
  BY <1>2, FS_Subset
<1> QED
  BY <1>2, <1>3, FS_CardinalityType

\* One copy that says p, and none that says anything else, decide the vote.
LEMMA OneVoteDecides ==
    ASSUME NEW x \in Outputs, NEW p \in Position, NEW c,
           \E i \in Copies : copies'[i][x] = p,
           \A i \in Copies : copies'[i][x] \in {p, Erased}
    PROVE  LastKnown(x, c)' = p
<1>1. IsFiniteSet(Copies)
  BY StorageAssumption, FS_Interval DEF StorageAssumption, Copies
<1> DEFINE V(q) == {i \in Copies : copies'[i][x] = q}
<1>2. \A q : IsFiniteSet(V(q)) /\ Cardinality(V(q)) \in Nat
  BY <1>1, FS_Subset, FS_CardinalityType
<1>3. V(p) # {}
  OBVIOUS
<1>4. Cardinality(V(p)) > 0
  BY <1>2, <1>3, FS_EmptySet
<1>5. \A q \in Position : q # p => V(q) = {}
  BY DEF Position, Erased
<1>6. \A q \in Position : q # p => Cardinality(V(q)) = 0
  BY <1>5, FS_EmptySet
<1>7. \A q : Votes(x, q)' = Cardinality(V(q))
  BY DEF Votes
<1>8. Votes(x, p)' > 0 /\ \A q \in Position : q # p => Votes(x, q)' = 0
  BY <1>4, <1>6, <1>7
<1>9. \A q \in Position : Votes(x, q)' \in Nat
  BY <1>2, <1>7
<1> QED
  BY <1>8, <1>9 DEF LastKnown, Position

\* Copies that change only to the position they vote for vote for it still.
LEMMA VoteStands ==
    ASSUME NEW x \in Outputs, NEW p \in Position, NEW c, LastKnown(x, c) = p,
           \A i \in Copies : copies'[i][x] \in {p, copies[i][x]}
    PROVE  LastKnown(x, c)' = p
<1> DEFINE Old(q) == {i \in Copies : copies[i][x] = q}
           New(q) == {i \in Copies : copies'[i][x] = q}
<1>1. Old(p) \subseteq New(p)
  OBVIOUS
<1>2. \A q \in Position : q # p => New(q) \subseteq Old(q)
  OBVIOUS
<1>3. \A q : Old(q) \subseteq Copies /\ New(q) \subseteq Copies
  OBVIOUS
<1>4. \A q : Votes(x, q) = Cardinality(Old(q)) /\ Votes(x, q)' = Cardinality(New(q))
  BY DEF Votes
<1> HIDE DEF Old, New
<1>5. \A q : Votes(x, q) \in Nat /\ Votes(x, q)' \in Nat
  BY <1>3, <1>4, MoreVotes
<1>6. Votes(x, p) <= Votes(x, p)'
  BY <1>1, <1>3, <1>4, MoreVotes
<1>7. \A q \in Position : q # p => Votes(x, q)' <= Votes(x, q)
  BY <1>2, <1>3, <1>4, MoreVotes
<1> QED
  BY <1>5, <1>6, <1>7 DEF LastKnown, Position

\* What a power failure leaves of the positions: each copy is what it was or what
\* the outputs had reached, and the first copy is saved when the partition is erased.
LEMMA OffPositions ==
    ASSUME TypeOK, ReadyToSave, phase = "running", ~history.failed,
           (\E k \in Copies, t \in 0..NumSwitches : PowerFails(k, t)) \/ Reboot
    PROVE  /\ \A i \in Copies : copies'[i] \in {current, copies[i]}
           /\ SavesPositions /\ main # "marked" => copies'[1] = current
<1>1. PICK k \in Copies : copies' = PositionFlash(k)
  BY StorageAssumption DEF PowerFails, Reboot, StorageAssumption, Copies
<1>2. \A i \in Copies : copies'[i] \in {current, copies[i]}
  BY <1>1, ProgramWord DEF PositionFlash, SavedVector
<1>3. ASSUME SavesPositions, main # "marked" PROVE copies'[1] = current
  <2>1. copies = AllErased
    BY <1>3 DEF ReadyToSave, SavesPositions, Busy
  <2>2. 1 \in Written(copies, SavedVector, AllErased, AllNormal, k) /\ 1 \in Copies
    BY <2>1, ErasedTakesAll, StorageAssumption DEF StorageAssumption, Copies
  <2> QED
    BY <1>1, <1>3, <2>2, ProgramWord DEF PositionFlash, SavedVector
<1> QED
  BY <1>2, <1>3

\* An output that is to restart where it was does so, wherever outside the flash
\* driver the interrupt of a power failure came, if a copy could be written, no dip
\* came before and no erase or write had failed.
THEOREM PositionComesBack == Spec => LastPositionSurvives
<1>1. ASSUME StorageInv, [Next]_vars, phase = "running", phase' = "off",
             (\E k \in Copies, t \in 0..NumSwitches : PowerFails(k, t)) \/ Reboot,
             ~history.dipped, ~history.failed, stored # Blank,
             NEW x \in history.restored, stored.startup[x] = "last", current[x] # Unknown
      PROVE  Restored(x)' = current[x]
  <2>1. TypeOK /\ ReadyToSave /\ ConfigInFlash /\ PositionsInFlash
    BY <1>1 DEF StorageInv
  <2>2. x \in Outputs /\ current[x] \in Position
    BY <1>1, <2>1 DEF TypeOK, History, Vector, Known
  <2>3. ~Busy /\ stored' = stored
    BY <1>1 DEF PowerFails, Reboot, Busy
  <2>4. /\ main \notin {"blanked", "writing"} /\ stored \in Config
        /\ armed <=> SomeoneRestores(stored)
    BY <1>1, <2>1 DEF ConfigInFlash, Blank
  <2>5. armed
    BY <1>1, <2>2, <2>4 DEF SomeoneRestores
  <2>6. \A i \in Copies : copies'[i] \in {current, copies[i]}
    BY <1>1, <2>1, OffPositions
  <2>7. LastKnown(x, stored)' = current[x]
    <3>1. CASE dirty /\ main # "marked"
      <4>1. copies = AllErased /\ copies'[1] = current /\ 1 \in Copies
        BY <1>1, <2>1, <2>3, <2>5, <3>1, OffPositions, StorageAssumption
           DEF SavesPositions, ReadyToSave, StorageAssumption, Copies, Busy
      <4>2. \A i \in Copies : copies'[i][x] \in {current[x], Erased}
        BY <2>2, <2>6, <4>1 DEF AllErased, ErasedCopy
      <4>3. \A c : LastKnown(x, c)' = current[x]
        BY <2>2, <4>1, <4>2, OneVoteDecides
      <4> QED
        BY <2>3, <4>3 DEF LastKnown, Votes
    <3>2. CASE ~dirty \/ main = "marked"
      <4>1. LastKnown(x, stored) = current[x]
        BY <1>1, <2>1, <2>4, <3>2 DEF PositionsInFlash
      <4>2. \A i \in Copies : copies'[i][x] \in {current[x], copies[i][x]}
        BY <2>6
      <4>3. \A c : LastKnown(x, c) = current[x] => LastKnown(x, c)' = current[x]
        BY <2>2, <4>2, VoteStands
      <4> QED
        BY <2>3, <4>1, <4>3 DEF LastKnown, Votes
    <3> QED
      BY <3>1, <3>2
  <2> QED
    BY <1>1, <2>2, <2>3, <2>4, <2>7 DEF Restored, StartPosition, Loaded, Config
<1>2. StorageInv /\ [Next]_vars =>
        [/\ phase = "running" /\ phase' = "off"
         /\ (\E k \in Copies, t \in 0..NumSwitches : PowerFails(k, t)) \/ Reboot
         /\ ~history.dipped /\ ~history.failed
         /\ stored # Blank
         => \A x \in history.restored :
              stored.startup[x] = "last" /\ current[x] # Unknown => Restored(x)' = current[x]]_vars
  BY <1>1
<1> QED
  BY <1>2, StorageInvariant, PTL DEF Spec, LastPositionSurvives

===============================================================================
