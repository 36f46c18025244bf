-------------------------- MODULE ConfigFlusherProofs --------------------------
(***************************************************************************)
(* What holds of ConfigFlusher for every number of segments and contents   *)
(* and every order of the factory reset; beyond the types, for a flash     *)
(* that does not fail, with power failures at any step.                    *)
(***************************************************************************)
EXTENDS ConfigFlusher, TLAPS

-------------------------------------------------------------------------------
(* Type correctness, also where the flash may fail. *)

\* There is a first segment, and a next one until the last.
LEMMA SegmentFacts ==
    /\ 1 \in Segments /\ Segments \subseteq Nat
    /\ \A s \in Segments : MoreSegments(s) => s + 1 \in Segments
    /\ \A s, t \in Segments : ~MoreSegments(s) => t < s \/ t = s
    /\ \A s, t \in Segments : t < s + 1 => t < s \/ t = s
<1>1. NumSegments \in Nat \ {0}
  BY FlusherAssumption DEF FlusherAssumption
<1>2. 1 \in Segments /\ Segments \subseteq Nat
  BY <1>1 DEF Segments
<1>3. \A s \in Segments : MoreSegments(s) => s + 1 \in Segments
  BY <1>1 DEF Segments, MoreSegments
<1>4. \A s, t \in Segments : ~MoreSegments(s) => t < s \/ t = s
  BY <1>1 DEF Segments, MoreSegments
<1>5. \A s, t \in Segments : t < s + 1 => t < s \/ t = s
  BY <1>1 DEF Segments
<1> QED
  BY <1>2, <1>3, <1>4, <1>5

\* No segment comes before the first, none before itself.
LEMMA SegmentOrder == \A s, t \in Segments : ~(s < 1) /\ (s < t => s # t)
  BY FlusherAssumption DEF FlusherAssumption, Segments

\* There is a last try of the first save of a reset, and one less until then.
LEMMA TryFacts ==
    /\ 0 \in 0 .. ResetTries /\ ResetTries \in 0 .. ResetTries
    /\ \A n \in 0 .. ResetTries : n > 1 => n - 1 \in 0 .. ResetTries
  BY FlusherAssumption DEF FlusherAssumption

\* The idle threads are well typed.
LEMMA IdleType == MainIdle \in MainThread /\ WorkIdle \in WorkItem
<1>1. MainIdle \in MainThread
  BY SegmentFacts, TryFacts DEF MainIdle, MainThread, MainLabel
<1>2. WorkIdle \in WorkItem
  BY SegmentFacts DEF WorkIdle, WorkItem
<1> QED
  BY <1>1, <1>2

\* The main thread goes on to another label, another segment or another try.
LEMMA MainType ==
    ASSUME main \in MainThread
    PROVE  /\ main.seg \in Segments /\ main.tries \in 0 .. ResetTries
           /\ main.loaded \in SUBSET Segments
           /\ \A l \in MainLabel : [main EXCEPT !.at = l] \in MainThread
           /\ \A l \in MainLabel, s \in Segments :
                 [main EXCEPT !.at = l, !.seg = s] \in MainThread
           /\ \A l \in MainLabel, n \in 0 .. ResetTries :
                 [main EXCEPT !.at = l, !.tries = n] \in MainThread
           /\ \A l \in MainLabel, D \in SUBSET Segments :
                 [main EXCEPT !.at = l, !.loaded = D] \in MainThread
  BY DEF MainThread

\* A save of the reset ends with a well-typed main thread.
LEMMA ResetSavedType ==
    ASSUME main \in MainThread, NEW ok, ResetSaved(ok)
    PROVE  main' \in MainThread
<1>1. "reset" \in MainLabel
  BY DEF MainLabel
<1>2. main.seg \in Segments /\ main.tries \in 0 .. ResetTries
  BY MainType, Zenon
<1>3. CASE main.seg = 1 /\ ~ok /\ main.tries > 1
  <2>1. main.tries - 1 \in 0 .. ResetTries
    BY <1>2, <1>3, TryFacts, Zenon
  <2>2. main' = [main EXCEPT !.at = "reset", !.tries = @ - 1]
    BY <1>3 DEF ResetSaved
  <2> QED
    BY <1>1, <2>1, <2>2 DEF MainThread
<1>4. CASE ~(main.seg = 1 /\ ~ok /\ main.tries > 1) /\ MoreSegments(main.seg)
  <2>1. main.seg + 1 \in Segments
    BY <1>2, <1>4, SegmentFacts, Zenon
  <2>2. main' = [main EXCEPT !.at = "reset", !.seg = @ + 1]
    BY <1>4 DEF ResetSaved
  <2> QED
    BY <1>1, <2>1, <2>2 DEF MainThread
<1>5. CASE ~(main.seg = 1 /\ ~ok /\ main.tries > 1) /\ ~MoreSegments(main.seg)
  <2>1. main' = MainIdle
    BY <1>5 DEF ResetSaved
  <2> QED
    BY <2>1, IdleType
<1> QED
  BY <1>3, <1>4, <1>5

\* The start of the node is well typed.
LEMMA InitType == Init => TypeOK
<1> SUFFICES ASSUME Init PROVE TypeOK
  OBVIOUS
<1>1. ram \in [Segments -> Value \cup {Erased}]
  BY FlusherAssumption DEF FlusherAssumption, Init
<1> QED
  BY <1>1, IdleType DEF Init, TypeOK

\* An erase and a write leave contents behind, if not always those meant.
LEMMA FlashType ==
    ASSUME TypeOK, NEW s \in Segments, NEW ok, Erase(s, ok) \/ Write(s, ok)
    PROVE  flash' \in [Segments -> Value \cup {Erased}]
  BY DEF TypeOK, Erase, Write

\* Every step and every power failure keeps the types.
LEMMA NextType == TypeOK /\ [Next \/ PowerFails]_vars => TypeOK'
<1> SUFFICES ASSUME TypeOK, [Next \/ PowerFails]_vars PROVE TypeOK'
  OBVIOUS
<1>o. \A k \in Segments : ResetOrder[k] \in Segments
  BY FlusherAssumption DEF FlusherAssumption
<1> USE DEF TypeOK
<1>m. /\ main.seg \in Segments /\ main.tries \in 0 .. ResetTries
      /\ main.loaded \in SUBSET Segments /\ work.seg \in Segments
  BY MainType DEF WorkItem
<1>1. ASSUME NEW s \in Segments, NEW v \in Value, EditSegment(s, v) PROVE TypeOK'
  BY <1>1, MainType, Zenon DEF EditSegment, MainLabel
<1>2. CASE LoadDirty \/ StoreDirty \/ StartFlushTimer
  <2>1. main' \in MainThread
    <3>1. CASE LoadDirty
      <4>1. main' = [main EXCEPT !.at = "store", !.loaded = segment_dirty]
        BY <3>1 DEF LoadDirty
      <4> QED
        BY <4>1 DEF MainThread, MainLabel
    <3>2. CASE StoreDirty
      <4>1. main' = [main EXCEPT !.at = "start", !.loaded = {}]
        BY <3>2 DEF StoreDirty
      <4> QED
        BY <4>1, MainType, Zenon DEF MainLabel
    <3>3. CASE StartFlushTimer
      BY <3>3, IdleType DEF StartFlushTimer
    <3> QED
      BY <1>2, <3>1, <3>2, <3>3
  <2> QED
    BY <1>2, <1>m, <2>1 DEF LoadDirty, StoreDirty, StartFlushTimer
<1>3. CASE BeginReboot \/ ForceSegment
  BY <1>3, MainType, Zenon DEF BeginReboot, ForceSegment, MainLabel
<1>4. CASE ForceErase
  <2>1. main' \in MainThread
    BY <1>4 DEF ForceErase, MainLabel, MainThread
  <2> QED
    BY <1>4, <1>m, <2>1, FlashType DEF ForceErase
<1>5. CASE ForceWrite
  <2>1. main' \in MainThread
    BY <1>5 DEF ForceWrite, MainLabel, MainThread
  <2> QED
    BY <1>5, <1>m, <2>1, FlashType DEF ForceWrite
<1>6. CASE ForceNext
  <2>1. MoreSegments(main.seg) => main.seg + 1 \in Segments
    BY <1>m, SegmentFacts, Zenon
  <2>2. main' \in MainThread
    BY <1>6, <2>1 DEF ForceNext, MainLabel, MainThread
  <2> QED
    BY <1>6, <2>2 DEF ForceNext
<1>7. CASE BeginFactoryReset
  <2>1. main' \in MainThread
    BY <1>7, TryFacts DEF BeginFactoryReset, MainLabel, MainThread
  <2> QED
    BY <1>7, <2>1, FlusherAssumption DEF FlusherAssumption, BeginFactoryReset
<1>8. CASE ResetErase
  <2>1. main' \in MainThread
    <3>1. main' = [main EXCEPT !.at = "reset_write"] \/ ResetSaved(FALSE)
      BY <1>8 DEF ResetErase
    <3> QED
      BY <3>1, ResetSavedType DEF MainLabel, MainThread
  <2> QED
    BY <1>8, <1>m, <1>o, <2>1, FlashType DEF ResetErase
<1>9. CASE ResetWrite
  <2>1. main' \in MainThread
    BY <1>9, ResetSavedType DEF ResetWrite
  <2> QED
    BY <1>9, <1>m, <1>o, <2>1, FlashType DEF ResetWrite
<1>10. CASE Reboot \/ PowerFails
  BY <1>10, IdleType DEF Reboot, PowerFails, Restart
<1>11. CASE TimerExpired
  BY <1>11, SegmentFacts DEF TimerExpired, WorkItem
<1>12. CASE FlushSegment
  <2>1. work' \in WorkItem
    BY <1>12 DEF FlushSegment, WorkItem
  <2> QED
    BY <1>12, <1>m, <2>1, FlashType DEF FlushSegment
<1>13. CASE FlushWrite \/ FlushNext
  <2>1. work' \in WorkItem
    BY <1>13, <1>m, SegmentFacts, IdleType DEF FlushWrite, FlushNext, WorkItem
  <2> QED
    BY <1>13, <1>m, <2>1, FlashType DEF FlushWrite, FlushNext
<1>14. CASE UNCHANGED vars
  BY <1>14 DEF vars
<1> QED
  BY <1>1, <1>2, <1>3, <1>4, <1>5, <1>6, <1>7, <1>8, <1>9, <1>10, <1>11, <1>12, <1>13, <1>14
  DEF Next, MainSteps, WorkSteps

\* Every reachable state is well typed, whether or not the flash may fail.
THEOREM FlusherTypeCorrect == PowerSpec => []TypeOK
  BY InitType, NextType, PTL DEF PowerSpec

-------------------------------------------------------------------------------
(* The timer. *)

\* A dirty segment has its timer running, also where the flash may fail.
LEMMA NextTimer == TypeOK /\ TimerKept /\ [Next \/ PowerFails]_vars => TimerKept'
<1> SUFFICES ASSUME TypeOK, TimerKept, [Next \/ PowerFails]_vars PROVE TimerKept'
  OBVIOUS
<1> USE DEF TimerKept
<1>m. main \in MainThread /\ work \in WorkItem
  BY DEF TypeOK
<1>1. ASSUME NEW s \in Segments, NEW v \in Value, EditSegment(s, v) PROVE TimerKept'
  BY <1>1, <1>m DEF EditSegment, MainAt, MainThread
<1>2. CASE LoadDirty \/ BeginReboot \/ ForceSegment \/ ForceErase \/ ForceWrite
  BY <1>2, <1>m
  DEF LoadDirty, BeginReboot, ForceSegment, ForceErase, ForceWrite, MainAt, MainThread
<1>3. CASE StoreDirty
  BY <1>3, <1>m DEF StoreDirty, MainThread
<1>4. CASE StartFlushTimer
  BY <1>4 DEF StartFlushTimer
<1>5. CASE ForceNext
  BY <1>5, <1>m DEF ForceNext, MainAt, MainThread
<1>6. CASE BeginFactoryReset \/ ResetErase \/ ResetWrite
  BY <1>6, <1>m DEF BeginFactoryReset, ResetErase, ResetWrite, MainAt, MainThread
<1>7. CASE Reboot \/ PowerFails
  BY <1>7 DEF Reboot, PowerFails, Restart
<1>8. CASE TimerExpired
  BY <1>8 DEF TimerExpired
<1>9. CASE FlushSegment \/ FlushWrite
  BY <1>9, <1>m DEF FlushSegment, FlushWrite, WorkItem
<1>10. CASE FlushNext
  BY <1>10 DEF FlushNext
<1>11. CASE UNCHANGED vars
  BY <1>11 DEF vars
<1> QED
  BY <1>1, <1>2, <1>3, <1>4, <1>5, <1>6, <1>7, <1>8, <1>9, <1>10, <1>11
  DEF Next, MainSteps, WorkSteps

\* Whenever both threads are idle, the timer that flushes a dirty segment runs.
THEOREM DirtyGetsFlushed == PowerSpec => []DirtyHasTimer
<1>1. Init => TypeOK /\ TimerKept
  BY InitType DEF Init, TimerKept
<1>2. TypeOK /\ TimerKept /\ [Next \/ PowerFails]_vars => TypeOK' /\ TimerKept'
  BY NextType, NextTimer
<1>3. TypeOK /\ TimerKept => DirtyHasTimer
  BY DEF TimerKept, DirtyHasTimer
<1> QED
  BY <1>1, <1>2, <1>3, PTL DEF PowerSpec

-------------------------------------------------------------------------------
(* The flash, where it does not fail. *)

\* Every erase and every write succeeds.
LEMMA OutcomeIsSuccess ==
    ASSUME FlashFails = FALSE
    PROVE  \A ok \in Outcome : ok = TRUE
  BY DEF Outcome

\* An erase erases one segment.
LEMMA EraseFacts ==
    ASSUME TypeOK, NEW s \in Segments, Erase(s, TRUE)
    PROVE  /\ flash'[s] = Erased
           /\ \A t \in Segments : t # s => flash'[t] = flash[t]
  BY DEF TypeOK, Erase

\* A write saves a segment that is erased, and leaves a saved one alone.
LEMMA WriteFacts ==
    ASSUME TypeOK, NEW s \in Segments, Write(s, TRUE), Saved(s) \/ flash[s] = Erased
    PROVE  /\ flash'[s] = ram[s]
           /\ \A t \in Segments : t # s => flash'[t] = flash[t]
  BY DEF TypeOK, Write, Saved

-------------------------------------------------------------------------------
(* The steps of the main thread; the flush is idle in all of them. *)

\* An edit marks its segment, or is about to, whatever the flush takes off.
LEMMA EditKeeps ==
    ASSUME TypeOK, SavesSoFar,
           \/ \E s \in Segments, v \in Value : EditSegment(s, v)
           \/ LoadDirty \/ StoreDirty \/ StartFlushTimer
    PROVE  SavesSoFar'
<1> USE DEF SavesSoFar, DirtyTracksFlash, LoadedKeepsDirty, StartsAtFirst, FlushedSoFar,
            ForcedSoFar, ResetSoFar, BeingMarked, BeingSaved, BeingFlushed, Saved, MainAt
<1>m. main \in MainThread
  BY DEF TypeOK
<1>1. ASSUME NEW s \in Segments, NEW v \in Value, EditSegment(s, v) PROVE SavesSoFar'
  BY <1>1, <1>m DEF EditSegment, MainThread, TypeOK
<1>2. CASE LoadDirty
  BY <1>2, <1>m DEF LoadDirty, MainThread
<1>3. CASE StoreDirty
  BY <1>3, <1>m DEF StoreDirty, MainThread
<1>4. CASE StartFlushTimer
  BY <1>4 DEF StartFlushTimer, MainIdle
<1> QED
  BY <1>1, <1>2, <1>3, <1>4

\* A forced write saves one dirty segment after the other.
LEMMA ForceKeeps ==
    ASSUME FlashFails = FALSE, TypeOK, SavesSoFar,
           BeginReboot \/ ForceSegment \/ ForceErase \/ ForceWrite \/ ForceNext
    PROVE  SavesSoFar'
<1> USE DEF SavesSoFar, DirtyTracksFlash, LoadedKeepsDirty, StartsAtFirst, FlushedSoFar,
            ForcedSoFar, ResetSoFar, BeingMarked, BeingSaved, BeingFlushed, Saved, MainAt
<1>m. main \in MainThread /\ main.seg \in Segments
  BY DEF TypeOK, MainThread
<1>1. CASE BeginReboot
  BY <1>1, <1>m, SegmentOrder DEF BeginReboot, MainThread
<1>2. CASE ForceSegment
  BY <1>2, <1>m DEF ForceSegment, MainThread
<1>3. CASE ForceErase
  <2>1. /\ flash'[main.seg] = Erased
        /\ \A t \in Segments : t # main.seg => flash'[t] = flash[t]
    BY <1>3, <1>m, OutcomeIsSuccess, EraseFacts DEF ForceErase
  <2>2. main'.at = "force_write" /\ main'.seg = main.seg
    BY <1>3, <1>m, OutcomeIsSuccess DEF ForceErase, MainThread
  <2> QED
    BY <1>3, <1>m, <2>1, <2>2, SegmentOrder DEF ForceErase
<1>4. CASE ForceWrite
  <2>1. /\ flash'[main.seg] = ram[main.seg]
        /\ \A t \in Segments : t # main.seg => flash'[t] = flash[t]
    BY <1>4, <1>m, OutcomeIsSuccess, WriteFacts DEF ForceWrite
  <2>2. main'.at = "force_next" /\ main'.seg = main.seg
    BY <1>4, <1>m DEF ForceWrite, MainThread
  <2> QED
    BY <1>4, <1>m, <2>1, <2>2 DEF ForceWrite
<1>5. CASE ForceNext
  <2>1. CASE MoreSegments(main.seg)
    <3>1. /\ main'.at = "force" /\ main'.seg = main.seg + 1
          /\ main.at = "force_next" /\ work.at = "idle"
          /\ UNCHANGED <<ram, flash, segment_dirty, flush_timer, work>>
      BY <1>5, <1>m, <2>1 DEF ForceNext, MainThread
    <3>2. \A t \in Segments : t < main.seg + 1 => t < main.seg \/ t = main.seg
      BY <1>m DEF Segments
    <3> QED
      BY <1>m, <3>1, <3>2
  <2>2. CASE ~MoreSegments(main.seg)
    <3>1. /\ main'.at = "reboot" /\ main.at = "force_next" /\ work.at = "idle"
          /\ segment_dirty' = {}
          /\ UNCHANGED <<ram, flash, flush_timer, work>>
      BY <1>5, <1>m, <2>2 DEF ForceNext, MainThread
    <3>2. \A t \in Segments : t < main.seg \/ t = main.seg
      BY <1>m, <2>2, SegmentFacts, Zenon
    <3> QED
      BY <1>m, <3>1, <3>2
  <2> QED
    BY <2>1, <2>2
<1> QED
  BY <1>1, <1>2, <1>3, <1>4, <1>5

\* A factory reset saves every segment, in its own order.
LEMMA ResetKeeps ==
    ASSUME FlashFails = FALSE, TypeOK, SavesSoFar,
           BeginFactoryReset \/ ResetErase \/ ResetWrite
    PROVE  SavesSoFar'
<1> USE DEF SavesSoFar, DirtyTracksFlash, LoadedKeepsDirty, StartsAtFirst, FlushedSoFar,
            ForcedSoFar, ResetSoFar, BeingMarked, BeingSaved, BeingFlushed, Saved, MainAt
<1>m. main \in MainThread /\ main.seg \in Segments
  BY DEF TypeOK, MainThread
<1>o. /\ \A k \in Segments : ResetOrder[k] \in Segments
      /\ \A s \in Segments : \E k \in Segments : ResetOrder[k] = s
  BY FlusherAssumption DEF FlusherAssumption
<1>1. CASE BeginFactoryReset
  BY <1>1, <1>m, SegmentOrder DEF BeginFactoryReset, MainThread
<1>2. CASE ResetErase
  <2>1. /\ flash'[ResetOrder[main.seg]] = Erased
        /\ \A t \in Segments : t # ResetOrder[main.seg] => flash'[t] = flash[t]
    <3>1. ResetOrder[main.seg] \in Segments
      BY <1>m, <1>o
    <3>2. Erase(ResetOrder[main.seg], TRUE)
      BY <1>2, OutcomeIsSuccess DEF ResetErase
    <3> QED
      BY <3>1, <3>2, EraseFacts
  <2>2. main'.at = "reset_write" /\ main'.seg = main.seg
    BY <1>2, <1>m, OutcomeIsSuccess DEF ResetErase, MainThread
  <2> QED
    BY <1>2, <1>m, <1>o, <2>1, <2>2 DEF ResetErase
<1>3. CASE ResetWrite
  <2>1. /\ flash'[ResetOrder[main.seg]] = ram[ResetOrder[main.seg]]
        /\ \A t \in Segments : t # ResetOrder[main.seg] => flash'[t] = flash[t]
    <3>1. ResetOrder[main.seg] \in Segments
      BY <1>m, <1>o
    <3>2. Write(ResetOrder[main.seg], TRUE)
      BY <1>3, OutcomeIsSuccess DEF ResetWrite
    <3>3. Saved(ResetOrder[main.seg]) \/ flash[ResetOrder[main.seg]] = Erased
      BY <1>3 DEF ResetWrite
    <3> QED
      BY <3>1, <3>2, <3>3, WriteFacts
  <2>2. \A k \in Segments : k < main.seg \/ k = main.seg => Saved(ResetOrder[k])'
    BY <1>3, <1>m, <1>o, <2>1 DEF ResetWrite
  <2>3. CASE main' = [main EXCEPT !.at = "reset", !.tries = @ - 1]
    BY <1>3, <1>m, <2>2, <2>3 DEF ResetWrite, MainThread
  <2>4. CASE MoreSegments(main.seg) /\ main' = [main EXCEPT !.at = "reset", !.seg = @ + 1]
    BY <1>3, <1>m, <2>2, <2>4, SegmentFacts DEF ResetWrite, MainThread
  <2>5. CASE ~MoreSegments(main.seg) /\ main' = MainIdle
    <3>1. \A s \in Segments : Saved(s)'
      <4>1. \A k \in Segments : Saved(ResetOrder[k])'
        BY <1>m, <2>2, <2>5, SegmentFacts
      <4> QED
        BY <1>o, <4>1
    <3> QED
      BY <1>3, <2>5, <3>1 DEF ResetWrite, MainIdle
  <2> QED
    BY <1>3, <2>3, <2>4, <2>5 DEF ResetWrite, ResetSaved
<1> QED
  BY <1>1, <1>2, <1>3

-------------------------------------------------------------------------------
(* The flush and the start of the node. *)

\* A flush may run between any two steps of the main thread: it leaves every
\* segment that was saved saved, and takes off the dirty set what it has saved.
LEMMA FlushKeeps ==
    ASSUME FlashFails = FALSE, TypeOK, SavesSoFar,
           TimerExpired \/ FlushSegment \/ FlushWrite \/ FlushNext
    PROVE  SavesSoFar'
<1> USE DEF SavesSoFar, DirtyTracksFlash, LoadedKeepsDirty, StartsAtFirst, FlushedSoFar,
            ForcedSoFar, ResetSoFar, BeingMarked, BeingSaved, BeingFlushed, Saved
<1>m. /\ work \in WorkItem /\ work.seg \in Segments /\ main.seg \in Segments
      /\ segment_dirty \subseteq Segments
  BY DEF TypeOK, WorkItem, MainThread
<1>o. \A k \in Segments : ResetOrder[k] \in Segments
  BY FlusherAssumption DEF FlusherAssumption
<1>1. CASE TimerExpired
  BY <1>1, <1>m, SegmentFacts, SegmentOrder DEF TimerExpired
<1>2. CASE FlushSegment /\ work.seg \notin segment_dirty
  BY <1>2, <1>m DEF FlushSegment, WorkItem
<1>3. CASE FlushSegment /\ work.seg \in segment_dirty
  <2>1. /\ flash'[work.seg] = Erased
        /\ \A t \in Segments : t # work.seg => flash'[t] = flash[t]
    BY <1>3, <1>m, OutcomeIsSuccess, EraseFacts DEF FlushSegment
  <2>2. work'.at = "write" /\ work'.seg = work.seg
    BY <1>3, <1>m, OutcomeIsSuccess DEF FlushSegment, WorkItem
  <2>3. DirtyTracksFlash'
    BY <1>3, <1>m, <1>o, <2>1, <2>2, SegmentOrder DEF FlushSegment
  <2>4. (LoadedKeepsDirty /\ StartsAtFirst)'
    BY <1>3, <1>m, <1>o, <2>1, <2>2, SegmentOrder DEF FlushSegment
  <2>5. FlushedSoFar'
    BY <1>3, <1>m, <1>o, <2>1, <2>2, SegmentOrder DEF FlushSegment
  <2>6. ForcedSoFar'
    BY <1>3, <1>m, <1>o, <2>1, <2>2, SegmentOrder DEF FlushSegment
  <2>7. ResetSoFar'
    BY <1>3, <1>m, <1>o, <2>1, <2>2, SegmentOrder DEF FlushSegment
  <2> QED
    BY <2>3, <2>4, <2>5, <2>6, <2>7
<1>4. CASE FlushWrite
  <2>1. /\ flash'[work.seg] = ram[work.seg]
        /\ \A t \in Segments : t # work.seg => flash'[t] = flash[t]
    BY <1>4, <1>m, OutcomeIsSuccess, WriteFacts DEF FlushWrite
  <2>2. work'.at = "next" /\ work'.seg = work.seg
    BY <1>4, <1>m DEF FlushWrite, WorkItem
  <2>3. DirtyTracksFlash'
    BY <1>4, <1>m, <1>o, <2>1, <2>2 DEF FlushWrite
  <2>4. (LoadedKeepsDirty /\ StartsAtFirst)'
    BY <1>4, <1>m, <1>o, <2>1, <2>2 DEF FlushWrite
  <2>5. FlushedSoFar'
    BY <1>4, <1>m, <1>o, <2>1, <2>2 DEF FlushWrite
  <2>6. ForcedSoFar'
    BY <1>4, <1>m, <1>o, <2>1, <2>2 DEF FlushWrite
  <2>7. ResetSoFar'
    BY <1>4, <1>m, <1>o, <2>1, <2>2 DEF FlushWrite
  <2> QED
    BY <2>3, <2>4, <2>5, <2>6, <2>7
<1>5. CASE FlushNext
  <2>1. work.at = "next" /\ work'.at # "write"
    BY <1>5 DEF FlushNext, WorkIdle
  <2>2. DirtyTracksFlash'
    BY <1>5, <1>m, <1>o, <2>1, SegmentFacts DEF FlushNext, WorkIdle
  <2>3. (LoadedKeepsDirty /\ StartsAtFirst)'
    BY <1>5, <1>m, <1>o, <2>1, SegmentFacts DEF FlushNext, WorkIdle
  <2>4. FlushedSoFar'
    <3>1. CASE MoreSegments(work.seg)
      <4>1. work'.seg = work.seg + 1 /\ segment_dirty' = segment_dirty
        BY <1>5, <3>1 DEF FlushNext
      <4>2. \A s \in segment_dirty : s < work'.seg => Saved(s)
        BY <1>5, <1>m, <4>1, SegmentFacts DEF FlushNext
      <4> QED
        BY <1>5, <2>1, <3>1, <4>1, <4>2 DEF FlushNext
    <3>2. CASE ~MoreSegments(work.seg)
      BY <1>5, <3>2 DEF FlushNext, WorkIdle
    <3> QED
      BY <3>1, <3>2
  <2>5. ForcedSoFar'
    BY <1>5, <1>m, <1>o, <2>1, SegmentFacts DEF FlushNext, WorkIdle
  <2>6. ResetSoFar'
    BY <1>5, <1>m, <1>o, <2>1, SegmentFacts DEF FlushNext, WorkIdle
  <2> QED
    BY <2>2, <2>3, <2>4, <2>5, <2>6
<1> QED
  BY <1>1, <1>2, <1>3, <1>4, <1>5

\* A start, after a power failure too, takes the flash for the configuration.
LEMMA RestartKeeps ==
    ASSUME Restart
    PROVE  SavesSoFar'
  BY DEF Restart, MainIdle, WorkIdle, SavesSoFar, DirtyTracksFlash, LoadedKeepsDirty,
     StartsAtFirst, FlushedSoFar, ForcedSoFar, ResetSoFar, BeingMarked, BeingSaved, Saved

\* Every step and every power failure keeps what the saves rest on.
LEMMA NextSaves ==
    ASSUME FlashFails = FALSE
    PROVE  TypeOK /\ SavesSoFar /\ [Next \/ PowerFails]_vars => SavesSoFar'
<1> SUFFICES ASSUME TypeOK, SavesSoFar, [Next \/ PowerFails]_vars PROVE SavesSoFar'
  OBVIOUS
<1>1. CASE UNCHANGED vars
  BY <1>1 DEF vars, SavesSoFar, DirtyTracksFlash, LoadedKeepsDirty, StartsAtFirst,
     FlushedSoFar, ForcedSoFar, ResetSoFar, BeingMarked, BeingSaved, BeingFlushed, Saved
<1>2. CASE Reboot \/ PowerFails
  BY <1>2, RestartKeeps DEF Reboot, PowerFails
<1> QED
  BY <1>1, <1>2, EditKeeps, ForceKeeps, ResetKeeps, FlushKeeps DEF Next, MainSteps, WorkSteps

-------------------------------------------------------------------------------
(* The properties. *)

\* The invariant holds in every reachable state, if the flash does not fail.
THEOREM FlusherInvariant ==
    ASSUME FlashFails = FALSE
    PROVE  PowerSpec => []FlusherInv
<1>1. Init => FlusherInv
  <2>1. Init => TimerKept /\ SavesSoFar
    BY DEF Init, MainIdle, WorkIdle, TimerKept, SavesSoFar, DirtyTracksFlash,
       LoadedKeepsDirty, StartsAtFirst, FlushedSoFar, ForcedSoFar, ResetSoFar, Saved
  <2> QED
    BY <2>1, InitType DEF FlusherInv
<1>2. FlusherInv /\ [Next \/ PowerFails]_vars => FlusherInv'
  BY NextType, NextTimer, NextSaves DEF FlusherInv
<1> QED
  BY <1>1, <1>2, PTL DEF PowerSpec

\* No edit loses its mark: what the flash does not hold is dirty, about to be
\* marked or being saved, whatever interrupts what and whenever power fails.
THEOREM NoEditForgotten ==
    ASSUME FlashFails = FALSE
    PROVE  PowerSpec => []DirtyTracksFlash
<1>1. FlusherInv => DirtyTracksFlash
  BY DEF FlusherInv, SavesSoFar
<1> QED
  BY <1>1, FlusherInvariant, PTL

\* What the flush or a forced write takes off the dirty set is in the flash.
THEOREM CleanIsSaved ==
    ASSUME FlashFails = FALSE
    PROVE  PowerSpec => SavedBeforeClean
<1>1. ASSUME FlusherInv, FlushNext \/ ForceNext, NEW s \in segment_dirty \ segment_dirty'
      PROVE  flash[s] = ram[s]
  <2> USE DEF FlusherInv, SavesSoFar, Saved
  <2>1. /\ s \in Segments /\ work \in WorkItem /\ main \in MainThread
        /\ work.seg \in Segments /\ main.seg \in Segments
    BY <1>1 DEF TypeOK, WorkItem, MainThread
  <2>2. CASE FlushNext
    <3>1. work.at = "next" /\ ~MoreSegments(work.seg)
      BY <1>1, <2>2 DEF FlushNext
    <3>2. s < work.seg \/ s = work.seg
      BY <2>1, <3>1, SegmentFacts
    <3> QED
      BY <1>1, <3>1, <3>2 DEF FlushedSoFar
  <2>3. CASE ForceNext
    <3>1. main.at = "force_next" /\ work.at = "idle" /\ ~MoreSegments(main.seg)
      BY <1>1, <2>3 DEF ForceNext, MainAt
    <3>2. s < main.seg \/ s = main.seg
      BY <2>1, <3>1, SegmentFacts
    <3> QED
      BY <1>1, <2>1, <3>1, <3>2 DEF ForcedSoFar, BeingFlushed
  <2> QED
    BY <1>1, <2>2, <2>3
<1>2. FlusherInv /\ [Next \/ PowerFails]_vars =>
        [FlushNext \/ ForceNext =>
            \A s \in segment_dirty \ segment_dirty' : flash[s] = ram[s]]_vars
  BY <1>1
<1> QED
  BY <1>2, FlusherInvariant, PTL DEF PowerSpec, SavedBeforeClean

\* A reboot by the configuration tool finds the whole configuration in the flash.
THEOREM RebootKeepsEdits ==
    ASSUME FlashFails = FALSE
    PROVE  PowerSpec => RebootLosesNothing
<1>1. FlusherInv /\ [Next \/ PowerFails]_vars =>
        [Reboot => \A s \in Segments : flash[s] = ram[s]]_vars
  BY DEF FlusherInv, SavesSoFar, ForcedSoFar, Saved, Reboot, MainAt
<1> QED
  BY <1>1, FlusherInvariant, PTL DEF PowerSpec, RebootLosesNothing

-------------------------------------------------------------------------------
(* The abstract store: each step of the flusher is one of SettingsStore. *)

\* Segments are no longer counted as unsaved, and are saved.
LEMMA StepSettles ==
    ASSUME UNCHANGED <<ram, flash>>, Unsaved' \subseteq Unsaved,
           \A s \in Unsaved \ Unsaved' : Saved(s)
    PROVE  Store!Next
  BY DEF Store!Next, Store!Settle, Saved

\* An unsaved segment is erased.
LEMMA StepErases ==
    ASSUME NEW s \in Segments, s \in Unsaved, Erase(s, TRUE), UNCHANGED ram, Unsaved' = Unsaved
    PROVE  Store!Next
<1>1. Store!Erase(s)
  BY DEF Erase, Store!Erase
<1> QED
  BY <1>1 DEF Store!Next

\* An unsaved segment is written where it is erased, and left alone where a
\* flush has written it before; it may be settled then, with others that are saved.
LEMMA StepWrites ==
    ASSUME NEW s \in Segments, s \in Unsaved, TypeOK, Write(s, TRUE),
           Saved(s) \/ flash[s] = Erased, UNCHANGED ram, Unsaved' \subseteq Unsaved,
           \A t \in Segments : t \in Unsaved /\ t \notin Unsaved' => t = s \/ Saved(t)
    PROVE  Store!Next
<1>1. Unsaved \subseteq Segments
  BY DEF Unsaved, TypeOK, MainThread
<1>2. CASE flash[s] = Erased
  <2>1. flash' = [flash EXCEPT ![s] = ram[s]] /\ flash'[s] = ram[s]
    BY <1>2 DEF Write, TypeOK
  <2>2. \A t \in Unsaved \ Unsaved' : flash'[t] = ram[t]
    BY <1>1, WriteFacts DEF Saved
  <2>3. Store!Write(s)
    BY <1>2, <2>1, <2>2 DEF Store!Write, Store!Settle
  <2> QED
    BY <2>3 DEF Store!Next
<1>3. CASE flash[s] # Erased
  <2>1. UNCHANGED flash /\ Saved(s)
    BY <1>3 DEF Write
  <2> QED
    BY <1>1, <2>1, StepSettles
<1> QED
  BY <1>2, <1>3

\* An edit is one, its mark makes no difference: the flush takes off the dirty set
\* only what the main thread has loaded from it.
LEMMA EditStores ==
    ASSUME FlusherInv,
           \/ \E s \in Segments, v \in Value : EditSegment(s, v)
           \/ LoadDirty \/ StoreDirty \/ StartFlushTimer
    PROVE  Store!Next
<1>m. main \in MainThread
  BY DEF FlusherInv, TypeOK
<1>1. ASSUME NEW s \in Segments, NEW v \in Value, EditSegment(s, v) PROVE Store!Next
  <2>1. Unsaved = segment_dirty /\ Unsaved' = segment_dirty \cup {s}
    BY <1>1, <1>m DEF EditSegment, MainAt, MainThread, Unsaved
  <2>2. Store!Edit(s, v)
    BY <1>1, <2>1 DEF EditSegment, Store!Edit
  <2> QED
    BY <2>2 DEF Store!Next
<1>2. CASE LoadDirty
  <2>1. Unsaved' = Unsaved
    BY <1>2, <1>m DEF LoadDirty, MainAt, MainThread, Unsaved
  <2> QED
    BY <1>2, <2>1, StepSettles DEF LoadDirty
<1>3. CASE StoreDirty
  <2>1. Unsaved' = Unsaved
    BY <1>3, <1>m DEF StoreDirty, MainAt, MainThread, Unsaved,
       FlusherInv, SavesSoFar, LoadedKeepsDirty
  <2> QED
    BY <1>3, <2>1, StepSettles DEF StoreDirty
<1>4. CASE StartFlushTimer
  <2>1. Unsaved' = Unsaved
    BY <1>4, <1>m DEF StartFlushTimer, MainAt, MainThread, MainIdle, Unsaved
  <2> QED
    BY <1>4, <2>1, StepSettles DEF StartFlushTimer
<1> QED
  BY <1>1, <1>2, <1>3, <1>4

\* A forced write erases and writes only segments that were dirty when it looked.
LEMMA ForceStores ==
    ASSUME FlashFails = FALSE, FlusherInv,
           BeginReboot \/ ForceSegment \/ ForceErase \/ ForceWrite \/ ForceNext
    PROVE  Store!Next
<1>m. /\ TypeOK /\ main \in MainThread /\ main.seg \in Segments
      /\ segment_dirty \subseteq Segments
  BY DEF FlusherInv, TypeOK, MainThread
<1>1. CASE BeginReboot \/ ForceSegment
  <2>1. Unsaved' = Unsaved
    BY <1>1, <1>m DEF BeginReboot, ForceSegment, MainAt, MainThread, Unsaved
  <2> QED
    BY <1>1, <2>1, StepSettles DEF BeginReboot, ForceSegment
<1>2. CASE ForceErase
  <2>1. Erase(main.seg, TRUE) /\ main' = [main EXCEPT !.at = "force_write"]
    BY <1>2, OutcomeIsSuccess DEF ForceErase
  <2>2. Unsaved' = Unsaved /\ main.seg \in Unsaved
    BY <1>2, <1>m, <2>1 DEF ForceErase, MainAt, MainThread, Unsaved
  <2> QED
    BY <1>2, <1>m, <2>1, <2>2, StepErases DEF ForceErase
<1>3. CASE ForceWrite
  <2>1. Write(main.seg, TRUE) /\ (Saved(main.seg) \/ flash[main.seg] = Erased)
    BY <1>3, OutcomeIsSuccess DEF ForceWrite, MainAt, FlusherInv, SavesSoFar, ForcedSoFar
  <2>2. /\ Unsaved = segment_dirty \cup {main.seg} /\ Unsaved' = segment_dirty
    BY <1>3, <1>m DEF ForceWrite, MainAt, MainThread, Unsaved
  <2> QED
    BY <1>3, <1>m, <2>1, <2>2, StepWrites DEF ForceWrite
<1>4. CASE ForceNext
  <2>1. Unsaved = segment_dirty /\ Unsaved' = segment_dirty'
    BY <1>4, <1>m DEF ForceNext, MainAt, MainThread, Unsaved
  <2>2. \A s \in segment_dirty \ segment_dirty' : Saved(s)
    <3>1. main.at = "force_next" /\ work.at = "idle"
      BY <1>4 DEF ForceNext, MainAt
    <3>2. CASE ~MoreSegments(main.seg)
      BY <1>m, <3>1, <3>2, SegmentFacts
      DEF FlusherInv, SavesSoFar, ForcedSoFar, BeingFlushed
    <3>3. CASE MoreSegments(main.seg)
      BY <1>4, <3>3 DEF ForceNext
    <3> QED
      BY <3>2, <3>3
  <2>3. segment_dirty' \subseteq segment_dirty
    BY <1>4 DEF ForceNext
  <2> QED
    BY <1>4, <2>1, <2>2, <2>3, StepSettles DEF ForceNext
<1> QED
  BY <1>1, <1>2, <1>3, <1>4

\* A factory reset makes every segment unsaved until the last one is written.
LEMMA ResetStores ==
    ASSUME FlashFails = FALSE, FlusherInv, BeginFactoryReset \/ ResetErase \/ ResetWrite
    PROVE  Store!Next
<1> DEFINE o == ResetOrder[main.seg]
<1>m. /\ TypeOK /\ main \in MainThread /\ main.seg \in Segments
      /\ segment_dirty \subseteq Segments /\ main.loaded \subseteq Segments
  BY DEF FlusherInv, TypeOK, MainThread
<1>o. o \in Segments /\ \A s \in Segments : \E k \in Segments : ResetOrder[k] = s
  BY <1>m, FlusherAssumption DEF FlusherAssumption
<1>1. CASE BeginFactoryReset
  <2>1. Unsaved' = Segments
    BY <1>1, <1>m DEF BeginFactoryReset, MainAt, MainThread, Unsaved
  <2>2. Store!Reset
    BY <1>1, <2>1 DEF BeginFactoryReset, Store!Reset
  <2> QED
    BY <2>2 DEF Store!Next
<1>2. CASE ResetErase
  <2>1. Erase(o, TRUE) /\ main' = [main EXCEPT !.at = "reset_write"]
    BY <1>2, OutcomeIsSuccess DEF ResetErase
  <2>2. Unsaved = Segments /\ Unsaved' = Segments
    BY <1>2, <1>m, <2>1 DEF ResetErase, MainAt, MainThread, Unsaved
  <2> HIDE DEF o
  <2> QED
    BY <1>2, <1>o, <2>1, <2>2, StepErases DEF ResetErase
<1>3. CASE ResetWrite
  <2>1. Write(o, TRUE) /\ (Saved(o) \/ flash[o] = Erased)
    BY <1>3, OutcomeIsSuccess DEF ResetWrite, MainAt, FlusherInv, SavesSoFar, ResetSoFar
  <2>2. Unsaved = Segments
    BY <1>3, <1>m DEF ResetWrite, MainAt, Unsaved
  <2>3. Unsaved' = Segments \/ (~MoreSegments(main.seg) /\ Unsaved' = segment_dirty)
    <3>1. \/ main' = [main EXCEPT !.at = "reset", !.tries = @ - 1]
          \/ main' = [main EXCEPT !.at = "reset", !.seg = @ + 1]
          \/ ~MoreSegments(main.seg) /\ main' = MainIdle
      BY <1>3 DEF ResetWrite, ResetSaved
    <3>2. UNCHANGED segment_dirty
      BY <1>3 DEF ResetWrite
    <3>3. main'.at = "reset" => Unsaved' = Segments
      BY <1>m, <3>2 DEF Unsaved
    <3>4. main' = MainIdle => Unsaved' = segment_dirty
      BY <3>2 DEF Unsaved, MainIdle
    <3>5. \/ main'.at = "reset"
          \/ ~MoreSegments(main.seg) /\ main' = MainIdle
      BY <1>m, <3>1 DEF MainThread
    <3> QED
      BY <3>3, <3>4, <3>5
  <2>4. ~MoreSegments(main.seg) => \A t \in Segments : t = o \/ Saved(t)
    <3> SUFFICES ASSUME ~MoreSegments(main.seg), NEW t \in Segments PROVE t = o \/ Saved(t)
      OBVIOUS
    <3>1. PICK k \in Segments : ResetOrder[k] = t
      BY <1>o
    <3>2. k < main.seg \/ k = main.seg
      BY <1>m, SegmentFacts
    <3>3. work.at = "idle" /\ main.at = "reset_write"
      BY <1>3 DEF ResetWrite, MainAt
    <3> QED
      BY <3>1, <3>2, <3>3 DEF FlusherInv, SavesSoFar, ResetSoFar, BeingFlushed
  <2> HIDE DEF o
  <2> QED
    BY <1>3, <1>m, <1>o, <2>1, <2>2, <2>3, <2>4, StepWrites DEF ResetWrite
<1> QED
  BY <1>1, <1>2, <1>3

\* The flush erases and writes only dirty segments, and settles those it has saved.
LEMMA FlushStores ==
    ASSUME FlashFails = FALSE, FlusherInv,
           TimerExpired \/ FlushSegment \/ FlushWrite \/ FlushNext
    PROVE  Store!Next
<1>m. /\ TypeOK /\ work \in WorkItem /\ work.seg \in Segments
      /\ segment_dirty \subseteq Segments /\ segment_dirty \subseteq Unsaved
  BY DEF FlusherInv, TypeOK, WorkItem, Unsaved
<1>1. CASE TimerExpired
  <2>1. Unsaved' = Unsaved
    BY <1>1 DEF TimerExpired, Unsaved
  <2> QED
    BY <1>1, <2>1, StepSettles DEF TimerExpired
<1>2. CASE FlushSegment
  <2>1. Unsaved' = Unsaved
    BY <1>2 DEF FlushSegment, Unsaved
  <2>2. CASE work.seg \in segment_dirty
    BY <1>2, <1>m, <2>1, <2>2, OutcomeIsSuccess, StepErases DEF FlushSegment
  <2>3. CASE work.seg \notin segment_dirty
    BY <1>2, <2>1, <2>3, StepSettles DEF FlushSegment
  <2> QED
    BY <2>2, <2>3
<1>3. CASE FlushWrite
  <2>1. Unsaved' = Unsaved
    BY <1>3 DEF FlushWrite, Unsaved
  <2>2. work.seg \in Unsaved /\ flash[work.seg] = Erased /\ Write(work.seg, TRUE)
    BY <1>3, <1>m, OutcomeIsSuccess DEF FlushWrite, FlusherInv, SavesSoFar, FlushedSoFar
  <2> QED
    BY <1>3, <1>m, <2>1, <2>2, StepWrites DEF FlushWrite
<1>4. CASE FlushNext
  <2>1. segment_dirty' \subseteq segment_dirty /\ UNCHANGED <<ram, flash, main>>
    BY <1>4 DEF FlushNext
  <2>2. \A s \in segment_dirty \ segment_dirty' : Saved(s)
    <3>1. CASE ~MoreSegments(work.seg)
      BY <1>4, <1>m, <3>1, SegmentFacts DEF FlushNext, FlusherInv, SavesSoFar, FlushedSoFar
    <3>2. CASE MoreSegments(work.seg)
      BY <1>4, <3>2 DEF FlushNext
    <3> QED
      BY <3>1, <3>2
  <2>3. Unsaved' \subseteq Unsaved /\ Unsaved \ Unsaved' \subseteq segment_dirty \ segment_dirty'
    BY <2>1 DEF Unsaved
  <2> QED
    BY <2>1, <2>2, <2>3, StepSettles
<1> QED
  BY <1>1, <1>2, <1>3, <1>4

\* The flusher implements SettingsStore for any number of segments: it never
\* erases a segment that counts as saved, never overwrites one that is not erased,
\* and every segment but the unsaved ones survives a power failure.
THEOREM FlusherIsStore ==
    ASSUME FlashFails = FALSE
    PROVE  PowerSpec => KeepsSettings
<1>1. Init => Store!Init
  BY DEF Init, Store!Init, Unsaved, MainIdle
<1>2. FlusherInv /\ [Next \/ PowerFails]_vars => [Store!Next]_(Store!vars)
  <2> SUFFICES ASSUME FlusherInv, [Next \/ PowerFails]_vars PROVE [Store!Next]_(Store!vars)
    OBVIOUS
  <2>1. CASE Reboot \/ PowerFails
    <3>1. Store!Restart
      BY <2>1 DEF Reboot, PowerFails, Restart, Store!Restart, Unsaved, MainIdle
    <3> QED
      BY <3>1 DEF Store!Next
  <2>2. CASE UNCHANGED vars
    BY <2>2 DEF vars, Store!vars, Unsaved
  <2> QED
    BY <2>1, <2>2, EditStores, ForceStores, ResetStores, FlushStores
    DEF Next, MainSteps, WorkSteps
<1> QED
  BY <1>1, <1>2, FlusherInvariant, PTL DEF PowerSpec, KeepsSettings, Store!Spec
===============================================================================
