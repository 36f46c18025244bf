----------------------------- MODULE SettingsStore -----------------------------
(***************************************************************************)
(* What the storage of the configuration promises: the segments that are   *)
(* not saved are known, only they are erased, and a power failure costs no *)
(* other segment.                                                          *)
(***************************************************************************)
CONSTANTS
    Segments,
    Value,      \* the contents the operator may give a segment
    Default,    \* its contents after a factory reset
    Erased      \* what a segment reads as between its erase and its write

VARIABLES
    used,       \* the contents the node works with
    kept,       \* the contents it starts with again
    unsaved     \* the segments for which they may differ

vars == <<used, kept, unsaved>>

Init ==
    /\ used = [s \in Segments |-> Default]
    /\ kept = used
    /\ unsaved = {}

\* The operator changes a segment.
Edit(s, v) ==
    /\ used' = [used EXCEPT ![s] = v]
    /\ unsaved' = unsaved \cup {s}
    /\ UNCHANGED kept

\* The operator wants all of them as they were delivered.
Reset ==
    /\ used' = [s \in Segments |-> Default]
    /\ unsaved' = Segments
    /\ UNCHANGED kept

\* Segments are taken for saved, and are.
Settle ==
    /\ unsaved' \in SUBSET unsaved
    /\ \A s \in unsaved \ unsaved' : kept'[s] = used[s]

\* A segment is saved in two steps; others may be settled with it.
Erase(s) ==
    /\ s \in unsaved
    /\ kept' = [kept EXCEPT ![s] = Erased]
    /\ UNCHANGED <<used, unsaved>>

Write(s) ==
    /\ s \in unsaved
    /\ kept[s] = Erased
    /\ kept' = [kept EXCEPT ![s] = used[s]]
    /\ Settle
    /\ UNCHANGED used

Restart ==
    /\ used' = kept
    /\ unsaved' = {}
    /\ UNCHANGED kept

Next ==
    \/ \E s \in Segments, v \in Value : Edit(s, v)
    \/ Reset
    \/ \E s \in Segments : Erase(s) \/ Write(s)
    \/ Settle /\ UNCHANGED <<used, kept>>
    \/ Restart

Spec == Init /\ [][Next]_vars
===============================================================================
