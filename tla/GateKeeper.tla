------------------------------ MODULE GateKeeper ------------------------------
(***************************************************************************)
(* What the crossing promises of its gates: they may move late, but never  *)
(* up while a train calls for them, and the crossing does not come to rest *)
(* with gates that do not match its trains.                                *)
(***************************************************************************)
CONSTANT Routes

VARIABLES
    calling,    \* the routes with a train that has not passed the island
    arms,       \* "raised" or "lowered"
    atRest      \* the crossing waits for the next change

vars == <<calling, arms, atRest>>

Match == arms = IF calling = {} THEN "raised" ELSE "lowered"

Init ==
    /\ calling = {}
    /\ arms = "raised"
    /\ atRest = TRUE

\* A train comes before the island.
Call(r) ==
    /\ r \notin calling
    /\ calling' = calling \cup {r}
    /\ atRest' = FALSE
    /\ UNCHANGED arms

\* A train has passed the island, or is given up.
Release(r) ==
    /\ r \in calling
    /\ calling' = calling \ {r}
    /\ atRest' = FALSE
    /\ UNCHANGED arms

\* Something changes that may be a train.
Wake ==
    /\ atRest' = FALSE
    /\ UNCHANGED <<calling, arms>>

\* A train that called may have been given up meanwhile; then this is no rest.
Lower ==
    /\ ~atRest
    /\ arms = "raised"
    /\ arms' = "lowered"
    /\ UNCHANGED calling
    /\ atRest' \in BOOLEAN
    /\ atRest' => Match'

Raise ==
    /\ ~atRest
    /\ calling = {}
    /\ arms = "lowered"
    /\ arms' = "raised"
    /\ UNCHANGED calling
    /\ atRest' \in BOOLEAN

Rest ==
    /\ Match
    /\ atRest' = TRUE
    /\ UNCHANGED <<calling, arms>>

Next ==
    \/ \E r \in Routes : Call(r) \/ Release(r)
    \/ Wake \/ Lower \/ Raise \/ Rest

Spec == Init /\ [][Next]_vars
===============================================================================
