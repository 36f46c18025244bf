---------------------------- MODULE MCCrossingGate ----------------------------
(***************************************************************************)
(* Layouts on which TLC checks CrossingGate.                               *)
(***************************************************************************)
EXTENDS CrossingGate

\* One track, four sensors, no turnout ("Track 1" of the default configuration).
TrackInput == {"i0", "i1", "i2", "i3"}
TrackSensor ==
    [r \in {1} |-> [left |-> "i0", left_island |-> "i1", right_island |-> "i2", right |-> "i3"]]
TrackEnabled == [r \in {1} |-> [role \in Role |-> TRUE]]
TrackSwitches == [r \in {1} |-> <<>>]

\* Two routes through one pair of island sensors that part at an event-driven
\* turnout on the right; the second listens to LCC events for its right sensor.
JunctionInput == {"i0", "i1", "i2", "i3"}
JunctionSensor ==
    [r \in {1, 2} |-> [left |-> "i0", left_island |-> "i1", right_island |-> "i2",
                       right |-> IF r = 1 THEN "i3" ELSE "event"]]
JunctionEnabled == [r \in {1, 2} |-> [role \in Role |-> TRUE]]
JunctionSwitches == [r \in {1, 2} |-> [s \in {"turnout"} |-> r = 2]]

\* A route with a sensor at its right end only; the sensors that are left
\* disabled keep input 0, the default of sensor_input.
HalfInput == {"i0", "i3"}
HalfSensor ==
    [r \in {1} |-> [role \in Role |-> IF role = "right" THEN "i3" ELSE "i0"]]
HalfEnabled == [r \in {1} |-> [role \in Role |-> role = "right"]]
===============================================================================
