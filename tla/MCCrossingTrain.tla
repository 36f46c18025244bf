---------------------------- MODULE MCCrossingTrain ----------------------------
(***************************************************************************)
(* One track of the default configuration for CrossingTrain.               *)
(***************************************************************************)
EXTENDS CrossingTrain

TrackInput == {"i0", "i1", "i2", "i3"}
TrackSensor ==
    [r \in {1} |-> [left |-> "i0", left_island |-> "i1", right_island |-> "i2", right |-> "i3"]]
TrackEnabled == [r \in {1} |-> [role \in Role |-> TRUE]]
TrackSwitches == [r \in {1} |-> <<>>]
===============================================================================
