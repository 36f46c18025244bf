---------------------------- MODULE MCConfigFlusher ----------------------------
(***************************************************************************)
(* Three of the five segments for ConfigFlusher: 250, 253 and 249, which   *)
(* factory_reset saves in the order 253, 250, 249.                         *)
(***************************************************************************)
EXTENDS ConfigFlusher

GateResetOrder == [k \in 1 .. 3 |-> CASE k = 1 -> 2 [] k = 2 -> 1 [] k = 3 -> 3]
===============================================================================
