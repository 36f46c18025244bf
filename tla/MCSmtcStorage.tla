----------------------------- MODULE MCSmtcStorage -----------------------------
(***************************************************************************)
(* Bounds for SmtcStorage.                                                 *)
(***************************************************************************)
EXTENDS SmtcStorage

NothingTracked == trackers = [s \in Switches |-> Unknown] /\ trackFlash = NoTrackers
NoneMoved == [x \in Outputs |-> Unknown]

(***************************************************************************)
(* The outputs and the tracker share the interrupt, the flash driver and   *)
(* the main thread.  The node either does not translate DCC, or its        *)
(* outputs keep the factory settings, none moves and only one is sent away:*)
(* marks, erases, failures and rewrites then go on beside the tracker's.   *)
(***************************************************************************)
OneMoves ==
    \/ mode = "off" /\ NothingTracked
    \/ /\ mode # "off" \/ main # "idle"
       /\ config = FactoryConfig
       /\ current = NoneMoved /\ \A i \in Copies : copies[i] \in {NoneMoved, ErasedCopy}
       /\ \A x \in Outputs : desired[x] = "reverse" => x = 1

(***************************************************************************)
(* After a failed erase or write the main thread begins nothing else and   *)
(* the supply does not dip: outputs move, and the node goes down with the  *)
(* flash that it has left.                                                 *)
(***************************************************************************)
FailureIsLast == history.failed => main = "idle" /\ ~history.dipped
===============================================================================
