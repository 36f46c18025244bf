---------------------------- MODULE MCTortoiseMoves ----------------------------
(***************************************************************************)
(* A few outputs for TortoiseMoves.                                        *)
(***************************************************************************)
EXTENDS TortoiseMoves

EachAlone == {{x} : x \in Outputs}
FirstTwoTogether == {{1, 2}} \cup {{x} : x \in 3..NumOutputs}

(***************************************************************************)
(* After a factory reset, which starts no more moves, the configuration is *)
(* not written again.                                                      *)
(***************************************************************************)
ResetIsLast == limit = 0 => \A x \in Outputs : tort'[x].control = tort[x].control
===============================================================================
