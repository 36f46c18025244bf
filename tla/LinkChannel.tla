----------------------------- MODULE LinkChannel -----------------------------
(***************************************************************************)
(* What the LCC-Link promises of the frames the computer sends to the bus: *)
(* some may be lost, the others arrive in their order and once.  A frame   *)
(* that the computer did not send, or one that is there already, may come  *)
(* out for every delimiter that ended no whole frame, and for no more.     *)
(***************************************************************************)
EXTENDS Naturals

VARIABLES
    delimiters, \* delimiters that the computer has written
    sent,       \* frames that they ended
    out,        \* the latest of them on the bus
    damage,     \* delimiters on their way that end no whole frame
    strays      \* frames on the bus that nobody sent, or sent before

vars == <<delimiters, sent, out, damage, strays>>

Init ==
    /\ delimiters = 0
    /\ sent = 0
    /\ out = 0
    /\ damage = 0
    /\ strays = 0

\* A frame, a delimiter without a frame, or a frame whose first half was lost.
Write ==
    /\ delimiters' = delimiters + 1
    /\ sent' \in {sent, sent + 1}
    /\ damage' \in {damage, damage + 1}
    /\ UNCHANGED <<out, strays>>

Lose ==
    /\ damage' \in 0..damage
    /\ UNCHANGED <<delimiters, sent, out, strays>>

Put ==
    /\ out' \in (out + 1)..sent
    /\ damage' \in 0..damage
    /\ UNCHANGED <<delimiters, sent, strays>>

PutStray ==
    /\ damage' < damage
    /\ damage' \in Nat
    /\ strays' = strays + 1
    /\ UNCHANGED <<delimiters, sent, out>>

Next == Write \/ Lose \/ Put \/ PutStray

Spec == Init /\ [][Next]_vars
=============================================================================
