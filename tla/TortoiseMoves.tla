----------------------------- MODULE TortoiseMoves -----------------------------
(***************************************************************************)
(* The outputs of the SMTC-8 and the main loop that drives them: struct    *)
(* tortoise (tortoise.c) and the periodic pass of main.c, which starts and *)
(* redirects moves, never more than max_turnouts_at_once at a time, and    *)
(* cuts the outputs while the supply is out of range.                      *)
(*                                                                         *)
(* Every output drives a stall motor; `machine' is where that motor really *)
(* is, which the node cannot see: it only counts the time of the move.     *)
(* Time is counted in ticks of the pass (250 ms).  The pulse outputs, the  *)
(* buttons and writes of max_turnouts_at_once are not part of the model.   *)
(***************************************************************************)
EXTENDS Integers, FiniteSets

CONSTANTS
    NumOutputs,     \* 8 in the code
    MaxAtOnce,      \* max_turnouts_at_once, as the node loads it when it starts
    MoveTicks,      \* the time of a move (2500 ms)
    LockTicks,      \* the time the outputs stay disabled at least (5000 ms)
    Controls,       \* the values of control_type that the operator uses
    Addresses       \* the outputs that answer to one event or accessory number

Outputs == 1..NumOutputs
Control == {"driven", "disable", "alwaysOn"}    \* driven: any other control_type
Position == {"normal", "reverse"}
Unknown == "unknown"

ASSUME TortoiseAssumption ==
    /\ NumOutputs \in Nat /\ MaxAtOnce \in Nat \ {0}
    /\ MoveTicks \in Nat \ {0} /\ LockTicks \in Nat
    /\ Controls \subseteq Control
    /\ Addresses \subseteq SUBSET Outputs

VARIABLES
    tort,           \* lcc_tortoise_state.tortoises
    limit,          \* global_config.max_turnouts_at_once
    lockout,        \* disable_outputs_voltage_out_of_range
    lockAge,        \* the time since disable_outputs_start_time (stops at LockTicks)
    due,            \* output_check_timer has expired
    inRange,        \* the supply, as the ADC would measure it now
    machine         \* how far each switch machine is from its normal end

vars == <<tort, limit, lockout, lockAge, due, inRange, machine>>

(***************************************************************************)
(* struct tortoise.  moved is the time that tortoise_is_moving computes    *)
(* from its three time stamps, paused the value it had when the move was   *)
(* delayed, which is what resuming it restores.  Only an output that never *)
(* had a position has none to go to.                                       *)
(***************************************************************************)
Tortoise ==
    {t \in [control : Control,
            current : Position \cup {Unknown}, desired : Position \cup {Unknown},
            out : Position \cup {"off"},
            started : BOOLEAN,
            moved : 0..MoveTicks, paused : 0..MoveTicks] :
       t.desired = Unknown => t.current = Unknown}

IsMoving(t) == t.started /\ t.moved < MoveTicks
NeedsToMove(t) == t.current # t.desired
Driven(t) == t.control = "driven"

\* tortoise_set_position_force
SetPositionForce(t, p) ==
    CASE t.control = "disable" -> [t EXCEPT !.out = "off"]
      [] t.control = "alwaysOn" -> [t EXCEPT !.out = "normal"]
      [] Driven(t) /\ t.current = p -> [t EXCEPT !.out = "off", !.started = FALSE]
      [] OTHER -> [t EXCEPT !.out = p, !.current = p,
                            !.started = TRUE, !.moved = 0, !.paused = 0]

\* tortoise_disable_outputs and tortoise_delay_move
DisableOutputs(t) ==
    [t EXCEPT !.out = "off", !.paused = IF t.started THEN t.moved ELSE @]

\* A resumed move taken for done.
ResumeAsDone(t) ==
    [t EXCEPT !.moved = IF t.started THEN MoveTicks ELSE @, !.paused = 0]

\* tortoise_resume_move
ResumeMove(t) ==
    [t EXCEPT !.moved = IF t.started THEN t.paused ELSE @, !.paused = 0]

\* The outputs switched on towards where they are to go next.
EnableDesired(t) == t.desired

\* The current position given to the pins as it is.
EnableAsIs(t) == t.current

\* What tortoise_enable_outputs makes of the current position, unknown included.
EnabledPosition(t) == IF t.current = "normal" THEN "normal" ELSE "reverse"

\* The move not resumed: the pause counts as time it moved.
EnableForgetsResume(t) == [t EXCEPT !.out = EnabledPosition(t)]

\* tortoise_enable_outputs
EnableOutputs(t) == ResumeMove([t EXCEPT !.out = EnabledPosition(t)])

\* What startup_control, or the position saved at the last power failure, asks for.
StartupPosition == Position

\* main on a blank chip: factory_reset instead of tortoise_init_startup_position.
BlankStart ==
    [control |-> "driven", current |-> Unknown, desired |-> Unknown, out |-> "off",
     started |-> FALSE, moved |-> 0, paused |-> 0]

\* A start with a configuration, or the first one of a blank chip: the factory
\* settings, which give no output a position to go to.
Init ==
    /\ tort \in [Outputs ->
          [control : Controls, current : {Unknown}, desired : StartupPosition, out : {"off"},
           started : {FALSE}, moved : {0}, paused : {0}]]
       \/ tort = [x \in Outputs |-> BlankStart]
    /\ limit = MaxAtOnce
    /\ lockout = FALSE
    /\ lockAge = 0
    /\ due = FALSE
    /\ inRange \in BOOLEAN
    /\ machine \in [Outputs -> {0, MoveTicks}]

-----------------------------------------------------------------------------
(***************************************************************************)
(* The operator and the layout: events, accessory commands, configuration. *)
(***************************************************************************)

\* incoming_event and accy_cb: every output with this address is to move.
Command(S, p) ==
    /\ tort' = [x \in Outputs |-> IF x \in S THEN [tort[x] EXCEPT !.desired = p] ELSE tort[x]]
    /\ UNCHANGED <<limit, lockout, lockAge, due, inRange, machine>>

\* tortoise_check_set_position
CheckSetPosition(t) == SetPositionForce(t, t.current)

\* mem_address_space_write to space 253: one output gets another control_type,
\* and then all eight outputs are set again.
WriteConfig(x, c) ==
    /\ tort' = [y \in Outputs |->
                  CheckSetPosition(IF y = x THEN [tort[y] EXCEPT !.control = c] ELSE tort[y])]
    /\ UNCHANGED <<limit, lockout, lockAge, due, inRange, machine>>

\* factory_reset: every output gets the first control_type, and none is set
\* again; max_turnouts_at_once is 0 until the next start.
FactoryReset ==
    /\ tort' = [x \in Outputs |-> [tort[x] EXCEPT !.control = "driven"]]
    /\ limit' = 0
    /\ UNCHANGED <<lockout, lockAge, due, inRange, machine>>

-----------------------------------------------------------------------------
(***************************************************************************)
(* The pass: check_for_turnout_changes, then check_for_high_voltage.       *)
(***************************************************************************)
Moving == {x \in Outputs : IsMoving(tort[x])}
Needy == {x \in Outputs : NeedsToMove(tort[x])}
Waiting == Needy \ Moving
Free == limit - Cardinality(Moving)

\* One more than the free places.
OneTooMany == {x \in Waiting : Cardinality({y \in Waiting : y < x}) <= Free}

\* The last free place left empty.
OneTooFew == {x \in Waiting : Cardinality({y \in Waiting : y < x}) < Free - 1}

\* Those of Waiting that get a free place, the lowest outputs first.
Chosen == {x \in Waiting : Cardinality({y \in Waiting : y < x}) < Free}

Redirected == Moving \cap Needy

\* The pass goes on while the outputs are disabled.
MovesInLockout == Redirected \cup Chosen

\* The outputs that the pass moves.
Performed == IF lockout THEN {} ELSE Redirected \cup Chosen

TurnoutChanges ==
    [x \in Outputs |-> IF x \in Performed THEN SetPositionForce(tort[x], tort[x].desired)
                       ELSE tort[x]]

\* Compared with the wrong side.
LockNeverExpires == lockAge > LockTicks

LockExpired == lockAge >= LockTicks

CheckVoltage(after) ==
    \/ /\ ~inRange /\ ~lockout
       /\ lockout' = TRUE
       /\ lockAge' = 0
       /\ tort' = [x \in Outputs |-> DisableOutputs(after[x])]
    \/ /\ inRange /\ lockout /\ LockExpired
       /\ lockout' = FALSE
       /\ lockAge' = 0      \* of no meaning until the next lockout
       /\ tort' = [x \in Outputs |-> EnableOutputs(after[x])]
    \/ /\ IF inRange THEN lockout => ~LockExpired ELSE lockout
       /\ tort' = after
       /\ UNCHANGED <<lockout, lockAge>>

Pass ==
    /\ due
    /\ due' = FALSE
    /\ CheckVoltage(TurnoutChanges)
    /\ UNCHANGED <<limit, inRange, machine>>

-----------------------------------------------------------------------------
(***************************************************************************)
(* Time, the supply and the machines.                                      *)
(***************************************************************************)
AtEnd(x) == IF tort[x].out = "normal" THEN 0 ELSE MoveTicks

\* The motor of an output draws the current of a move.
Travelling(x) == tort[x].out # "off" /\ machine[x] # AtEnd(x)

Clock(t) == [t EXCEPT !.moved = IF t.started /\ @ < MoveTicks THEN @ + 1 ELSE @]

Tick ==
    /\ due' = TRUE
    /\ lockAge' = IF lockout /\ lockAge < LockTicks THEN lockAge + 1 ELSE lockAge
    /\ tort' = [x \in Outputs |-> Clock(tort[x])]
    /\ machine' = [x \in Outputs |->
                     IF ~Travelling(x) THEN machine[x]
                     ELSE IF tort[x].out = "normal" THEN machine[x] - 1 ELSE machine[x] + 1]
    /\ UNCHANGED <<limit, lockout, inRange>>

SupplyChanges ==
    /\ inRange' = ~inRange
    /\ UNCHANGED <<tort, limit, lockout, lockAge, due, machine>>

Next ==
    \/ \E S \in Addresses, p \in Position : Command(S, p)
    \/ \E x \in Outputs, c \in Controls : WriteConfig(x, c)
    \/ FactoryReset
    \/ Pass
    \/ Tick
    \/ SupplyChanges

Spec == Init /\ [][Next]_vars

\* Time goes on and the main loop comes round.
FairSpec == Spec /\ WF_vars(Tick) /\ WF_vars(Pass)

-----------------------------------------------------------------------------
(***************************************************************************)
(* Properties.                                                             *)
(***************************************************************************)

\* Every field has a value of its type: no pin is driven towards the unknown
\* position, and no output that has a position is told to go to none.
TypeOK ==
    /\ tort \in [Outputs -> Tortoise]
    /\ limit \in {0, MaxAtOnce}
    /\ lockout \in BOOLEAN
    /\ lockAge \in 0..LockTicks
    /\ due \in BOOLEAN
    /\ inRange \in BOOLEAN
    /\ machine \in [Outputs -> 0..MoveTicks]

\* The node never counts more moves under way than the configuration allows:
\* moves that were paused by the supply and go on together included.
MovingWithinLimit == Cardinality(Moving) <= MaxAtOnce

\* A factory reset makes every output a driven one and leaves its pins, and its
\* move, as another control_type had them.
NoFactoryReset == limit = MaxAtOnce

\* Every output has been moved since it was last configured: neither a factory
\* reset, a write of the configuration nor a lockout before its first move has
\* left it aside.
Undisturbed == NoFactoryReset /\ \A x \in Outputs : Driven(tort[x]) /\ tort[x].started

\* The limit holds for the motors themselves, whatever the supply did to the
\* moves: no more of them draw current than max_turnouts_at_once allows.
CurrentWithinLimit ==
    Undisturbed => Cardinality({x \in Outputs : Travelling(x)}) <= MaxAtOnce

\* Until a factory reset, while the supply is out of range no output is powered,
\* except those that a write of the configuration switches on for good.
OffOutOfRange ==
    NoFactoryReset /\ lockout => \A x \in Outputs : tort[x].control # "alwaysOn" => tort[x].out = "off"

\* Until a factory reset, an output that was moved stays powered towards the
\* position it was moved to, also when the supply came back after it was told to
\* go elsewhere.
HeldAtPosition ==
    NoFactoryReset /\ ~lockout => \A x \in Outputs :
        Driven(tort[x]) /\ tort[x].started => tort[x].out = tort[x].current

\* When the node takes a move for finished, the machine is at the position that
\* the node reports, pauses of the supply and redirections notwithstanding.
ArrivedWhenDone ==
    Undisturbed /\ ~lockout => \A x \in Outputs :
        ~IsMoving(tort[x]) => machine[x] = AtEnd(x)

\* Each of these takes a place of every pass: told to move, it never does, as
\* SetPositionForce leaves the position of an output alone that is disabled or
\* always on.
Idle == {x \in Outputs : ~Driven(tort[x]) /\ NeedsToMove(tort[x])}

\* No output that could move is kept waiting by an empty place: a pass leaves all
\* places taken, by moves or by idle outputs, or none but idle outputs waiting.
PlacesUsed ==
    [][Pass /\ ~lockout =>
          Waiting' \subseteq Idle' \/ Cardinality(Moving' \cup Idle') >= limit]_vars

\* Once the supply is good, the layout quiet, and not all places are taken by
\* idle outputs (a factory reset leaves no place), every driven output gets to
\* where it was last sent.
MovesEventually ==
    (/\ <>[]inRange
     /\ <>[](Cardinality(Idle) < limit)
     /\ <>[][Pass \/ Tick]_vars)
    => \A x \in Outputs : <>[](Driven(tort[x]) => ~NeedsToMove(tort[x]))

(***************************************************************************)
(* The invariant that makes them inductive.                                *)
(***************************************************************************)

\* The moves that go on when the supply is back.
Resuming == {x \in Outputs : tort[x].started /\ tort[x].paused < MoveTicks}

\* In a lockout the limit holds for the moves that it paused; the time of a
\* paused move runs on, so no other move is counted as under way.
LimitKept ==
    IF lockout
      THEN /\ Cardinality(Resuming) <= MaxAtOnce
           /\ \A x \in Outputs : tort[x].started => tort[x].paused <= tort[x].moved
      ELSE Cardinality(Moving) <= MaxAtOnce

\* How far a machine is from a position.
Distance(x, p) == IF p = "normal" THEN machine[x] ELSE MoveTicks - machine[x]

\* A move that was started has a position to go to, is powered unless there is a
\* lockout, and has time enough left to get there.
OnTime ==
    \A x \in Outputs : tort[x].started =>
        /\ tort[x].current \in Position
        /\ NoFactoryReset /\ Driven(tort[x]) =>
             IF lockout
               THEN /\ tort[x].out = "off"
                    /\ Distance(x, tort[x].current) <= MoveTicks - tort[x].paused
               ELSE /\ tort[x].out = tort[x].current
                    /\ Distance(x, tort[x].current) <= MoveTicks - tort[x].moved

MovesInv == TypeOK /\ LimitKept /\ OffOutOfRange /\ OnTime

(***************************************************************************)
(* What the sources say and the code does not do.                          *)
(***************************************************************************)

\* "the number of turnouts that can change at once should be limited in order
\* to not overdraw current" (cdi.xml).
NeverOverdrawn == Cardinality({x \in Outputs : Travelling(x)}) <= MaxAtOnce

\* "does this turnout need to change? if so, change it!" (main.c).
EveryoneMoves ==
    ([]NoFactoryReset /\ <>[]inRange /\ <>[][Pass \/ Tick]_vars)
    => \A x \in Outputs : <>[](Driven(tort[x]) => ~NeedsToMove(tort[x]))
===============================================================================
