-------------------------- MODULE TortoiseMovesProofs --------------------------
(***************************************************************************)
(* What holds of TortoiseMoves for every number of outputs, every limit    *)
(* and every length of moves and lockouts.                                 *)
(***************************************************************************)
EXTENDS TortoiseMoves, Functions, FiniteSetTheorems, TLAPS

-------------------------------------------------------------------------------
(* The functions of tortoise.c. *)

\* Setting an output to a position keeps its type, and its control_type.
LEMMA ForceType ==
    ASSUME NEW t \in Tortoise, NEW p \in Position \cup {Unknown},
           p = t.current \/ (p \in Position /\ t.desired \in Position)
    PROVE  SetPositionForce(t, p) \in Tortoise /\ SetPositionForce(t, p).control = t.control
<1> USE DEF Tortoise, Position, Unknown, Control
<1>1. CASE ~Driven(t) \/ t.current = p
  BY <1>1 DEF SetPositionForce, Driven
<1>2. CASE Driven(t) /\ t.current # p
  <2>1. SetPositionForce(t, p) =
          [t EXCEPT !.out = p, !.current = p, !.started = TRUE, !.moved = 0, !.paused = 0]
    BY <1>2 DEF SetPositionForce, Driven
  <2>2. p \in Position /\ t.desired \in Position /\ 0 \in 0 .. MoveTicks
    BY <1>2, TortoiseAssumption DEF TortoiseAssumption
  <2> QED
    BY <2>1, <2>2
<1> QED
  BY <1>1, <1>2

\* A driven output that is told to move starts a move of its full length.
LEMMA ForceStarts ==
    ASSUME NEW t \in Tortoise, NEW p \in Position, t.current # p, Driven(t)
    PROVE  /\ SetPositionForce(t, p).started /\ SetPositionForce(t, p).moved = 0
           /\ SetPositionForce(t, p).current = p /\ SetPositionForce(t, p).out = p
  BY DEF SetPositionForce, Tortoise, Driven, Position, Control

\* No other output starts or ends a move.
LEMMA ForceIdle ==
    ASSUME NEW t \in Tortoise, NEW p, ~Driven(t)
    PROVE  /\ SetPositionForce(t, p).started = t.started
           /\ SetPositionForce(t, p).current = t.current
           /\ SetPositionForce(t, p).moved = t.moved
           /\ SetPositionForce(t, p).paused = t.paused
           /\ t.control # "alwaysOn" => SetPositionForce(t, p).out = "off"
  BY DEF SetPositionForce, Tortoise, Driven, Control

\* A configuration write ends the move of every driven output.
LEMMA CheckEnds ==
    ASSUME NEW t \in Tortoise, Driven(t)
    PROVE  ~CheckSetPosition(t).started /\ CheckSetPosition(t).out = "off"
  BY DEF CheckSetPosition, SetPositionForce, Tortoise, Driven, Control

\* The supply goes: every output is off, every move pauses where it is.
LEMMA DisableFacts ==
    ASSUME NEW t \in Tortoise
    PROVE  /\ DisableOutputs(t) \in Tortoise
           /\ DisableOutputs(t).control = t.control
           /\ DisableOutputs(t).current = t.current
           /\ DisableOutputs(t).started = t.started
           /\ DisableOutputs(t).out = "off"
           /\ DisableOutputs(t).moved = t.moved
           /\ t.started => DisableOutputs(t).paused = t.moved
  BY DEF DisableOutputs, Tortoise

\* A resumed move has the time that the pause kept for it.
LEMMA ResumeFacts ==
    ASSUME NEW t \in Tortoise
    PROVE  /\ ResumeMove(t) \in Tortoise
           /\ ResumeMove(t).control = t.control /\ ResumeMove(t).current = t.current
           /\ ResumeMove(t).started = t.started /\ ResumeMove(t).out = t.out
           /\ t.started => ResumeMove(t).moved = t.paused
<1>1. 0 \in 0 .. MoveTicks
  BY TortoiseAssumption DEF TortoiseAssumption
<1>2. CASE t.started
  BY <1>1, <1>2 DEF ResumeMove, Tortoise
<1>3. CASE ~t.started
  BY <1>1, <1>3 DEF ResumeMove, Tortoise
<1> QED
  BY <1>2, <1>3

\* The supply is back: every move goes on with the time it had.
LEMMA EnableFacts ==
    ASSUME NEW t \in Tortoise
    PROVE  /\ EnableOutputs(t) \in Tortoise
           /\ EnableOutputs(t).control = t.control
           /\ EnableOutputs(t).current = t.current
           /\ EnableOutputs(t).started = t.started
           /\ t.started => EnableOutputs(t).moved = t.paused
           /\ t.current \in Position => EnableOutputs(t).out = t.current
<1> DEFINE powered == [t EXCEPT !.out = EnabledPosition(t)]
<1>1. /\ powered \in Tortoise
      /\ powered.control = t.control /\ powered.current = t.current
      /\ powered.started = t.started /\ powered.paused = t.paused
      /\ t.current \in Position => powered.out = t.current
  BY DEF EnabledPosition, Tortoise, Position, Unknown
<1> QED
  BY <1>1, ResumeFacts DEF EnableOutputs

\* Time passes for the moves that are under way, and for nothing else.
LEMMA ClockFacts ==
    ASSUME NEW t \in Tortoise
    PROVE  /\ Clock(t) \in Tortoise
           /\ Clock(t).control = t.control /\ Clock(t).current = t.current
           /\ Clock(t).started = t.started /\ Clock(t).paused = t.paused
           /\ Clock(t).out = t.out
           /\ Clock(t).moved >= t.moved /\ Clock(t).moved <= t.moved + 1
  BY TortoiseAssumption DEF TortoiseAssumption, Clock, Tortoise

-------------------------------------------------------------------------------
(* The places of a pass. *)

\* The sets of outputs are finite, and the number of their members is a number.
LEMMA OutputsFinite ==
    ASSUME NEW S \in SUBSET Outputs
    PROVE  IsFiniteSet(S) /\ Cardinality(S) \in Nat
<1>1. IsFiniteSet(Outputs)
  BY FS_Interval, TortoiseAssumption DEF TortoiseAssumption, Outputs
<1>2. IsFiniteSet(S)
  BY <1>1, FS_Subset
<1> QED
  BY <1>2, FS_CardinalityType

\* The rank of the members of a set of outputs, the number of those below them,
\* counts them through.
LEMMA Ranks ==
    ASSUME NEW W \in SUBSET Outputs
    PROVE  LET rank == [x \in W |-> Cardinality({y \in W : y < x})]
           IN  /\ rank \in Bijection(W, 0 .. Cardinality(W) - 1)
               /\ \A x \in W : rank[x] \in Nat /\ rank[x] < Cardinality(W)
<1> DEFINE Below(x) == {y \in W : y < x}
           rank == [x \in W |-> Cardinality(Below(x))]
           n == Cardinality(W)
<1>0. W \subseteq Int /\ IsFiniteSet(W) /\ n \in Nat
  BY OutputsFinite DEF Outputs
<1>1. \A x \in W : Below(x) \in SUBSET W /\ x \notin Below(x)
  <2> TAKE x \in W
  <2>1. ~(x < x)
    BY <1>0
  <2> QED
    BY <2>1
<1>2. \A x \in W : rank[x] \in Nat /\ rank[x] < n
  <2> TAKE x \in W
  <2>1. /\ IsFiniteSet(Below(x)) /\ Cardinality(Below(x)) \in Nat
        /\ Cardinality(Below(x)) <= n
        /\ Cardinality(Below(x)) # n
    BY <1>0, <1>1, FS_Subset, FS_CardinalityType
  <2> HIDE DEF n, Below
  <2> QED
    BY <1>0, <2>1
<1>3. \A x, z \in W : x < z => rank[x] # rank[z]
  <2> SUFFICES ASSUME NEW x \in W, NEW z \in W, x < z PROVE rank[x] # rank[z]
    OBVIOUS
  <2>1. x \in Int /\ z \in Int
    BY <1>0
  <2>2. Below(x) \in SUBSET Below(z) /\ x \in Below(z) /\ x \notin Below(x)
    <3>1. ASSUME NEW y \in W, y < x PROVE y < z
      BY <1>0, <2>1, <3>1
    <3> QED
      BY <1>1, <3>1, Zenon
  <2>3. IsFiniteSet(Below(z))
    BY <1>0, <1>1, FS_Subset
  <2>4. Cardinality(Below(x)) # Cardinality(Below(z))
    BY <2>2, <2>3, FS_Subset
  <2> QED
    BY <2>4
<1>4. \A x, z \in W : rank[x] = rank[z] => x = z
  <2>2. \A x, z \in Int : x < z \/ z < x \/ x = z
    OBVIOUS
  <2> HIDE DEF rank
  <2> QED
    BY <1>0, <1>3, <2>2
<1>5. rank \in Injection(W, 0 .. n - 1)
  <2>1. rank \in [W -> 0 .. n - 1]
    <3>1. \A x \in W : rank[x] \in 0 .. n - 1
      <4> HIDE DEF n, rank
      <4> QED
        BY <1>0, <1>2
    <3> QED
      BY <3>1
  <2> HIDE DEF rank
  <2> QED
    BY <1>4, <2>1 DEF Injection, IsInjective
<1>6. IsFiniteSet(0 .. n - 1) /\ Cardinality(0 .. n - 1) = n
  <2> HIDE DEF n
  <2> QED
    BY <1>0, FS_Interval
<1>7. rank \in Surjection(W, 0 .. n - 1)
  <2> HIDE DEF rank
  <2> QED
    BY <1>5, <1>6, FS_Injection
<1>8. rank \in Bijection(W, 0 .. n - 1)
  BY <1>5, <1>7 DEF Bijection
<1> QED
  BY <1>2, <1>8

\* The members of a set of outputs that have fewer than k below them in the set
\* are no more than k, and as many if there are so many.
LEMMA LowestFew ==
    ASSUME NEW W \in SUBSET Outputs, NEW k \in Nat
    PROVE  LET C == {x \in W : Cardinality({y \in W : y < x}) < k}
           IN  /\ Cardinality(C) <= k
               /\ IF k <= Cardinality(W) THEN Cardinality(C) = k ELSE C = W
<1> DEFINE rank == [x \in W |-> Cardinality({y \in W : y < x})]
           n == Cardinality(W)
           C == {x \in W : Cardinality({y \in W : y < x}) < k}
           part == [x \in C |-> rank[x]]
<1>0. n \in Nat /\ C \in SUBSET W /\ C \in SUBSET Outputs
  BY OutputsFinite
<1>1. \A x \in W : rank[x] \in Nat /\ rank[x] < n
  BY Ranks
<1>2. rank \in Bijection(W, 0 .. n - 1)
  BY Ranks
<1>3. \A x \in W : x \in C <=> rank[x] < k
  OBVIOUS
<1>4. IsFiniteSet(C) /\ Cardinality(C) \in Nat
  BY <1>0, OutputsFinite
<1>5. IsFiniteSet(0 .. k - 1) /\ Cardinality(0 .. k - 1) = k
  BY FS_Interval
<1> HIDE DEF rank, n, C
<1>6. part \in Injection(C, 0 .. k - 1)
  <2>1. part \in [C -> 0 .. k - 1]
    BY <1>0, <1>1, <1>3
  <2>2. \A x, z \in C : part[x] = part[z] => x = z
    BY <1>0, <1>2 DEF Bijection, Injection, IsInjective
  <2> QED
    BY <2>1, <2>2 DEF Injection, IsInjective
<1>7. Cardinality(C) <= k
  BY <1>5, <1>6, FS_Injection
<1>8. CASE k <= n
  <2>1. ASSUME NEW r \in 0 .. k - 1 PROVE \E x \in C : part[x] = r
    <3>1. r \in 0 .. n - 1 /\ r < k
      BY <1>0, <1>8
    <3>2. PICK x \in W : rank[x] = r
      BY <1>2, <3>1 DEF Bijection, Surjection
    <3> QED
      BY <1>3, <3>1, <3>2
  <2>2. part \in Surjection(C, 0 .. k - 1)
    BY <1>6, <2>1 DEF Surjection, Injection
  <2>3. k <= Cardinality(C)
    BY <1>4, <1>5, <2>2, FS_Surjection
  <2>4. Cardinality(C) = k
    BY <1>4, <1>7, <2>3
  <2> QED
    BY <1>7, <1>8, <2>4 DEF C, n
<1>9. CASE ~(k <= n)
  <2>1. \A x \in W : x \in C
    BY <1>0, <1>1, <1>3, <1>9
  <2>2. C = W
    BY <1>0, <2>1
  <2> QED
    BY <1>7, <1>9, <2>2 DEF C, n
<1> QED
  BY <1>8, <1>9

-------------------------------------------------------------------------------
(* Type correctness. *)

\* The start of the node is well typed.
LEMMA InitType == Init => TypeOK
<1> SUFFICES ASSUME Init PROVE TypeOK
  OBVIOUS
<1>1. tort \in [Outputs -> Tortoise]
  <2> DEFINE Start == [control : Controls, current : {Unknown}, desired : StartupPosition,
                       out : {"off"}, started : {FALSE}, moved : {0}, paused : {0}]
  <2>1. 0 \in 0 .. MoveTicks /\ Controls \subseteq Control
    BY TortoiseAssumption DEF TortoiseAssumption
  <2>2. ASSUME NEW t \in Start PROVE t \in Tortoise
    BY <2>1, <2>2 DEF Tortoise, StartupPosition
  <2>3. BlankStart \in Tortoise
    BY <2>1 DEF BlankStart, Tortoise, Control
  <2>4. CASE tort \in [Outputs -> Start]
    BY <2>2, <2>4
  <2>5. CASE tort = [x \in Outputs |-> BlankStart]
    BY <2>3, <2>5
  <2> QED
    BY <2>4, <2>5 DEF Init
<1>2. 0 \in 0 .. LockTicks /\ {0, MoveTicks} \subseteq 0 .. MoveTicks
  BY TortoiseAssumption DEF TortoiseAssumption
<1> QED
  BY <1>1, <1>2 DEF Init, TypeOK

\* A write of the configuration, before the outputs are set again.
LEMMA WriteType ==
    ASSUME NEW t \in Tortoise, NEW c \in Controls
    PROVE  /\ [t EXCEPT !.control = c] \in Tortoise
           /\ CheckSetPosition(t) \in Tortoise
           /\ CheckSetPosition(t).control = t.control
<1>1. [t EXCEPT !.control = c] \in Tortoise
  BY TortoiseAssumption DEF TortoiseAssumption, Tortoise
<1>2. t.current \in Position \cup {Unknown}
  BY DEF Tortoise
<1> QED
  BY <1>1, <1>2, ForceType DEF CheckSetPosition

\* The outputs that a pass moves have a position to go to.
LEMMA PerformedGoSomewhere ==
    ASSUME TypeOK, NEW x \in Performed
    PROVE  /\ x \in Outputs /\ tort[x] \in Tortoise
           /\ tort[x].desired \in Position /\ tort[x].current # tort[x].desired
<1>1. x \in Outputs /\ NeedsToMove(tort[x])
  BY DEF Performed, Redirected, Chosen, Waiting, Needy
<1>2. tort[x] \in Tortoise
  BY <1>1 DEF TypeOK
<1> QED
  BY <1>1, <1>2 DEF NeedsToMove, Tortoise

\* The first half of a pass.
LEMMA TurnoutType ==
    ASSUME TypeOK
    PROVE  /\ TurnoutChanges \in [Outputs -> Tortoise]
           /\ \A x \in Outputs : TurnoutChanges[x].control = tort[x].control
<1> SUFFICES ASSUME NEW x \in Outputs
             PROVE  /\ TurnoutChanges[x] \in Tortoise
                    /\ TurnoutChanges[x].control = tort[x].control
  BY DEF TurnoutChanges
<1>1. tort[x] \in Tortoise
  BY DEF TypeOK
<1>2. CASE x \in Performed
  BY <1>1, <1>2, PerformedGoSomewhere, ForceType DEF TurnoutChanges
<1>3. CASE x \notin Performed
  BY <1>1, <1>3 DEF TurnoutChanges
<1> QED
  BY <1>2, <1>3

\* Every step keeps the types.
LEMMA NextType == TypeOK /\ [Next]_vars => TypeOK'
<1> SUFFICES ASSUME TypeOK, [Next]_vars PROVE TypeOK'
  OBVIOUS
<1> USE DEF TypeOK
<1>1. ASSUME NEW S \in Addresses, NEW p \in Position, Command(S, p) PROVE TypeOK'
  <2>1. \A t \in Tortoise : [t EXCEPT !.desired = p] \in Tortoise
    BY DEF Tortoise, Position, Unknown
  <2> QED
    BY <1>1, <2>1 DEF Command
<1>2. ASSUME NEW x \in Outputs, NEW c \in Controls, WriteConfig(x, c) PROVE TypeOK'
  BY <1>2, WriteType DEF WriteConfig
<1>3. CASE Pass
  <2>1. 0 \in 0 .. LockTicks
    BY TortoiseAssumption DEF TortoiseAssumption
  <2>2. tort' \in [Outputs -> Tortoise]
    BY <1>3, TurnoutType, DisableFacts, EnableFacts DEF Pass, CheckVoltage
  <2> QED
    BY <1>3, <2>1, <2>2 DEF Pass, CheckVoltage
<1>4. CASE Tick
  <2>1. tort' \in [Outputs -> Tortoise]
    BY <1>4, ClockFacts DEF Tick
  <2>2. lockAge' \in 0 .. LockTicks
    BY <1>4, TortoiseAssumption DEF Tick, TortoiseAssumption
  <2>3. ASSUME NEW x \in Outputs PROVE machine'[x] \in 0 .. MoveTicks
    BY <1>4, TortoiseAssumption DEF Tick, Travelling, AtEnd, TortoiseAssumption
  <2> QED
    BY <1>4, <2>1, <2>2, <2>3 DEF Tick
<1>5. CASE SupplyChanges
  BY <1>5 DEF SupplyChanges
<1>6. CASE FactoryReset
  <2>1. \A t \in Tortoise : [t EXCEPT !.control = "driven"] \in Tortoise
    BY DEF Tortoise, Control
  <2> QED
    BY <1>6, <2>1 DEF FactoryReset
<1>7. CASE UNCHANGED vars
  BY <1>7 DEF vars
<1> QED
  BY <1>1, <1>2, <1>3, <1>4, <1>5, <1>6, <1>7 DEF Next

\* Every reachable state is well typed, from a start with a configuration and
\* from that of a blank chip; in particular no pin is ever driven towards the
\* unknown position, and no output that has a position is told to go to none.
THEOREM MovesTypeCorrect == Spec => []TypeOK
  BY InitType, NextType, PTL DEF Spec

-------------------------------------------------------------------------------
(* The limit. *)

\* A part of a set of outputs has no more members.
LEMMA PartIsNoLarger ==
    ASSUME NEW T \in SUBSET Outputs, NEW S \in SUBSET T
    PROVE  Cardinality(S) <= Cardinality(T)
  BY OutputsFinite, FS_Subset

\* The moves that a pass starts fit in the places that are free.
LEMMA ChosenFit ==
    ASSUME TypeOK, Cardinality(Moving) <= MaxAtOnce
    PROVE  Cardinality(Moving \cup Chosen) <= MaxAtOnce
<1>1. Moving \in SUBSET Outputs /\ Waiting \in SUBSET Outputs /\ Chosen \in SUBSET Outputs
  BY DEF Moving, Waiting, Needy, Chosen
<1>2. /\ Cardinality(Moving) \in Nat /\ Cardinality(Moving \cap Chosen) \in Nat
      /\ Cardinality(Chosen) \in Nat /\ limit \in Nat /\ limit <= MaxAtOnce /\ MaxAtOnce \in Nat
  BY <1>1, OutputsFinite, TortoiseAssumption DEF TypeOK, TortoiseAssumption
<1>3. CASE limit < Cardinality(Moving)
  <2>1. \A x \in Waiting : ~(Cardinality({y \in Waiting : y < x}) < Free)
    <3> TAKE x \in Waiting
    <3>1. Cardinality({y \in Waiting : y < x}) \in Nat
      BY <1>1, OutputsFinite
    <3> QED
      BY <1>2, <1>3, <3>1 DEF Free
  <2>2. Moving \cup Chosen = Moving
    BY <2>1 DEF Chosen
  <2> QED
    BY <2>2
<1>4. CASE ~(limit < Cardinality(Moving))
  <2>1. Free \in Nat
    BY <1>2, <1>4 DEF Free
  <2>2. Cardinality(Chosen) <= Free
    BY <1>1, <2>1, LowestFew DEF Chosen
  <2>3. IsFiniteSet(Moving) /\ IsFiniteSet(Chosen)
    BY <1>1, OutputsFinite
  <2>4. Cardinality(Moving \cup Chosen)
          = Cardinality(Moving) + Cardinality(Chosen) - Cardinality(Moving \cap Chosen)
    BY <2>3, FS_Union
  <2> QED
    BY <1>2, <2>2, <2>4 DEF Free
<1> QED
  BY <1>3, <1>4

\* Outside a lockout, only those move after the changes of a pass that moved
\* before, and those that got a free place.
LEMMA ChangesWithinLimit ==
    ASSUME TypeOK, Cardinality(Moving) <= MaxAtOnce
    PROVE  Cardinality({x \in Outputs : IsMoving(TurnoutChanges[x])}) <= MaxAtOnce
<1> DEFINE After == {x \in Outputs : IsMoving(TurnoutChanges[x])}
<1>1. After \subseteq Moving \cup Chosen
  BY DEF TurnoutChanges, Performed, Redirected, Moving
<1>2. Moving \cup Chosen \in SUBSET Outputs
  BY DEF Moving, Waiting, Needy, Chosen
<1>3. Cardinality(Moving \cup Chosen) <= MaxAtOnce
  BY ChosenFit
<1>4. Cardinality(After) <= Cardinality(Moving \cup Chosen)
  BY <1>1, <1>2, PartIsNoLarger
<1>5. Cardinality(After) \in Nat /\ Cardinality(Moving \cup Chosen) \in Nat
  BY <1>2, OutputsFinite
<1> QED
  BY <1>3, <1>4, <1>5, TortoiseAssumption DEF TortoiseAssumption

\* A step that starts no move and turns no time back keeps the limit.
LEMMA NoNewMoves ==
    ASSUME TypeOK, TypeOK', LimitKept, lockout' = lockout,
           \A x \in Outputs : tort'[x].started =>
               /\ tort[x].started
               /\ tort'[x].moved >= tort[x].moved /\ tort'[x].paused = tort[x].paused
    PROVE  LimitKept'
<1>1. \A x \in Outputs : /\ tort[x].moved \in Int /\ tort[x].paused \in Int
                         /\ tort'[x].moved \in Int /\ tort'[x].paused \in Int
  BY DEF TypeOK, Tortoise
<1>2. MaxAtOnce \in Int /\ MoveTicks \in Int
  BY TortoiseAssumption DEF TortoiseAssumption
<1>3. CASE lockout
  <2>1. Resuming \in SUBSET Outputs /\ Resuming' \in SUBSET Resuming
    BY DEF Resuming
  <2>2. Cardinality(Resuming') <= Cardinality(Resuming)
    BY <2>1, PartIsNoLarger
  <2>3. Cardinality(Resuming') \in Int /\ Cardinality(Resuming) \in Int
    BY <2>1, OutputsFinite
  <2>4. Cardinality(Resuming') <= MaxAtOnce
    BY <1>2, <1>3, <2>2, <2>3 DEF LimitKept
  <2>5. ASSUME NEW x \in Outputs, tort'[x].started PROVE tort'[x].paused <= tort'[x].moved
    BY <1>1, <1>3, <2>5 DEF LimitKept
  <2> QED
    BY <1>3, <2>4, <2>5 DEF LimitKept
<1>4. CASE ~lockout
  <2>1. Moving \in SUBSET Outputs /\ Moving' \in SUBSET Moving
    BY <1>1, <1>2 DEF Moving, IsMoving
  <2>2. Cardinality(Moving') <= Cardinality(Moving)
    BY <2>1, PartIsNoLarger
  <2>3. Cardinality(Moving') \in Int /\ Cardinality(Moving) \in Int
    BY <2>1, OutputsFinite
  <2> QED
    BY <1>2, <1>4, <2>2, <2>3 DEF LimitKept
<1> QED
  BY <1>3, <1>4

\* A write of the configuration starts no move: the driven outputs lose theirs.
LEMMA WriteStartsNothing ==
    ASSUME TypeOK, NEW y \in Outputs, NEW c \in Controls, WriteConfig(y, c),
           NEW x \in Outputs, tort'[x].started
    PROVE  /\ ~Driven(tort'[x])
           /\ tort[x].started
           /\ tort'[x].moved = tort[x].moved /\ tort'[x].paused = tort[x].paused
           /\ tort'[x].current = tort[x].current
<1> DEFINE t == IF x = y THEN [tort[x] EXCEPT !.control = c] ELSE tort[x]
<1>1. tort[x] \in Tortoise
  BY DEF TypeOK
<1>2. /\ t \in Tortoise
      /\ t.started = tort[x].started /\ t.moved = tort[x].moved
      /\ t.paused = tort[x].paused /\ t.current = tort[x].current
  <2>1. CASE x = y
    BY <1>1, <2>1, WriteType DEF Tortoise
  <2>2. CASE x # y
    BY <1>1, <2>2
  <2> QED
    BY <2>1, <2>2
<1>3. tort'[x] = CheckSetPosition(t)
  BY DEF WriteConfig
<1> HIDE DEF t
<1>4. ~Driven(t)
  BY <1>2, <1>3, CheckEnds
<1>5. tort'[x].control = t.control
  BY <1>2, <1>3, ForceType DEF CheckSetPosition, Tortoise
<1> QED
  BY <1>2, <1>3, <1>4, <1>5, ForceIdle DEF CheckSetPosition, Driven

\* Every step keeps the limit.
LEMMA NextLimit == TypeOK /\ LimitKept /\ [Next]_vars => LimitKept'
<1> SUFFICES ASSUME TypeOK, LimitKept, [Next]_vars PROVE LimitKept'
  OBVIOUS
<1>0. TypeOK'
  BY NextType
<1>t. /\ \A x \in Outputs : tort[x] \in Tortoise
      /\ \A x \in Outputs : tort[x].moved \in Int /\ tort[x].paused \in Int
  BY DEF TypeOK, Tortoise
<1>1. ASSUME NEW S \in Addresses, NEW p \in Position, Command(S, p) PROVE LimitKept'
  <2>1. ASSUME NEW x \in Outputs
        PROVE  /\ tort'[x].started = tort[x].started
               /\ tort'[x].moved = tort[x].moved /\ tort'[x].paused = tort[x].paused
    BY <1>1, <1>t DEF Command, Tortoise
  <2>2. lockout' = lockout
    BY <1>1 DEF Command
  <2> QED
    BY <1>0, <1>t, <2>1, <2>2, NoNewMoves
<1>2. ASSUME NEW y \in Outputs, NEW c \in Controls, WriteConfig(y, c) PROVE LimitKept'
  <2>1. lockout' = lockout
    BY <1>2 DEF WriteConfig
  <2>2. ASSUME NEW x \in Outputs, tort'[x].started
        PROVE  /\ tort[x].started
               /\ tort'[x].moved >= tort[x].moved /\ tort'[x].paused = tort[x].paused
    BY <1>2, <1>t, <2>2, WriteStartsNothing
  <2> QED
    BY <1>0, <2>1, <2>2, NoNewMoves
<1>3. CASE Pass
  <2> DEFINE After == {x \in Outputs : IsMoving(TurnoutChanges[x])}
  <2>1. TurnoutChanges \in [Outputs -> Tortoise]
    BY TurnoutType
  <2>2. lockout => TurnoutChanges = tort
    BY DEF TurnoutChanges, Performed, TypeOK
  <2>3. ~lockout => Cardinality(After) <= MaxAtOnce
    BY ChangesWithinLimit DEF LimitKept
  <2>4. CASE ~lockout /\ lockout' /\ tort' = [x \in Outputs |-> DisableOutputs(TurnoutChanges[x])]
    <3>1. \A x \in Outputs : tort'[x].started =>
            /\ TurnoutChanges[x].started
            /\ tort'[x].paused = TurnoutChanges[x].moved
            /\ tort'[x].moved = TurnoutChanges[x].moved
      BY <2>1, <2>4, DisableFacts
    <3>2. Resuming' = After
      BY <2>1, <2>4, <3>1, DisableFacts DEF Resuming, IsMoving
    <3>3. \A x \in Outputs : TurnoutChanges[x].moved \in Int
      BY <2>1 DEF Tortoise
    <3>4. \A x \in Outputs : tort'[x].started => tort'[x].paused <= tort'[x].moved
      BY <3>1, <3>3
    <3> QED
      BY <2>3, <2>4, <3>2, <3>4 DEF LimitKept
  <2>5. CASE lockout /\ ~lockout' /\ tort' = [x \in Outputs |-> EnableOutputs(TurnoutChanges[x])]
    <3>1. Moving' = Resuming
      BY <1>t, <2>2, <2>5, EnableFacts DEF Moving, Resuming, IsMoving
    <3> QED
      BY <2>5, <3>1 DEF LimitKept
  <2>6. CASE lockout' = lockout /\ tort' = TurnoutChanges
    <3>1. CASE lockout
      <4>1. \A x \in Outputs : tort'[x] = tort[x]
        BY <2>2, <2>6, <3>1
      <4> QED
        BY <1>0, <1>t, <2>6, <4>1, NoNewMoves
    <3>2. CASE ~lockout
      <4>1. Moving' = After
        BY <2>6 DEF Moving
      <4> QED
        BY <2>3, <2>6, <3>2, <4>1 DEF LimitKept
    <3> QED
      BY <3>1, <3>2
  <2> QED
    BY <1>3, <2>4, <2>5, <2>6 DEF Pass, CheckVoltage
<1>4. CASE Tick
  <2>1. ASSUME NEW x \in Outputs
        PROVE  /\ tort'[x].started = tort[x].started
               /\ tort'[x].moved >= tort[x].moved /\ tort'[x].paused = tort[x].paused
    BY <1>4, <1>t, ClockFacts DEF Tick
  <2>2. lockout' = lockout
    BY <1>4 DEF Tick
  <2> QED
    BY <1>0, <2>1, <2>2, NoNewMoves
<1>5. CASE SupplyChanges \/ UNCHANGED vars
  <2>1. tort' = tort /\ lockout' = lockout
    BY <1>5 DEF SupplyChanges, vars
  <2> QED
    BY <1>0, <1>t, <2>1, NoNewMoves
<1>6. CASE FactoryReset
  <2>1. ASSUME NEW x \in Outputs
        PROVE  /\ tort'[x].started = tort[x].started
               /\ tort'[x].moved = tort[x].moved /\ tort'[x].paused = tort[x].paused
    BY <1>6, <1>t DEF FactoryReset, Tortoise
  <2>2. lockout' = lockout
    BY <1>6 DEF FactoryReset
  <2> QED
    BY <1>0, <1>t, <2>1, <2>2, NoNewMoves
<1> QED
  BY <1>1, <1>2, <1>3, <1>4, <1>5, <1>6 DEF Next

-------------------------------------------------------------------------------
(* The supply. *)

\* What was reset to the factory settings stays so: no step after a factory reset
\* gives the places back.
LEMMA ResetIsFinal ==
    ASSUME [Next]_vars, NoFactoryReset'
    PROVE  NoFactoryReset /\ ~FactoryReset
<1>1. limit' = MaxAtOnce /\ MaxAtOnce # 0
  BY TortoiseAssumption DEF TortoiseAssumption, NoFactoryReset
<1>2. ~FactoryReset
  BY <1>1 DEF FactoryReset
<1> QED
  BY <1>1, <1>2 DEF NoFactoryReset, Next, Command, WriteConfig, Pass, Tick, SupplyChanges, vars

\* In a lockout a step powers only what is always on.
LEMMA NextOff == TypeOK /\ OffOutOfRange /\ [Next]_vars => OffOutOfRange'
<1> SUFFICES ASSUME TypeOK, OffOutOfRange, [Next]_vars, NoFactoryReset', lockout',
                    NEW x \in Outputs, tort'[x].control # "alwaysOn"
             PROVE  tort'[x].out = "off"
  BY DEF OffOutOfRange
<1>t. tort[x] \in Tortoise
  BY DEF TypeOK
<1>r. NoFactoryReset /\ ~FactoryReset
  BY ResetIsFinal
<1>1. ASSUME NEW S \in Addresses, NEW p \in Position, Command(S, p) PROVE tort'[x].out = "off"
  BY <1>1, <1>r, <1>t DEF Command, OffOutOfRange, Tortoise
<1>2. ASSUME NEW y \in Outputs, NEW c \in Controls, WriteConfig(y, c) PROVE tort'[x].out = "off"
  <2> DEFINE t == IF x = y THEN [tort[x] EXCEPT !.control = c] ELSE tort[x]
  <2>1. t \in Tortoise
    BY <1>t, WriteType
  <2>2. tort'[x] = CheckSetPosition(t)
    BY <1>2 DEF WriteConfig
  <2> HIDE DEF t
  <2>3. t.control # "alwaysOn"
    BY <2>1, <2>2, WriteType, ForceType DEF CheckSetPosition, Tortoise
  <2> QED
    BY <2>1, <2>2, <2>3, CheckEnds, ForceIdle DEF CheckSetPosition
<1>3. CASE Pass
  <2>1. TurnoutChanges \in [Outputs -> Tortoise]
    BY TurnoutType
  <2>2. lockout => TurnoutChanges = tort
    BY DEF TurnoutChanges, Performed, TypeOK
  <2>3. CASE lockout /\ tort' = TurnoutChanges
    BY <1>r, <2>2, <2>3 DEF OffOutOfRange
  <2>4. CASE tort' = [z \in Outputs |-> DisableOutputs(TurnoutChanges[z])]
    BY <2>1, <2>4, DisableFacts
  <2> QED
    BY <1>3, <2>3, <2>4 DEF Pass, CheckVoltage
<1>4. CASE Tick
  BY <1>4, <1>r, <1>t, ClockFacts DEF Tick, OffOutOfRange
<1>5. CASE SupplyChanges \/ UNCHANGED vars
  BY <1>5, <1>r DEF SupplyChanges, vars, OffOutOfRange
<1> QED
  BY <1>1, <1>2, <1>3, <1>4, <1>5, <1>r DEF Next

-------------------------------------------------------------------------------
(* Where the machines are. *)

\* A machine is between its ends, so a distance is no more than a whole move.
LEMMA DistanceRange ==
    ASSUME TypeOK, NEW x \in Outputs, NEW p
    PROVE  Distance(x, p) \in 0 .. MoveTicks
  BY TortoiseAssumption DEF TortoiseAssumption, TypeOK, Distance

\* Outside a lockout the changes of a pass leave every move time enough: a move
\* that starts has its whole time, and no machine has further to go.
LEMMA ChangesOnTime ==
    ASSUME TypeOK, OnTime, ~lockout, NEW x \in Outputs, TurnoutChanges[x].started
    PROVE  /\ TurnoutChanges[x].current \in Position
           /\ NoFactoryReset /\ Driven(TurnoutChanges[x]) =>
                /\ TurnoutChanges[x].out = TurnoutChanges[x].current
                /\ Distance(x, TurnoutChanges[x].current) <= MoveTicks - TurnoutChanges[x].moved
<1>1. /\ tort[x] \in Tortoise
      /\ x \in Performed => tort[x].desired \in Position /\ tort[x].current # tort[x].desired
  BY PerformedGoSomewhere DEF TypeOK
<1>2. CASE x \notin Performed
  BY <1>2 DEF TurnoutChanges, OnTime
<1>3. CASE x \in Performed /\ ~Driven(tort[x])
  <2>1. TurnoutChanges[x] = SetPositionForce(tort[x], tort[x].desired)
    BY <1>3 DEF TurnoutChanges
  <2>2. ~Driven(TurnoutChanges[x])
    BY <1>3, TurnoutType DEF Driven
  <2> QED
    BY <1>1, <1>3, <2>1, <2>2, ForceIdle DEF OnTime
<1>4. CASE x \in Performed /\ Driven(tort[x])
  <2>1. TurnoutChanges[x] = SetPositionForce(tort[x], tort[x].desired)
    BY <1>4 DEF TurnoutChanges
  <2>2. tort[x].desired \in Position /\ tort[x].current # tort[x].desired
    BY <1>1, <1>4
  <2>3. /\ TurnoutChanges[x].current = tort[x].desired
        /\ TurnoutChanges[x].out = tort[x].desired /\ TurnoutChanges[x].moved = 0
    BY <1>1, <1>4, <2>1, <2>2, ForceStarts
  <2>4. Distance(x, tort[x].desired) \in 0 .. MoveTicks /\ MoveTicks \in Nat
    BY DistanceRange, TortoiseAssumption DEF TortoiseAssumption
  <2>5. Distance(x, tort[x].desired) <= MoveTicks - 0
    BY <2>4
  <2> QED
    BY <2>2, <2>3, <2>5
<1> QED
  BY <1>2, <1>3, <1>4

\* A tick of a powered, driven output brings its machine nearer by as much as it
\* takes of its time.
LEMMA TickOnTime ==
    ASSUME TypeOK, ~lockout, NoFactoryReset, OnTime, Tick,
           NEW x \in Outputs, tort[x].started, Driven(tort[x])
    PROVE  Distance(x, tort[x].current)' <= MoveTicks - tort'[x].moved
<1>1. /\ tort[x] \in Tortoise /\ tort[x].moved \in 0 .. MoveTicks
      /\ machine[x] \in 0 .. MoveTicks /\ MoveTicks \in Nat
  BY TortoiseAssumption DEF TortoiseAssumption, TypeOK, Tortoise
<1>2. /\ tort[x].current \in Position /\ tort[x].out = tort[x].current
      /\ Distance(x, tort[x].current) <= MoveTicks - tort[x].moved
  BY DEF OnTime
<1>3. /\ tort'[x].current = tort[x].current
      /\ tort'[x].moved \in 0 .. MoveTicks /\ tort'[x].moved <= tort[x].moved + 1
  <2>1. tort'[x] = Clock(tort[x])
    BY DEF Tick
  <2>2. Clock(tort[x]).moved \in 0 .. MoveTicks
    BY <1>1, ClockFacts DEF Tortoise
  <2> QED
    BY <1>1, <2>1, <2>2, ClockFacts
<1>4. CASE tort[x].current = "normal"
  <2>1. machine'[x] = IF machine[x] # 0 THEN machine[x] - 1 ELSE machine[x]
    BY <1>2, <1>4 DEF Tick, Travelling, AtEnd
  <2> QED
    BY <1>1, <1>2, <1>3, <1>4, <2>1 DEF Distance
<1>5. CASE tort[x].current = "reverse"
  <2>1. machine'[x] = IF machine[x] # MoveTicks THEN machine[x] + 1 ELSE machine[x]
    BY <1>2, <1>5 DEF Tick, Travelling, AtEnd
  <2> QED
    BY <1>1, <1>2, <1>3, <1>5, <2>1 DEF Distance
<1> QED
  BY <1>2, <1>4, <1>5 DEF Position

\* Every step leaves every move time enough.
LEMMA NextOnTime == TypeOK /\ OffOutOfRange /\ OnTime /\ [Next]_vars => OnTime'
<1> SUFFICES ASSUME TypeOK, OffOutOfRange, OnTime, [Next]_vars,
                    NEW x \in Outputs, tort'[x].started
             PROVE  /\ tort'[x].current \in Position
                    /\ NoFactoryReset' /\ Driven(tort'[x]) =>
                         IF lockout'
                           THEN /\ tort'[x].out = "off"
                                /\ Distance(x, tort[x].current)' <= MoveTicks - tort'[x].paused
                           ELSE /\ tort'[x].out = tort'[x].current
                                /\ Distance(x, tort[x].current)' <= MoveTicks - tort'[x].moved
  BY DEF OnTime, Driven
<1>t. tort[x] \in Tortoise
  BY DEF TypeOK
<1>r. NoFactoryReset' => NoFactoryReset /\ ~FactoryReset
  BY ResetIsFinal
<1>1. ASSUME NEW S \in Addresses, NEW p \in Position, Command(S, p)
      PROVE  OnTime'
  <2>1. \A y \in Outputs :
          /\ tort'[y].started = tort[y].started /\ tort'[y].current = tort[y].current
          /\ tort'[y].control = tort[y].control /\ tort'[y].out = tort[y].out
          /\ tort'[y].moved = tort[y].moved /\ tort'[y].paused = tort[y].paused
    BY <1>1 DEF Command, TypeOK, Tortoise
  <2>2. lockout' = lockout /\ machine' = machine
    BY <1>1 DEF Command
  <2> QED
    BY <1>r, <2>1, <2>2 DEF OnTime, Driven, Distance
<1>2. ASSUME NEW y \in Outputs, NEW c \in Controls, WriteConfig(y, c)
      PROVE  tort'[x].current \in Position /\ ~Driven(tort'[x])
  BY <1>2, WriteStartsNothing DEF OnTime
<1>3. CASE Pass
  <2>1. TurnoutChanges \in [Outputs -> Tortoise]
    BY TurnoutType
  <2>2. lockout => TurnoutChanges = tort
    BY DEF TurnoutChanges, Performed, TypeOK
  <2>3. machine' = machine
    BY <1>3 DEF Pass
  <2>4. CASE ~lockout /\ lockout' /\ tort' = [z \in Outputs |-> DisableOutputs(TurnoutChanges[z])]
    BY <1>r, <2>1, <2>3, <2>4, DisableFacts, ChangesOnTime DEF Driven, Distance
  <2>5. CASE lockout /\ ~lockout' /\ tort' = [z \in Outputs |-> EnableOutputs(TurnoutChanges[z])]
    BY <1>r, <1>t, <2>2, <2>3, <2>5, EnableFacts DEF OnTime, Driven, Distance
  <2>6. CASE lockout' = lockout /\ tort' = TurnoutChanges
    <3>1. CASE lockout
      BY <1>r, <2>2, <2>3, <2>6, <3>1 DEF OnTime, Driven, Distance
    <3>2. CASE ~lockout
      BY <1>r, <2>3, <2>6, <3>2, ChangesOnTime DEF Driven, Distance
    <3> QED
      BY <3>1, <3>2
  <2> QED
    BY <1>3, <2>4, <2>5, <2>6 DEF Pass, CheckVoltage
<1>4. CASE Tick
  <2>1. /\ tort'[x].started = tort[x].started /\ tort'[x].current = tort[x].current
        /\ tort'[x].control = tort[x].control /\ tort'[x].out = tort[x].out
        /\ tort'[x].paused = tort[x].paused
    BY <1>4, <1>t, ClockFacts DEF Tick
  <2>2. lockout' = lockout
    BY <1>4 DEF Tick
  <2>3. CASE ~lockout
    BY <1>4, <1>r, <2>1, <2>2, <2>3, TickOnTime DEF OnTime, Driven
  <2>4. CASE lockout /\ Driven(tort[x]) /\ NoFactoryReset
    <3>1. tort[x].out = "off"
      BY <2>1, <2>4 DEF OnTime
    <3>2. machine'[x] = machine[x]
      BY <1>4, <3>1 DEF Tick, Travelling
    <3> QED
      BY <2>1, <2>2, <2>4, <3>2 DEF OnTime, Driven, Distance
  <2>5. CASE lockout /\ ~(Driven(tort[x]) /\ NoFactoryReset)
    BY <1>r, <2>1, <2>5 DEF OnTime, Driven
  <2> QED
    BY <2>3, <2>4, <2>5
<1>5. CASE SupplyChanges \/ UNCHANGED vars
  BY <1>5, <1>r DEF SupplyChanges, vars, OnTime, Driven, Distance
<1>6. CASE FactoryReset
  <2>1. tort[x].started /\ tort'[x].current = tort[x].current
    BY <1>6, <1>t DEF FactoryReset, Tortoise
  <2> QED
    BY <1>6, <1>r, <2>1 DEF OnTime
<1> QED
  BY <1>1, <1>2, <1>3, <1>4, <1>5, <1>6 DEF Next, OnTime

-------------------------------------------------------------------------------
(* The properties. *)

\* At the start nothing moves and nothing is powered.
LEMMA InitInv == Init => LimitKept /\ OffOutOfRange /\ OnTime
<1> SUFFICES ASSUME Init PROVE LimitKept /\ OffOutOfRange /\ OnTime
  OBVIOUS
<1>1. ~lockout /\ \A x \in Outputs : ~tort[x].started
  <2>1. CASE tort = [x \in Outputs |-> BlankStart]
    BY <2>1 DEF Init, BlankStart
  <2>2. CASE tort # [x \in Outputs |-> BlankStart]
    BY <2>2 DEF Init
  <2> QED
    BY <2>1, <2>2
<1>2. Moving = {}
  BY <1>1 DEF Moving, IsMoving
<1>3. Cardinality(Moving) <= MaxAtOnce
  BY <1>2, FS_EmptySet, TortoiseAssumption DEF TortoiseAssumption
<1> QED
  BY <1>1, <1>3 DEF LimitKept, OffOutOfRange, OnTime

\* The invariant holds in every reachable state.
THEOREM MovesInvariant == Spec => []MovesInv
<1>1. Init => MovesInv
  BY InitType, InitInv DEF MovesInv
<1>2. MovesInv /\ [Next]_vars => MovesInv'
  BY NextType, NextLimit, NextOff, NextOnTime DEF MovesInv
<1> QED
  BY <1>1, <1>2, PTL DEF Spec

\* No state has more moves under way than max_turnouts_at_once allows; in a
\* lockout, because every such move is one of those that it paused.
THEOREM MovesLimited == Spec => []MovingWithinLimit
<1>1. ASSUME MovesInv PROVE MovingWithinLimit
  <2> USE DEF MovesInv, LimitKept, MovingWithinLimit
  <2>1. CASE lockout
    <3>1. Resuming \in SUBSET Outputs
      BY DEF Resuming
    <3>2. ASSUME NEW x \in Moving PROVE x \in Resuming
      <4>1. tort[x].moved \in Int /\ tort[x].paused \in Int /\ MoveTicks \in Int
        BY <1>1, TortoiseAssumption DEF TortoiseAssumption, Moving, TypeOK, Tortoise
      <4> QED
        BY <1>1, <2>1, <4>1 DEF Moving, IsMoving, Resuming
    <3>3. Cardinality(Moving) <= Cardinality(Resuming)
      BY <3>1, <3>2, PartIsNoLarger
    <3>4. Cardinality(Moving) \in Int /\ Cardinality(Resuming) \in Int /\ MaxAtOnce \in Int
      BY <3>1, <3>2, OutputsFinite, TortoiseAssumption DEF TortoiseAssumption, Moving
    <3> QED
      BY <1>1, <2>1, <3>3, <3>4
  <2>2. CASE ~lockout
    BY <1>1, <2>2
  <2> QED
    BY <2>1, <2>2
<1> QED
  BY <1>1, MovesInvariant, PTL

\* Until a factory reset, out of range no output is powered but those that are
\* always on.
THEOREM SupplyCutOff == Spec => []OffOutOfRange
<1>1. MovesInv => OffOutOfRange
  BY DEF MovesInv
<1> QED
  BY <1>1, MovesInvariant, PTL

\* Until a factory reset, a moved output is powered towards the position it was
\* moved to.
THEOREM PositionHeld == Spec => []HeldAtPosition
<1>1. MovesInv => HeldAtPosition
  BY DEF MovesInv, OnTime, HeldAtPosition
<1> QED
  BY <1>1, MovesInvariant, PTL

\* A machine that still has a way to go belongs to a move under way.
LEMMA TravellingIsMoving ==
    ASSUME MovesInv, NoFactoryReset, ~lockout,
           NEW x \in Outputs, Driven(tort[x]), tort[x].started,
           machine[x] # AtEnd(x)
    PROVE  IsMoving(tort[x])
<1>1. /\ tort[x].moved \in 0 .. MoveTicks /\ machine[x] \in 0 .. MoveTicks
      /\ MoveTicks \in Nat
  BY TortoiseAssumption DEF TortoiseAssumption, MovesInv, TypeOK, Tortoise
<1>2. /\ tort[x].current \in Position /\ tort[x].out = tort[x].current
      /\ Distance(x, tort[x].current) <= MoveTicks - tort[x].moved
  BY DEF MovesInv, OnTime
<1>3. Distance(x, tort[x].current) # 0
  BY <1>1, <1>2 DEF AtEnd, Distance, Position
<1>4. Distance(x, tort[x].current) \in 0 .. MoveTicks
  BY DistanceRange DEF MovesInv
<1> QED
  BY <1>1, <1>2, <1>3, <1>4 DEF IsMoving

\* Where every output has been moved, and before a factory reset, no more motors
\* draw the current of a move than max_turnouts_at_once allows, whatever the supply
\* did to the moves.
THEOREM CurrentLimited == Spec => []CurrentWithinLimit
<1>1. ASSUME MovesInv, MovingWithinLimit, Undisturbed
      PROVE  Cardinality({x \in Outputs : Travelling(x)}) <= MaxAtOnce
  <2> DEFINE Drawing == {x \in Outputs : Travelling(x)}
  <2>1. CASE lockout
    <3>1. Drawing = {}
      BY <1>1, <2>1 DEF MovesInv, OffOutOfRange, Undisturbed, Travelling, Driven
    <3>2. Cardinality(Drawing) = 0
      BY <3>1, FS_EmptySet
    <3> QED
      BY <3>2, TortoiseAssumption DEF TortoiseAssumption
  <2>2. CASE ~lockout
    <3>1. Moving \in SUBSET Outputs /\ Drawing \in SUBSET Moving
      BY <1>1, <2>2, TravellingIsMoving DEF Travelling, Undisturbed, Moving
    <3>2. Cardinality(Drawing) <= Cardinality(Moving)
      BY <3>1, PartIsNoLarger
    <3>3. Cardinality(Drawing) \in Int /\ Cardinality(Moving) \in Int /\ MaxAtOnce \in Int
      BY <3>1, OutputsFinite, TortoiseAssumption DEF TortoiseAssumption
    <3> QED
      BY <1>1, <3>2, <3>3 DEF MovingWithinLimit
  <2> QED
    BY <2>1, <2>2
<1>2. MovesInv /\ MovingWithinLimit => CurrentWithinLimit
  BY <1>1 DEF CurrentWithinLimit
<1> QED
  BY <1>2, MovesInvariant, MovesLimited, PTL

\* Where every output has been moved, and before a factory reset, a machine whose
\* move the node takes for finished is where the node says.
THEOREM Arrived == Spec => []ArrivedWhenDone
<1>1. MovesInv => ArrivedWhenDone
  BY TravellingIsMoving DEF ArrivedWhenDone, Undisturbed
<1> QED
  BY <1>1, MovesInvariant, PTL

-------------------------------------------------------------------------------
(* The places that a pass takes. *)

\* The supply check of a pass changes no control_type, no position and no move.
LEMMA CheckVoltageFacts ==
    ASSUME TypeOK, ~lockout, CheckVoltage(TurnoutChanges), NEW x \in Outputs
    PROVE  /\ Driven(tort'[x]) <=> Driven(TurnoutChanges[x])
           /\ NeedsToMove(tort'[x]) <=> NeedsToMove(TurnoutChanges[x])
           /\ IsMoving(tort'[x]) <=> IsMoving(TurnoutChanges[x])
<1>1. TurnoutChanges[x] \in Tortoise
  BY TurnoutType
<1>2. CASE tort'[x] = TurnoutChanges[x]
  BY <1>2
<1>3. CASE tort'[x] = DisableOutputs(TurnoutChanges[x])
  BY <1>1, <1>3 DEF DisableOutputs, Tortoise, Driven, NeedsToMove, IsMoving
<1> QED
  BY <1>2, <1>3 DEF CheckVoltage

\* What a pass makes of an output: one that it performs moves, or is idle.
LEMMA PassFacts ==
    ASSUME TypeOK, ~lockout, Pass, NEW x \in Outputs
    PROVE  /\ x \in Performed => IF Driven(tort[x]) THEN x \in Moving' /\ x \notin Needy'
                                                    ELSE x \in Idle'
           /\ x \notin Performed => (x \in Moving' <=> x \in Moving) /\ (x \in Needy' <=> x \in Needy)
           /\ x \in Moving => x \in Moving'
<1>1. /\ tort[x] \in Tortoise
      /\ x \in Performed => tort[x].desired \in Position
  BY PerformedGoSomewhere DEF TypeOK
<1>2. /\ Driven(tort'[x]) <=> Driven(TurnoutChanges[x])
      /\ NeedsToMove(tort'[x]) <=> NeedsToMove(TurnoutChanges[x])
      /\ IsMoving(tort'[x]) <=> IsMoving(TurnoutChanges[x])
  BY CheckVoltageFacts DEF Pass
<1>3. CASE x \notin Performed
  BY <1>2, <1>3 DEF TurnoutChanges, Moving, Needy
<1>4. CASE x \in Performed
  <2>1. TurnoutChanges[x] = SetPositionForce(tort[x], tort[x].desired)
    BY <1>4 DEF TurnoutChanges
  <2>2. NeedsToMove(tort[x])
    BY <1>4 DEF Performed, Redirected, Chosen, Waiting, Needy
  <2>3. CASE Driven(tort[x])
    <3>1. 0 < MoveTicks
      BY TortoiseAssumption DEF TortoiseAssumption
    <3>2. /\ TurnoutChanges[x].started /\ TurnoutChanges[x].moved = 0
          /\ TurnoutChanges[x].current = tort[x].desired
      BY <1>1, <1>4, <2>1, <2>2, <2>3, ForceStarts DEF NeedsToMove
    <3>3. TurnoutChanges[x].desired = tort[x].desired
      BY <1>1, <2>1 DEF SetPositionForce, Tortoise
    <3>4. IsMoving(TurnoutChanges[x]) /\ ~NeedsToMove(TurnoutChanges[x])
      BY <3>1, <3>2, <3>3 DEF IsMoving, NeedsToMove
    <3> QED
      BY <1>2, <1>4, <2>3, <3>4 DEF Moving, Needy
  <2>4. CASE ~Driven(tort[x])
    <3>1. /\ TurnoutChanges[x].started = tort[x].started
          /\ TurnoutChanges[x].current = tort[x].current
          /\ TurnoutChanges[x].moved = tort[x].moved
      BY <1>1, <2>1, <2>4, ForceIdle
    <3>2. TurnoutChanges[x].desired = tort[x].desired
      BY <1>1, <2>1 DEF SetPositionForce, Tortoise
    <3>3. TurnoutChanges[x].control = tort[x].control
      BY TurnoutType
    <3> QED
      BY <1>2, <1>4, <2>2, <2>4, <3>1, <3>2, <3>3 DEF Moving, Idle, IsMoving, NeedsToMove, Driven
  <2> QED
    BY <2>3, <2>4
<1> QED
  BY <1>3, <1>4

\* No place is left empty while an output waits that could move: the lowest
\* waiting ones fill the free places, or all of them get one.
THEOREM PlacesFilled == Spec => PlacesUsed
<1>1. ASSUME MovesInv, Pass, ~lockout
      PROVE  Waiting' \subseteq Idle' \/ Cardinality(Moving' \cup Idle') >= limit
  <2>1. TypeOK /\ limit \in Nat
    BY <1>1, TortoiseAssumption DEF MovesInv, TypeOK, TortoiseAssumption
  <2>2. /\ Moving \in SUBSET Outputs /\ Waiting \in SUBSET Outputs /\ Chosen \in SUBSET Waiting
        /\ (Moving' \cup Idle') \in SUBSET Outputs /\ Waiting' \subseteq Outputs
        /\ Moving \cap Chosen = {}
    BY DEF Moving, Needy, Waiting, Chosen, Idle
  <2>3. Cardinality(Moving) \in Nat /\ Cardinality(Waiting) \in Nat
    BY <2>2, OutputsFinite
  <2>4. CASE limit < Cardinality(Moving)
    <3>1. Moving \in SUBSET (Moving' \cup Idle')
      BY <1>1, <2>1, <2>2, PassFacts
    <3>2. Cardinality(Moving) <= Cardinality(Moving' \cup Idle')
      BY <2>2, <3>1, PartIsNoLarger
    <3>3. Cardinality(Moving' \cup Idle') \in Nat
      BY <2>2, OutputsFinite
    <3> QED
      BY <2>1, <2>3, <2>4, <3>2, <3>3
  <2>5. CASE ~(limit < Cardinality(Moving))
    <3>1. Free \in Nat
      BY <2>1, <2>3, <2>5 DEF Free
    <3>2. IF Free <= Cardinality(Waiting) THEN Cardinality(Chosen) = Free ELSE Chosen = Waiting
      <4>1. LET C == {x \in Waiting : Cardinality({y \in Waiting : y < x}) < Free}
            IN  IF Free <= Cardinality(Waiting) THEN Cardinality(C) = Free ELSE C = Waiting
        <5>1. Waiting \in SUBSET Outputs /\ Free \in Nat
          BY <2>2, <3>1
        <5> QED
          BY <5>1, LowestFew, Zenon
      <4> QED
        BY <4>1 DEF Chosen
    <3>3. \A x \in Outputs : x \in Chosen => x \in Performed
      BY <1>1 DEF Performed
    <3>4. CASE Free <= Cardinality(Waiting)
      <4>1. Moving \cup Chosen \in SUBSET (Moving' \cup Idle')
        BY <1>1, <2>1, <2>2, <3>3, PassFacts
      <4>2. IsFiniteSet(Moving) /\ IsFiniteSet(Chosen) /\ Cardinality(Chosen) = Free
        BY <2>2, <3>2, <3>4, OutputsFinite
      <4>3. Cardinality(Moving \cup Chosen)
              = Cardinality(Moving) + Cardinality(Chosen) - Cardinality({})
        BY <2>2, <4>2, FS_Union
      <4>4. Cardinality(Moving \cup Chosen) = limit
        BY <2>1, <2>3, <4>2, <4>3, FS_EmptySet DEF Free
      <4>5. Cardinality(Moving \cup Chosen) <= Cardinality(Moving' \cup Idle')
        BY <2>2, <4>1, PartIsNoLarger
      <4>6. Cardinality(Moving' \cup Idle') \in Nat
        BY <2>2, OutputsFinite
      <4> QED
        BY <2>1, <4>4, <4>5, <4>6
    <3>5. CASE ~(Free <= Cardinality(Waiting))
      <4> SUFFICES ASSUME NEW x \in Outputs, x \in Waiting' PROVE x \in Idle'
        BY <2>2
      <4>1. x \in Needy' /\ x \notin Moving'
        BY DEF Waiting
      <4>2. CASE x \in Performed
        BY <1>1, <2>1, <4>1, <4>2, PassFacts
      <4>3. CASE x \notin Performed
        <5>1. x \in Waiting
          BY <1>1, <2>1, <4>1, <4>3, PassFacts DEF Waiting
        <5> QED
          BY <3>2, <3>3, <3>5, <4>3, <5>1
      <4> QED
        BY <4>2, <4>3
    <3> QED
      BY <3>4, <3>5
  <2> QED
    BY <2>4, <2>5
<1>2. MovesInv /\ [Next]_vars =>
        [Pass /\ ~lockout =>
            Waiting' \subseteq Idle' \/ Cardinality(Moving' \cup Idle') >= limit]_vars
  BY <1>1
<1> QED
  BY <1>2, MovesInvariant, PTL DEF Spec, PlacesUsed
===============================================================================
