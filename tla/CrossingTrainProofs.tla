-------------------------- MODULE CrossingTrainProofs --------------------------
(***************************************************************************)
(* What the crossing gate does for the trains on its track, whatever their *)
(* lengths, for every timeout and debounce that fits their pace (Paced).   *)
(***************************************************************************)
EXTENDS CrossingTrain, CrossingGateProofs

trainVars == <<vars, trackVars>>

-------------------------------------------------------------------------------
(* The trains are one environment of the gate among many. *)

\* There is one route, and all that is assumed of it.
LEMMA TrackFacts ==
    /\ NumRoutes = 1 /\ Routes = {1} /\ 1 \in Enabled
    /\ MinStay \in Nat /\ MaxStay \in Nat /\ Headway \in Nat /\ MinStay <= MaxStay
    /\ Timeout \in Nat /\ Debounce \in Nat
    /\ \A n \in Lengths : n \in Nat /\ n > 0 /\ n % 2 = 1
    /\ \A a \in Role : Sensor[1][a] \in Input
    /\ \A a, b \in Role : Sensor[1][a] = Sensor[1][b] => a = b
<1>1. \A n \in Lengths : n \in Nat /\ n > 0 /\ n % 2 = 1
  BY TrainAssumption DEF TrainAssumption
<1> QED
  BY <1>1, TrainAssumption, GateAssumption DEF TrainAssumption, GateAssumption, Routes

\* A train does nothing to the gate but change the level of an input.
LEMMA GateStep == [TrainNext]_trainVars => [Next]_vars
<1> SUFFICES ASSUME [TrainNext]_trainVars PROVE [Next]_vars
  OBVIOUS
<1>1. CASE MoveOn
  <2>1. UNCHANGED vars \/ \E a \in Role : InputChange(Sensor[1][a])
    BY <1>1 DEF MoveOn
  <2> QED
    BY <2>1, TrackFacts DEF Next
<1>2. CASE NextTrain
  BY <1>2 DEF NextTrain
<1>3. CASE TimePasses
  BY <1>3 DEF TimePasses, Next
<1>4. CASE Main \/ \E r \in Routes : TimerExpired(r) \/ ReactivationExpired(r)
  BY <1>4 DEF Next
<1>5. CASE UNCHANGED trainVars
  BY <1>5 DEF trainVars
<1> QED
  BY <1>1, <1>2, <1>3, <1>4, <1>5 DEF TrainNext

\* With trains on the track the controller does only what CrossingGate says, so
\* all that is proved of CrossingGate holds of it.
THEOREM TrainsAreInputs == TrainSpec => Spec
<1>1. TrainInit => Init
  BY DEF TrainInit
<1> QED
  BY <1>1, GateStep, PTL DEF TrainSpec, Spec, trainVars

-------------------------------------------------------------------------------
(* The sensors, the places and the marks of a train. *)

\* A train meets the four sensors in the order its direction gives them.
LEMMA SensorOrder ==
    ASSUME from \in {"left", "right"}
    PROVE  /\ Position(FirstIsland(Heading)) = 3
           /\ Position(SecondIsland(Heading)) = 5
           /\ Position(Exit(Heading)) = 7
           /\ \A a \in Role : Position(a) \in {1, 3, 5, 7}
           /\ \A a \in {"left", "right"} : Position(a) = 1 <=> a = from
           /\ \A a, b \in Role : Position(a) = Position(b) => a = b
           /\ {"left", "right", FirstIsland(Heading), SecondIsland(Heading), Exit(Heading)} \subseteq Role
  BY DEF Position, Ahead, Astern, FirstIsland, SecondIsland, Exit, Heading, Role

\* The controller reads at a sensor whether the train covers it.
LEMMA SensorLevels ==
    ASSUME PinsFollowTrain, NEW a \in Role
    PROVE  SensorValue(1, a) <=> Covers(Position(a))
  BY TrackFacts DEF SensorValue, PinsFollowTrain

\* The places, one after the other.
LEMMA Places ==
    ASSUME TrackOK, NEW n \in Int
    PROVE  /\ n < 1 => PlaceAt(n) = "unoccupied"
           /\ 1 <= n /\ n < 3 => PlaceAt(n) = "pre_island"
           /\ 3 <= n /\ n < 5 => PlaceAt(n) = "island_incoming"
           /\ 5 <= n /\ n < 5 + length => PlaceAt(n) = "island"
           /\ n = 5 + length => PlaceAt(n) = "post_incoming"
           /\ 5 + length < n /\ Overhangs => PlaceAt(n) = "post_incoming"
           /\ 5 + length < n /\ ~Overhangs /\ n < Gone => PlaceAt(n) = "post"
           /\ 5 + length < n /\ ~Overhangs /\ n >= Gone => PlaceAt(n) = "unoccupied"
<1>1. length \in Nat /\ length > 0
  BY TrackFacts DEF TrackOK
<1> QED
  BY <1>1 DEF PlaceAt, Overhangs, Gone

\* While the tracker is one edge behind, the handler takes it to the place of
\* the train, and nowhere else.
LEMMA Advance ==
    ASSUME TrackOK, OnRoute, AtEdge, head > 1, NEW to \in Location,
           NEW s, \A a \in Role : s[a] <=> Covers(Position(a))
    PROVE  Advances(Heading, s, PlaceAt(head - 1), to)
             <=> to = PlaceAt(head) /\ PlaceAt(head) # PlaceAt(head - 1)
<1>1. /\ s[FirstIsland(Heading)] <=> Covers(3)
      /\ s[SecondIsland(Heading)] <=> Covers(5)
      /\ s[Exit(Heading)] <=> Covers(7)
  BY SensorOrder DEF TrackOK
<1>2. IslandClear(s) <=> ~Covers(3) /\ ~Covers(5)
  BY <1>1 DEF IslandClear, FirstIsland, SecondIsland, TrackOK
<1>3. length \in Nat /\ length > 0 /\ length % 2 = 1 /\ head \in Nat /\ head < 7 + length
  BY TrackFacts DEF TrackOK, OnRoute, Gone
<1> HIDE DEF Covers
<1> DEFINE F == s[FirstIsland(Heading)]
           S == s[SecondIsland(Heading)]
           E == s[Exit(Heading)]
           C == IslandClear(s)
<1>4. Advances(Heading, s, PlaceAt(head - 1), to) <=>
        \/ PlaceAt(head - 1) = "pre_island" /\ to = "island_incoming" /\ F
        \/ PlaceAt(head - 1) = "island_incoming" /\ to = "island" /\ S
        \/ PlaceAt(head - 1) = "island" /\ to = "post_incoming" /\ C
        \/ PlaceAt(head - 1) = "post_incoming" /\ to = "post" /\ E
        \/ PlaceAt(head - 1) = "post" /\ to = "unoccupied" /\ ~E
  BY DEF Advances
<1> HIDE DEF F, S, E, C
<1>5. (F <=> Covers(3)) /\ (S <=> Covers(5)) /\ (E <=> Covers(7))
        /\ (C <=> ~Covers(3) /\ ~Covers(5))
  BY <1>1, <1>2 DEF F, S, E, C
<1>6. CASE head \in 2 .. 4
  BY <1>3, <1>4, <1>5, <1>6 DEF PlaceAt, Covers, AtEdge, Overhangs, Gone
<1>7. CASE head >= 5 /\ head < 5 + length
  BY <1>3, <1>4, <1>5, <1>7 DEF PlaceAt, Covers, AtEdge, Overhangs, Gone
<1>8. CASE head >= 5 + length
  BY <1>3, <1>4, <1>5, <1>8 DEF PlaceAt, Covers, AtEdge, Overhangs, Gone
<1> QED
  BY <1>3, <1>6, <1>7, <1>8

\* There is always a mark behind the head that the train has passed so lately
\* that the timer outlasts its stay.
LEMMA MarkBehind ==
    ASSUME Paced, TrackOK, NEW h \in Nat, 0 < h, h < Gone
    PROVE  \E n \in Marks : n \in Nat /\ n <= h /\ (h + 1 - n) * MaxStay < Timeout
<1>1. length \in Nat /\ length > 0 /\ length % 2 = 1 /\ length \in Lengths
        /\ MaxStay \in Nat /\ Timeout \in Nat /\ h < 7 + length
  BY TrackFacts DEF TrackOK, Gone
<1>2. ASSUME NEW n \in Marks, n \in Nat, h + 1 - n \in {1, 2}
      PROVE  n <= h /\ (h + 1 - n) * MaxStay < Timeout
  BY <1>1, <1>2 DEF Paced
<1>3. 1 \in Marks /\ 3 \in Marks /\ 5 \in Marks /\ 5 + length \in Marks
        /\ (length >= 3 => 7 \in Marks /\ 3 + length \in Marks)
        /\ (length >= 5 => 1 + length \in Marks)
  BY <1>1 DEF Marks
<1>4. CASE h < 7
  <2>1. h + 1 - 1 \in {1, 2} \/ h + 1 - 3 \in {1, 2} \/ h + 1 - 5 \in {1, 2}
    BY <1>4
  <2> QED
    BY <2>1, <1>2, <1>3
<1>5. CASE h >= 1 + length /\ h >= 7
  <2>1. \/ length >= 5 /\ h + 1 - (1 + length) \in {1, 2}
        \/ length >= 3 /\ h + 1 - (3 + length) \in {1, 2}
        \/ h + 1 - (5 + length) \in {1, 2}
        \/ length >= 3 /\ h + 1 - 7 \in {1, 2}
    BY <1>1, <1>5
  <2>2. \E n \in Marks : n \in Nat /\ h + 1 - n \in {1, 2}
    BY <2>1, <1>1, <1>3
  <2> QED
    BY <2>2, <1>2
<1>6. CASE h >= 7 /\ h <= length
  <2>1. h + 1 - 7 <= length - 6 /\ h + 1 - 7 \in Nat /\ length - 6 \in Nat
    BY <1>1, <1>6
  <2>2. (h + 1 - 7) * MaxStay <= (length - 6) * MaxStay
    BY <1>1, <2>1
  <2>3. (length - 6) * MaxStay < Timeout
    BY <1>1 DEF Paced
  <2>4. (h + 1 - 7) * MaxStay \in Int /\ (length - 6) * MaxStay \in Int
    BY <1>1, <2>1
  <2> QED
    BY <1>1, <1>3, <1>6, <2>2, <2>3, <2>4
<1> QED
  BY <1>1, <1>4, <1>5, <1>6

\* So the timer does not expire on a train that is on the route.
LEMMA TimerOutlasts ==
    ASSUME Paced, TypeOK, TrainInv, OnRoute, location[1] # "unoccupied", pc = "poll"
    PROVE  /\ timeout[1] > 0
           /\ dwell < MaxStay /\ ~Busy => timeout[1] > 1
<1>1. /\ head \in Nat /\ 0 < head /\ head < Gone /\ MaxStay \in Nat /\ dwell \in Nat
      /\ dwell <= MaxStay /\ Timeout \in Nat /\ timeout[1] \in Int
      /\ pin_change_msgq \in Nat
  BY TrackFacts, GateAssumption DEF TrainInv, TrackOK, OnRoute, TypeOK, GateAssumption, Gone
<1>2. CASE pin_change_msgq = 0
  <2>1. PICK n \in Marks : n \in Nat /\ n <= head /\ (head + 1 - n) * MaxStay < Timeout
    BY <1>1, MarkBehind DEF TrainInv
  <2>2. timeout[1] + (head - n) * MaxStay + dwell >= Timeout
    BY <1>1, <1>2, <2>1 DEF TrainInv, TimerRestarted, RanSince, Pending
  <2>3. (head + 1 - n) * MaxStay = (head - n) * MaxStay + MaxStay /\ (head - n) * MaxStay \in Int
    BY <1>1, <2>1
  <2> QED
    BY <1>1, <1>2, <2>1, <2>2, <2>3
<1>3. CASE pin_change_msgq > 0
  <2>1. dwell = 0 /\ head - 1 \in Nat /\ 0 < head - 1 /\ head - 1 < Gone
    BY <1>1, <1>3, TrackFacts
       DEF TrainInv, OneAtATime, Busy, InStep, Pending, PlaceAt, OnRoute, TrackOK, Gone
  <2>2. PICK n \in Marks : n \in Nat /\ n <= head - 1 /\ (head - 1 + 1 - n) * MaxStay < Timeout
    BY <2>1, MarkBehind DEF TrainInv
  <2>3. timeout[1] + (head - n) * MaxStay + dwell >= Timeout
    BY <1>1, <2>1, <2>2 DEF TrainInv, TimerRestarted, RanSince
  <2>4. head - 1 + 1 - n = head - n /\ (head - n) * MaxStay \in Int
    BY <1>1, <2>2
  <2> QED
    BY <1>1, <1>3, <2>1, <2>2, <2>3, <2>4 DEF Busy
<1> QED
  BY <1>1, <1>2, <1>3

-------------------------------------------------------------------------------
(* The main thread, while the train stays where it is. *)

\* What is said of the train stays so.
LEMMA TrainStands ==
    ASSUME UNCHANGED trackVars
    PROVE  /\ length' = length /\ head' = head /\ from' = from /\ dwell' = dwell
           /\ Gone' = Gone /\ Heading' = Heading /\ Marks' = Marks
           /\ OnRoute' <=> OnRoute
           /\ AtEdge' <=> AtEdge
           /\ Overhangs' <=> Overhangs
           /\ \A n : PlaceAt(n)' = PlaceAt(n)
           /\ \A a \in Role : Covers(Position(a))' <=> Covers(Position(a))
  BY DEF trackVars, Gone, Heading, Marks, OnRoute, AtEdge, Overhangs, PlaceAt, Covers,
         Position, Gone

\* The pins follow, and the timer has run as long as before.
LEMMA GateStands ==
    ASSUME TrainInv, UNCHANGED trackVars, UNCHANGED <<pin, can_be_activated>>,
           manual' = FALSE \/ manual' = manual
    PROVE  /\ TrackOK' /\ PinsFollowTrain'
           /\ timeout'[1] = timeout[1] => \A n : RanSince(n)' <=> RanSince(n)
<1>1. TrackOK'
  BY TrainStands DEF TrainInv, TrackOK
<1>2. PinsFollowTrain'
  BY TrainStands DEF TrainInv, PinsFollowTrain
<1> QED
  BY <1>1, <1>2, TrainStands DEF RanSince

\* A timer that has just been restarted has not run longer than it may.
LEMMA Restarted ==
    ASSUME TrainInv, UNCHANGED trackVars, timeout'[1] = Timeout, NEW n \in Marks, n < head \/ n = head
    PROVE  RanSince(n)'
<1>1. head \in Nat /\ length \in Nat /\ dwell \in Nat /\ MaxStay \in Nat /\ Timeout \in Nat
  BY TrackFacts DEF TrainInv, TrackOK, Gone
<1>2. n \in Nat /\ head - n \in Nat
  BY <1>1 DEF Marks
<1>3. (head - n) * MaxStay \in Nat
  BY <1>1, <1>2
<1> QED
  BY <1>1, <1>3, TrainStands DEF RanSince

LEMMA StepPollPinChange ==
    ASSUME TypeOK, TypeOK', TrainInv, PollPinChange, UNCHANGED trackVars
    PROVE  TrainInv'
<1>1. cur = 1 /\ timeout[1] # 0 /\ pin_change_msgq = 1 /\ pin_change_msgq' = 0
        /\ Pending /\ Pending' /\ Busy /\ Busy' /\ pc = "poll" /\ pc' = "check"
  BY TrackFacts DEF PollPinChange, MainAt, TypeOK, Pending, Busy, TrainInv, OneAtATime
<1>2. UNCHANGED <<pin, current_pos, train, timers, cur, manual, decided, on_island>>
  BY DEF PollPinChange, timers
<1>3. TrackOK' /\ PinsFollowTrain' /\ \A n : RanSince(n)' <=> RanSince(n)
  BY <1>2, GateStands DEF timers
<1>4. OneAtATime'
  BY <1>1, <1>2, TrainStands DEF TrainInv, OneAtATime, timers
<1>5. InStep'
  BY <1>1, <1>2, TrainStands DEF TrainInv, InStep, train
<1>6. DebounceOver'
  BY <1>1, <1>2, TrainStands DEF TrainInv, DebounceOver, train
<1>7. TimerRestarted'
  BY <1>1, <1>2, <1>3, TrainStands DEF TrainInv, TimerRestarted, train
<1>8. FreeBehindTrain'
  BY <1>1, <1>2, TrainStands DEF TrainInv, FreeBehindTrain, train, timers
<1> QED
  BY <1>3, <1>4, <1>5, <1>6, <1>7, <1>8 DEF TrainInv

\* The handler sees a new train exactly where one has just come to the route,
\* and otherwise moves the train of the route to where it is.
LEMMA StepHandleRoute ==
    ASSUME TypeOK, TypeOK', TrainInv, HandleRoute, UNCHANGED trackVars
    PROVE  TrainInv'
<1> DEFINE s == [role \in Role |-> SensorValue(1, role)]
           moves == {to \in Location :
                       /\ direction[1] # "unknown"
                       /\ debounce[1] = 0
                       /\ Advances(direction[1], s, location[1], to)}
<1>1. cur = 1 /\ timeout[1] # 0 /\ pin_change_msgq = 0 /\ pc = "check"
        /\ Pending /\ Busy /\ 1 \in Enabled /\ ~manual
  BY TrackFacts DEF HandleRoute, MainAt, TypeOK, Pending, Busy, TrainInv, OneAtATime, TrackOK
<1>2. UNCHANGED <<pin, current_pos, train, timers, pin_change_msgq, manual>>
  BY DEF HandleRoute
<1>3. TrackOK' /\ PinsFollowTrain' /\ \A n : RanSince(n)' <=> RanSince(n)
  BY <1>2, GateStands DEF timers
<1>4. \A a \in Role : s[a] <=> Covers(Position(a))
  BY SensorLevels DEF TrainInv
<1>5. SwitchesSet(1)
  BY TrainAssumption DEF TrainAssumption, SwitchesSet
<1> HIDE DEF s
<1>6. \/ /\ NewTrain(1, s)
         /\ decided' = IF s["left"] THEN "ltr" ELSE "rtl"
         /\ pc' = "enter"
         /\ UNCHANGED cur
      \/ /\ ~NewTrain(1, s)
         /\ on_island' = (s["left_island"] \/ s["right_island"])
         /\ UNCHANGED cur
         /\ \/ moves = {} /\ pc' = "refresh"
            \/ decided' \in moves /\ pc' = "move"
  BY <1>1, <1>5 DEF HandleRoute, s
<1> HIDE DEF moves
<1>7. OneAtATime'
  BY <1>1, <1>2, <1>6, TrainStands DEF TrainInv, OneAtATime, Busy, timers
<1>8. DebounceOver'
  BY <1>2, TrainStands DEF TrainInv, DebounceOver, train
<1>9. ASSUME ~OnRoute PROVE InStep' /\ TimerRestarted' /\ FreeBehindTrain'
  <2>1. \A a \in Role : ~s[a]
    BY <1>4, <1>9, SensorOrder, TrackFacts DEF TrainInv, TrackOK, OnRoute, Covers, Gone
  <2>2. ~NewTrain(1, s)
    BY <2>1 DEF NewTrain, Role
  <2>3. IslandClear(s) /\ Exit("ltr") \in Role /\ Exit("rtl") \in Role
          /\ FirstIsland("ltr") \in Role /\ FirstIsland("rtl") \in Role
          /\ SecondIsland("ltr") \in Role /\ SecondIsland("rtl") \in Role
    BY <2>1 DEF IslandClear, Role, Exit, FirstIsland, SecondIsland
  <2>4. \A to \in moves : location[1] = "island" \/ (location[1] = "post" /\ to = "unoccupied")
    <3> SUFFICES ASSUME NEW to \in moves, location[1] # "island"
                 PROVE  location[1] = "post" /\ to = "unoccupied"
      OBVIOUS
    <3>1. direction[1] \in {"ltr", "rtl"} /\ Advances(direction[1], s, location[1], to)
      BY TrackFacts DEF moves, TypeOK, Direction
    <3> QED
      BY <3>1, <2>1, <2>3 DEF Advances
  <2>5. location[1] = "post" => "unoccupied" \in moves
    <3> SUFFICES ASSUME location[1] = "post" PROVE "unoccupied" \in moves
      OBVIOUS
    <3>1. direction[1] \in {"ltr", "rtl"}
      BY <1>9, TrackFacts DEF TrainInv, FreeBehindTrain, TypeOK, Direction
    <3>2. debounce[1] = 0
      BY <1>9, TrackFacts DEF TrainInv, DebounceOver, OnRoute, TrackOK, Gone
    <3> QED
      BY <3>1, <3>2, <2>1, <2>3 DEF Advances, moves, Location
  <2>6. FreeBehindTrain'
    BY <1>1, <1>2, <1>6, <1>9, <2>2, <2>4, <2>5, TrainStands
       DEF TrainInv, FreeBehindTrain, Pending, Busy, train, timers
  <2> QED
    BY <1>9, <2>6, TrainStands DEF InStep, TimerRestarted
<1>10. ASSUME OnRoute, head = 1 PROVE InStep' /\ TimerRestarted' /\ FreeBehindTrain'
  <2>1. length \in Nat /\ length > 0 /\ length % 2 = 1
    BY TrackFacts DEF TrainInv, TrackOK
  <2>2. location[1] = "unoccupied"
    <3>1. location[1] = PlaceAt(head - 1) /\ head - 1 \in Int /\ head - 1 < 1
      BY <1>1, <1>10 DEF TrainInv, InStep
    <3> QED
      BY <3>1, Places DEF TrainInv
  <2>3. s[from] /\ \A a \in {"left", "right"} : s[a] <=> a = from
    BY <1>4, <1>10, <2>1, SensorOrder DEF TrainInv, TrackOK, Covers, Role
  <2>4. NewTrain(1, s)
    BY <2>2, <2>3 DEF NewTrain, TrainInv, TrackOK
  <2>5. decided' = Heading /\ pc' = "enter"
    BY <1>6, <2>3, <2>4 DEF Heading, TrainInv, TrackOK
  <2>6. InStep'
    <3>1. location'[1] = PlaceAt(head - 1) /\ AtEdge
      BY <1>1, <1>2, <1>10 DEF TrainInv, InStep, train
    <3> QED
      BY <1>1, <1>2, <1>10, <2>2, <2>5, <3>1, TrainStands DEF InStep, train
  <2> QED
    BY <1>2, <1>10, <2>2, <2>6, TrainStands DEF TimerRestarted, FreeBehindTrain, train
<1>11. ASSUME OnRoute, head > 1 PROVE InStep' /\ TimerRestarted' /\ FreeBehindTrain'
  <2>1. length \in Nat /\ length > 0 /\ length % 2 = 1 /\ head \in Nat /\ head < 7 + length
    BY <1>11, TrackFacts DEF TrainInv, TrackOK, OnRoute, Gone
  <2>2. location[1] = PlaceAt(head - 1) /\ AtEdge
    BY <1>1, <1>11 DEF TrainInv, InStep
  <2>3. location[1] # "unoccupied"
    BY <2>1, <2>2, <1>11 DEF PlaceAt, Gone
  <2>4. direction[1] = Heading /\ Heading # "unknown"
    BY <1>1, <1>11, <2>3 DEF TrainInv, InStep, Heading
  <2>5. head >= 3 => debounce[1] = 0
    BY <2>1, <2>3 DEF TrainInv, DebounceOver
  <2>6. head >= 3 => moves = {to \in {PlaceAt(head)} : to # location[1]}
    <3>1. PlaceAt(head) \in Location
      BY <2>1 DEF PlaceAt, Location
    <3>2. \A to \in Location : Advances(Heading, s, location[1], to)
            <=> to = PlaceAt(head) /\ PlaceAt(head) # location[1]
      BY <1>4, <1>11, <2>2, Advance DEF TrainInv
    <3> QED
      BY <3>1, <3>2, <2>4, <2>5 DEF moves
  <2>7. head = 2 => moves = {} /\ PlaceAt(head) = location[1]
    <3> SUFFICES ASSUME head = 2 PROVE moves = {} /\ PlaceAt(head) = location[1]
      OBVIOUS
    <3>1. PlaceAt(head) = "pre_island" /\ PlaceAt(head - 1) = "pre_island"
      BY <2>1, Places DEF TrainInv
    <3>2. \A to \in Location : ~Advances(Heading, s, location[1], to)
      BY <1>4, <1>11, <2>2, <3>1, Advance DEF TrainInv
    <3> QED
      BY <3>1, <3>2, <2>2, <2>4 DEF moves
  <2>8. ~NewTrain(1, s)
    BY <2>3 DEF NewTrain
  <2>9. \/ PlaceAt(head) = location[1] /\ pc' = "refresh"
        \/ PlaceAt(head) # location[1] /\ pc' = "move" /\ decided' = PlaceAt(head)
    BY <1>6, <1>11, <2>1, <2>6, <2>7, <2>8
  <2>10. InStep'
    BY <1>1, <1>2, <1>11, <2>2, <2>3, <2>4, <2>9, TrainStands DEF InStep, train, Pending, Busy
  <2>11. pc' = "refresh" /\ head \in Marks => location[1] = "island" /\ on_island'
    <3> SUFFICES ASSUME pc' = "refresh", head \in Marks PROVE location[1] = "island" /\ on_island'
      OBVIOUS
    <3>1. PlaceAt(head) = PlaceAt(head - 1)
      BY <2>2, <2>9
    <3>2. 5 < head /\ head < 5 + length
      <4>1. \A n \in {3, 5, 5 + length} : PlaceAt(n) # PlaceAt(n - 1)
        BY <2>1, Places DEF TrainInv
      <4>2. head \notin {1, 3, 5, 5 + length}
        BY <3>1, <4>1, <1>11
      <4> QED
        BY <4>2, <2>1, <1>11 DEF Marks
    <3>3. location[1] = "island"
      BY <3>1, <3>2, <2>1, <2>2, Places DEF TrainInv
    <3>4. s[SecondIsland(Heading)]
      BY <3>2, <2>1, <1>4, SensorOrder DEF TrainInv, TrackOK, Covers
    <3>5. s["left_island"] \/ s["right_island"]
      BY <3>4 DEF SecondIsland
    <3> QED
      BY <1>6, <2>8, <3>3, <3>5
  <2>12. TimerRestarted'
    BY <1>1, <1>2, <1>3, <1>11, <2>9, <2>11, TrainStands DEF TrainInv, TimerRestarted, train
  <2> QED
    BY <1>11, <2>10, <2>12, TrainStands DEF FreeBehindTrain
<1>12. OnRoute => head = 1 \/ head > 1
  BY TrackFacts DEF TrainInv, TrackOK, OnRoute, Gone
<1> QED
  BY <1>3, <1>7, <1>8, <1>9, <1>10, <1>11, <1>12 DEF TrainInv

\* A train on the route has a place.
LEMMA PlaceTaken ==
    ASSUME TrackOK, OnRoute
    PROVE  PlaceAt(head) # "unoccupied" /\ (head > 1 => PlaceAt(head - 1) # "unoccupied")
<1>1. length \in Nat /\ length > 0 /\ head \in Nat /\ head < 7 + length /\ head > 0
  BY TrackFacts DEF TrackOK, OnRoute, Gone
<1> QED
  BY <1>1, Places DEF Gone

LEMMA StepEnterRoute ==
    ASSUME TypeOK, TypeOK', TrainInv, EnterRoute, UNCHANGED trackVars
    PROVE  TrainInv'
<1>1. cur = 1 /\ timeout[1] # 0 /\ pin_change_msgq = 0 /\ pc = "enter" /\ pc' = "heading"
        /\ Busy /\ OnRoute /\ head = 1 /\ dwell = 0 /\ AtEdge /\ decided = Heading
  BY TrackFacts DEF EnterRoute, MainAt, TypeOK, Busy, TrainInv, OneAtATime, InStep,
                    FreeBehindTrain, OnRoute, TrackOK, Gone
<1>2. UNCHANGED <<pin, current_pos, direction, timers, pin_change_msgq, cur, manual, decided>>
  BY DEF EnterRoute
<1>3. location'[1] = "pre_island" /\ debounce'[1] = Debounce
  BY <1>1, TrackFacts DEF EnterRoute, TypeOK
<1>4. TrackOK' /\ PinsFollowTrain' /\ \A n : RanSince(n)' <=> RanSince(n)
  BY <1>2, GateStands DEF timers
<1>5. PlaceAt(head) = "pre_island"
  BY <1>1, Places DEF TrainInv
<1>6. OneAtATime'
  BY <1>1, <1>2, TrainStands DEF TrainInv, OneAtATime, timers
<1>7. InStep'
  BY <1>1, <1>2, <1>3, <1>5, TrainStands DEF InStep, Pending
<1>8. DebounceOver'
  BY <1>1, <1>3, TrainStands, TrackFacts DEF DebounceOver
<1>9. TimerRestarted' /\ FreeBehindTrain'
  BY <1>1, TrainStands DEF TimerRestarted, FreeBehindTrain
<1> QED
  BY <1>4, <1>6, <1>7, <1>8, <1>9 DEF TrainInv

LEMMA StepSetHeading ==
    ASSUME TypeOK, TypeOK', TrainInv, SetHeading, UNCHANGED trackVars
    PROVE  TrainInv'
<1>1. cur = 1 /\ timeout[1] # 0 /\ pin_change_msgq = 0 /\ pc = "heading" /\ pc' = "start"
        /\ Busy /\ OnRoute /\ head = 1 /\ AtEdge /\ decided = Heading
  BY TrackFacts DEF SetHeading, MainAt, TypeOK, Busy, TrainInv, OneAtATime, InStep,
                    FreeBehindTrain, OnRoute, TrackOK, Gone
<1>2. UNCHANGED <<pin, current_pos, location, debounce, timers, pin_change_msgq, cur, manual, decided>>
  BY DEF SetHeading
<1>3. direction'[1] = Heading
  BY <1>1, TrackFacts DEF SetHeading, TypeOK
<1>4. TrackOK' /\ PinsFollowTrain' /\ \A n : RanSince(n)' <=> RanSince(n)
  BY <1>2, GateStands DEF timers
<1>5. OneAtATime'
  BY <1>1, <1>2, TrainStands DEF TrainInv, OneAtATime, timers
<1>6. InStep'
  BY <1>1, <1>2, <1>3, TrainStands DEF TrainInv, InStep, Pending
<1>7. DebounceOver'
  BY <1>2, TrainStands DEF TrainInv, DebounceOver
<1>8. TimerRestarted' /\ FreeBehindTrain'
  BY <1>1, TrainStands DEF TimerRestarted, FreeBehindTrain
<1> QED
  BY <1>4, <1>5, <1>6, <1>7, <1>8 DEF TrainInv

LEMMA StepMoveTrain ==
    ASSUME TypeOK, TypeOK', TrainInv, MoveTrain, UNCHANGED trackVars
    PROVE  TrainInv'
<1>1. cur = 1 /\ timeout[1] # 0 /\ pin_change_msgq = 0 /\ pc = "move" /\ Busy
        /\ (dwell = 0 \/ head = Gone)
  BY TrackFacts DEF MoveTrain, MainAt, TypeOK, Busy, TrainInv, OneAtATime
<1>2. UNCHANGED <<pin, current_pos, debounce, timeout, can_be_activated, pin_change_msgq,
                  cur, manual, decided>>
  BY DEF MoveTrain
<1>3. location'[1] = decided
  BY <1>1, TrackFacts DEF MoveTrain, TypeOK
<1>4. TrackOK' /\ PinsFollowTrain' /\ \A n : RanSince(n)' <=> RanSince(n)
  BY <1>2, GateStands
<1>5. CASE OnRoute
  <2>1. /\ head > 1 /\ decided = PlaceAt(head) /\ location[1] = PlaceAt(head - 1) /\ AtEdge
        /\ location[1] # "unoccupied" /\ decided # "unoccupied"
        /\ direction[1] = Heading
    BY <1>1, <1>5, PlaceTaken DEF TrainInv, InStep
  <2>2. pc' = "start" /\ UNCHANGED direction
    BY <2>1 DEF MoveTrain
  <2>3. OneAtATime'
    BY <1>1, <1>2, <2>2, TrainStands DEF TrainInv, OneAtATime
  <2>4. InStep'
    BY <1>2, <1>3, <2>1, <2>2, TrainStands DEF InStep, Pending
  <2>5. DebounceOver'
    BY <1>2, <2>1, TrainStands DEF TrainInv, DebounceOver
  <2>6. TimerRestarted' /\ FreeBehindTrain'
    BY <1>5, <2>2, TrainStands DEF TimerRestarted, FreeBehindTrain
  <2> QED
    BY <1>4, <2>3, <2>4, <2>5, <2>6 DEF TrainInv
<1>6. CASE ~OnRoute
  <2>1. decided = "unoccupied"
    BY <1>1, <1>6 DEF TrainInv, FreeBehindTrain, Pending
  <2>2. pc' = "refresh" /\ location'[1] = "unoccupied"
    BY <1>3, <2>1 DEF MoveTrain
  <2>3. OneAtATime'
    BY <1>1, <1>2, <2>2, TrainStands DEF TrainInv, OneAtATime
  <2>4. InStep' /\ DebounceOver' /\ TimerRestarted' /\ FreeBehindTrain'
    BY <1>6, <2>2, TrainStands DEF InStep, DebounceOver, TimerRestarted, FreeBehindTrain
  <2> QED
    BY <1>4, <2>3, <2>4 DEF TrainInv
<1> QED
  BY <1>5, <1>6

\* The timer does not clear the route of a train that is being moved.
LEMMA StepMoveMissed ==
    ASSUME TypeOK, TrainInv
    PROVE  ~MoveMissed
<1> SUFFICES ASSUME MoveMissed PROVE FALSE
  OBVIOUS
<1>1. pc = "move" /\ location[1] = "unoccupied"
  BY TrackFacts DEF MoveMissed, MainAt, TypeOK
<1>2. CASE OnRoute
  BY <1>1, <1>2, PlaceTaken DEF TrainInv, InStep
<1>3. CASE ~OnRoute
  BY <1>1, <1>3 DEF TrainInv, FreeBehindTrain
<1> QED
  BY <1>2, <1>3

LEMMA StepTrainSeen ==
    ASSUME Paced, TypeOK, TypeOK', TrainInv, TrainSeen, UNCHANGED trackVars
    PROVE  TrainInv'
<1>1. /\ cur = 1 /\ pin_change_msgq = 0 /\ pc = "start" /\ Busy /\ OnRoute /\ ~manual
      /\ (dwell = 0 \/ head = Gone) /\ Timeout > 0
  BY TrackFacts DEF TrainSeen, MainAt, TypeOK, Busy, TrainInv, OneAtATime, FreeBehindTrain,
                    TrackOK, Paced
<1>2. UNCHANGED <<pin, current_pos, train, can_be_activated, pin_change_msgq>> /\ manual' = FALSE
  BY DEF TrainSeen
<1>3. timeout'[1] = Timeout /\ pc' \in {"refresh", "flash"}
  BY <1>1, TrackFacts DEF TrainSeen, StartRouteTimer, TypeOK, NextRoute
<1>4. TrackOK' /\ PinsFollowTrain'
  BY <1>2, GateStands
<1>5. OneAtATime'
  BY <1>1, <1>2, <1>3, TrainStands DEF OneAtATime
<1>6. InStep'
  BY <1>1, <1>2, <1>3, TrainStands DEF TrainInv, InStep, Pending, train
<1>7. DebounceOver'
  BY <1>2, TrainStands DEF TrainInv, DebounceOver, train
<1>8. TimerRestarted'
  BY <1>3, Restarted, TrainStands DEF TimerRestarted
<1>9. FreeBehindTrain'
  BY <1>1, TrainStands DEF FreeBehindTrain
<1> QED
  BY <1>4, <1>5, <1>6, <1>7, <1>8, <1>9 DEF TrainInv

LEMMA StepCheckIsland ==
    ASSUME TypeOK, TypeOK', TrainInv, CheckIsland, UNCHANGED trackVars
    PROVE  TrainInv'
<1>1. /\ cur = 1 /\ pin_change_msgq = 0 /\ pc = "refresh" /\ Busy /\ timeout[1] # 0
      /\ (dwell = 0 \/ head = Gone)
  BY TrackFacts DEF CheckIsland, MainAt, TypeOK, Busy, TrainInv, OneAtATime
<1>2. UNCHANGED <<pin, current_pos, train, timers, pin_change_msgq, manual>>
  BY DEF CheckIsland
<1>3. pc' = IF location[1] = "island" /\ on_island THEN "restart" ELSE "flash"
  BY <1>1, TrackFacts DEF CheckIsland, NextRoute
<1>4. TrackOK' /\ PinsFollowTrain' /\ \A n : RanSince(n)' <=> RanSince(n)
  BY <1>2, GateStands DEF timers
<1>5. OneAtATime'
  BY <1>1, <1>2, <1>3, TrainStands DEF OneAtATime, timers
<1>6. InStep'
  BY <1>1, <1>2, <1>3, TrainStands DEF TrainInv, InStep, Pending, train
<1>7. DebounceOver'
  BY <1>2, TrainStands DEF TrainInv, DebounceOver, train
<1>8. TimerRestarted'
  BY <1>1, <1>2, <1>3, <1>4, TrainStands DEF TrainInv, TimerRestarted, train, Pending
<1>9. FreeBehindTrain'
  BY <1>1, <1>2, <1>3, TrainStands DEF TrainInv, FreeBehindTrain, train, timers, Pending, Busy
<1> QED
  BY <1>4, <1>5, <1>6, <1>7, <1>8, <1>9 DEF TrainInv

LEMMA StepRefreshTimer ==
    ASSUME Paced, TypeOK, TypeOK', TrainInv, RefreshTimer, UNCHANGED trackVars
    PROVE  TrainInv'
<1>1. /\ cur = 1 /\ pin_change_msgq = 0 /\ pc = "restart" /\ Busy /\ OnRoute
      /\ (dwell = 0 \/ head = Gone) /\ Timeout > 0
  BY TrackFacts DEF RefreshTimer, MainAt, TypeOK, Busy, TrainInv, OneAtATime, FreeBehindTrain,
                    Paced
<1>2. UNCHANGED <<pin, current_pos, train, can_be_activated, pin_change_msgq, manual>>
  BY DEF RefreshTimer
<1>3. timeout'[1] = Timeout /\ pc' = "flash"
  BY <1>1, TrackFacts DEF RefreshTimer, StartRouteTimer, TypeOK, NextRoute
<1>4. TrackOK' /\ PinsFollowTrain'
  BY <1>2, GateStands
<1>5. OneAtATime'
  BY <1>1, <1>2, <1>3, TrainStands DEF OneAtATime
<1>6. InStep'
  BY <1>1, <1>2, <1>3, TrainStands DEF TrainInv, InStep, Pending, train
<1>7. DebounceOver'
  BY <1>2, TrainStands DEF TrainInv, DebounceOver, train
<1>8. TimerRestarted'
  BY <1>3, Restarted, TrainStands DEF TimerRestarted
<1>9. FreeBehindTrain'
  BY <1>1, TrainStands DEF FreeBehindTrain
<1> QED
  BY <1>4, <1>5, <1>6, <1>7, <1>8, <1>9 DEF TrainInv

\* The scan and the arms change nothing the tracker knows.
LEMMA StepFlash ==
    ASSUME TypeOK, TypeOK', TrainInv, ScanRoutes \/ SetFlash, UNCHANGED trackVars
    PROVE  TrainInv'
<1>1. /\ pin_change_msgq = 0 /\ pc \in {"flash", "arms"} /\ Busy /\ timeout[1] # 0
      /\ (dwell = 0 \/ head = Gone)
  BY TrackFacts DEF ScanRoutes, SetFlash, MainAt, Busy, TrainInv, OneAtATime
<1>2. UNCHANGED <<pin, current_pos, train, timers, pin_change_msgq, manual>>
        /\ pc' \in {"arms", "poll"}
  BY DEF ScanRoutes, SetFlash
<1>3. TrackOK' /\ PinsFollowTrain' /\ \A n : RanSince(n)' <=> RanSince(n)
  BY <1>2, GateStands DEF timers
<1>4. OneAtATime'
  BY <1>1, <1>2, TrainStands DEF OneAtATime, timers, Busy
<1>5. InStep'
  BY <1>1, <1>2, TrainStands DEF TrainInv, InStep, Pending, Busy, train
<1>6. DebounceOver'
  BY <1>2, TrainStands DEF TrainInv, DebounceOver, train
<1>7. TimerRestarted'
  BY <1>1, <1>2, <1>3, TrainStands DEF TrainInv, TimerRestarted, train, Pending
<1>8. FreeBehindTrain'
  BY <1>1, <1>2, TrainStands DEF TrainInv, FreeBehindTrain, train, timers, Pending, Busy
<1> QED
  BY <1>3, <1>4, <1>5, <1>6, <1>7, <1>8 DEF TrainInv

\* All that the main thread does.
LEMMA StepMain ==
    ASSUME Paced, TypeOK, TypeOK', TrainInv, Main, UNCHANGED trackVars
    PROVE  TrainInv'
  BY StepPollPinChange, StepHandleRoute, StepEnterRoute, StepSetHeading, StepMoveTrain,
     StepMoveMissed, StepTrainSeen, StepCheckIsland, StepRefreshTimer, StepFlash DEF Main

-------------------------------------------------------------------------------
(* The timers, the train and time. *)

\* The timer gives up only a route whose train has left it.
LEMMA StepTimerExpired ==
    ASSUME Paced, TypeOK, TypeOK', TrainInv, TimerExpired(1), UNCHANGED trackVars
    PROVE  TrainInv'
<1>1. timeout[1] = 0 /\ timeout'[1] = -1 /\ pc = "poll" /\ pc' = "poll"
  BY TrackFacts DEF TimerExpired, local, TypeOK, TrainInv, OneAtATime
<1>2. UNCHANGED <<pin, debounce, can_be_activated, manual, cur, decided, on_island>>
  BY DEF TimerExpired, local
<1>3. TrackOK' /\ PinsFollowTrain'
  BY <1>2, GateStands
<1>4. CASE location[1] = "unoccupied"
  <2>1. UNCHANGED <<location, direction, pin_change_msgq>>
    BY <1>4 DEF TimerExpired
  <2>2. OneAtATime'
    BY <1>1, <2>1, TrainStands DEF TrainInv, OneAtATime, Busy
  <2>3. InStep'
    BY <1>1, <1>2, <2>1, TrainStands DEF TrainInv, InStep, Pending, Busy
  <2>4. DebounceOver' /\ TimerRestarted'
    BY <1>4, <2>1 DEF DebounceOver, TimerRestarted
  <2>5. FreeBehindTrain'
    BY <1>1, <1>4, <2>1 DEF FreeBehindTrain
  <2> QED
    BY <1>3, <2>2, <2>3, <2>4, <2>5 DEF TrainInv
<1>5. CASE location[1] # "unoccupied"
  <2>1. ~OnRoute
    BY <1>1, <1>5, TimerOutlasts
  <2>2. ~Busy /\ pin_change_msgq = 0
    BY <1>1, <1>5, <2>1 DEF TrainInv, FreeBehindTrain, OneAtATime, Busy, TypeOK
  <2>3. location'[1] = "unoccupied" /\ pin_change_msgq' = 1
    BY <1>5, <2>2, TrackFacts, GateAssumption DEF TimerExpired, TypeOK, Put, GateAssumption
  <2>4. dwell = 0 \/ head = Gone
    BY <1>1, <1>5, <2>1, <2>2 DEF TrainInv, FreeBehindTrain, Pending, Busy
  <2>5. OneAtATime'
    BY <1>1, <2>3, <2>4, TrainStands DEF OneAtATime
  <2>6. InStep' /\ DebounceOver' /\ TimerRestarted'
    BY <2>1, <2>3, TrainStands DEF InStep, DebounceOver, TimerRestarted
  <2>7. FreeBehindTrain'
    BY <1>1, <2>3 DEF FreeBehindTrain
  <2> QED
    BY <1>3, <2>5, <2>6, <2>7 DEF TrainInv
<1> QED
  BY <1>4, <1>5

LEMMA StepReactivationExpired ==
    ASSUME TypeOK, TypeOK', TrainInv, ReactivationExpired(1), UNCHANGED trackVars
    PROVE  TrainInv'
<1>1. UNCHANGED <<pin, train, timeout, pin_change_msgq, pc, cur, manual, decided, on_island>>
        /\ can_be_activated'[1]
  BY TrackFacts DEF ReactivationExpired, local, TypeOK
<1>2. TrackOK' /\ PinsFollowTrain'
  BY <1>1, TrainStands DEF TrainInv, TrackOK, PinsFollowTrain
<1>3. \A n : RanSince(n)' <=> RanSince(n)
  BY <1>1, TrainStands DEF RanSince
<1>4. OneAtATime'
  BY <1>1, TrainStands DEF TrainInv, OneAtATime, Busy
<1>5. InStep'
  BY <1>1, TrainStands DEF TrainInv, InStep, Pending, Busy, train
<1>6. DebounceOver'
  BY <1>1, TrainStands DEF TrainInv, DebounceOver, train
<1>7. TimerRestarted'
  BY <1>1, <1>3, TrainStands DEF TrainInv, TimerRestarted, train, Pending
<1>8. FreeBehindTrain'
  BY <1>1, TrainStands DEF TrainInv, FreeBehindTrain, train, Pending, Busy
<1> QED
  BY <1>2, <1>4, <1>5, <1>6, <1>7, <1>8 DEF TrainInv

\* The next train comes to a route that is free, or is being freed.
LEMMA StepNextTrain ==
    ASSUME Paced, TypeOK, TypeOK', OccupiedRouteTimesOut, TrainInv, NextTrain
    PROVE  TrainInv'
<1>1. /\ head = Gone /\ ~OnRoute /\ length' \in Lengths /\ head' = 0 /\ dwell' = 0
      /\ from' \in {"left", "right"} /\ head >= 8
  BY TrackFacts DEF NextTrain, OnRoute, TrainInv, TrackOK, Gone
<1>2. UNCHANGED <<pin, train, timers, pin_change_msgq, pc, cur, manual, decided, on_island>>
  BY DEF NextTrain, vars, local
<1>3. ~OnRoute' /\ Gone' \in Nat /\ head' # Gone'
  BY <1>1, TrackFacts DEF OnRoute, Gone
<1>4. TrackOK'
  BY <1>1, <1>2, <1>3, TrackFacts DEF TrainInv, TrackOK, timers, OnRoute
<1>5. PinsFollowTrain'
  <2>1. \A a \in Role : ~Covers(Position(a))
    BY <1>1, SensorOrder, TrackFacts DEF TrainInv, TrackOK, Covers, Gone
  <2>2. \A a \in Role : Position(a)' \in {1, 3, 5, 7}
    BY <1>1 DEF Position, Ahead, Astern, Role
  <2>3. \A a \in Role : ~Covers(Position(a))'
    BY <1>1, <2>2 DEF Covers
  <2> QED
    BY <1>2, <2>1, <2>3 DEF TrainInv, PinsFollowTrain
<1>6. OneAtATime'
  BY <1>1, <1>2 DEF TrainInv, OneAtATime, timers
<1>7. InStep' /\ TimerRestarted'
  BY <1>3 DEF InStep, TimerRestarted
<1>8. DebounceOver'
  BY <1>1, <1>2 DEF TrainInv, DebounceOver, train
<1>9. FreeBehindTrain'
  <2>1. (Pending' <=> Pending) /\ (Busy' <=> Busy)
    BY <1>2 DEF Pending, Busy
  <2>2. CASE location[1] = "post_incoming"
    <3>1. Overhangs /\ pc # "move" /\ timeout[1] + dwell <= Timeout /\ (Busy => dwell = 0)
      BY <1>1, <2>2, TrackFacts DEF TrainInv, FreeBehindTrain, OnRoute
    <3>2. dwell >= Headway
      BY <3>1 DEF NextTrain
    <3>3. dwell > 0 /\ timeout[1] <= 0
      BY <3>1, <3>2, TrackFacts DEF Paced, TrainInv, TrackOK, TypeOK
    <3>4. ~Busy /\ pc = "poll"
      BY <3>1, <3>3 DEF Busy
    <3>5. timeout[1] = 0
      BY <2>2, <3>3, <3>4, TrackFacts DEF OccupiedRouteTimesOut, TypeOK
    <3> QED
      BY <1>1, <1>2, <2>1, <2>2, <3>4, <3>5 DEF FreeBehindTrain, train, timers
  <2>3. CASE location[1] # "post_incoming"
    BY <1>1, <1>2, <1>3, <2>1, <2>3 DEF TrainInv, FreeBehindTrain, train, timers
  <2> QED
    BY <2>2, <2>3
<1> QED
  BY <1>4, <1>5, <1>6, <1>7, <1>8, <1>9 DEF TrainInv

LEMMA StepTimePasses ==
    ASSUME Paced, TypeOK, TypeOK', OccupiedRouteTimesOut, TrainInv, TimePasses
    PROVE  TrainInv'
<1>1. pc = "poll" /\ pin_change_msgq = 0 /\ timeout[1] # 0 /\ ~Busy /\ ~Pending
  BY TrackFacts DEF TimePasses, Quiet, MainAt, Busy, Pending
<1>2. UNCHANGED <<pin, location, direction, can_be_activated, pin_change_msgq,
                  pc, cur, manual, decided, on_island>>
  BY DEF TimePasses, Tick, local
<1>3. /\ timeout[1] \in Int /\ debounce[1] \in Nat
      /\ timeout'[1] = IF timeout[1] > 0 THEN timeout[1] - 1 ELSE timeout[1]
      /\ debounce'[1] = IF debounce[1] > 0 THEN debounce[1] - 1 ELSE debounce[1]
  BY TrackFacts DEF TimePasses, Tick, CountDown, TypeOK
<1>4. /\ length' = length /\ head' = head /\ from' = from
      /\ head \in Nat /\ dwell \in Nat /\ Gone \in Nat
      /\ OnRoute => dwell < MaxStay /\ dwell' = dwell + 1
      /\ dwell' \in 0 .. MaxStay + Headway /\ dwell' \in {dwell, dwell + 1}
  BY TrackFacts DEF TimePasses, TrainInv, TrackOK, Gone, OnRoute
<1>5. /\ Gone' = Gone /\ Heading' = Heading /\ Marks' = Marks
      /\ (OnRoute' <=> OnRoute) /\ (AtEdge' <=> AtEdge) /\ (Overhangs' <=> Overhangs)
      /\ \A n : PlaceAt(n)' = PlaceAt(n)
      /\ \A a \in Role : Covers(Position(a))' <=> Covers(Position(a))
  BY <1>4 DEF Gone, Heading, Marks, OnRoute, AtEdge, Overhangs, PlaceAt, Covers, Position
<1>6. (Busy' <=> Busy) /\ (Pending' <=> Pending)
  BY <1>2 DEF Busy, Pending
<1>7. TrackOK'
  BY <1>2, <1>4, <1>5, TrackFacts DEF TrainInv, TrackOK
<1>8. PinsFollowTrain'
  BY <1>2, <1>5 DEF TrainInv, PinsFollowTrain
<1>9. OneAtATime'
  BY <1>1, <1>2, <1>6 DEF OneAtATime
<1>10. InStep'
  BY <1>1, <1>2, <1>4, <1>5, <1>6 DEF TrainInv, InStep
<1>11. DebounceOver'
  <2> SUFFICES ASSUME location[1] # "unoccupied", debounce[1] > 0
               PROVE  DebounceOver'
    BY <1>2, <1>3 DEF DebounceOver
  <2>1. \/ head = 1 /\ debounce[1] + dwell <= Debounce
        \/ head = 2 /\ debounce[1] + MinStay + dwell <= Debounce
    BY DEF TrainInv, DebounceOver
  <2>2. OnRoute
    BY <2>1, TrackFacts DEF TrainInv, TrackOK, OnRoute, Gone
  <2> QED
    BY <1>3, <1>4, <2>1, <2>2, TrackFacts DEF DebounceOver
<1>12. TimerRestarted'
  <2> SUFFICES ASSUME OnRoute, location[1] # "unoccupied", NEW n \in Marks, n < head \/ n = head
               PROVE  RanSince(n)'
    BY <1>2, <1>4, <1>5 DEF TimerRestarted
  <2>1. RanSince(n)
    BY <1>1 DEF TrainInv, TimerRestarted
  <2>2. timeout[1] > 0
    BY <1>1, TimerOutlasts
  <2>3. n \in Int
    BY <1>4 DEF Marks, Gone, TrainInv, TrackOK
  <2>4. (head - n) * MaxStay \in Int
    BY <2>3, <1>4, TrackFacts
  <2> QED
    BY <1>3, <1>4, <2>1, <2>2, <2>4, TrackFacts DEF RanSince
<1>13. FreeBehindTrain'
  <2> SUFFICES ASSUME ~OnRoute, location[1] # "unoccupied" PROVE FreeBehindTrain'
    BY <1>1, <1>2, <1>5 DEF FreeBehindTrain
  <2>1. timeout[1] > 0
    BY <1>1, <1>3, TrackFacts DEF OccupiedRouteTimesOut
  <2>2. location[1] = "post_incoming" /\ head = Gone /\ Overhangs /\ timeout[1] + dwell <= Timeout
    BY <1>1, <2>1 DEF TrainInv, FreeBehindTrain
  <2> QED
    BY <1>1, <1>2, <1>3, <1>4, <1>5, <1>6, <2>1, <2>2, TrackFacts DEF FreeBehindTrain
<1> QED
  BY <1>7, <1>8, <1>9, <1>10, <1>11, <1>12, <1>13 DEF TrainInv

\* As a train moves on, the sensor its head reaches or its tail leaves changes,
\* and no other; it is then at an edge.
LEMMA Edges ==
    ASSUME TypeOK, TrackOK, PinsFollowTrain, MoveOn
    PROVE  /\ PinsFollowTrain'
           /\ \/ UNCHANGED vars /\ ~AtEdge'
              \/ AtEdge' /\ \E i \in Input : InputChange(i)
<1> DEFINE changed == {role \in Role :
                         Position(role) = head + 1 \/ Position(role) = head + 1 - length}
<1>1. /\ head' = head + 1 /\ length' = length /\ from' = from
      /\ head \in Nat /\ length \in Nat /\ length % 2 = 1
      /\ IF changed = {} THEN UNCHANGED vars
         ELSE \E a \in changed : InputChange(Sensor[1][a])
  BY TrackFacts DEF MoveOn, TrackOK, Gone
<1>2. /\ \A a \in Role : Position(a) \in {1, 3, 5, 7}
      /\ \A a, b \in Role : Position(a) = Position(b) => a = b
      /\ \A a \in Role : Position(a)' = Position(a)
      /\ \A n \in {1, 3, 5, 7} : \E a \in Role : Position(a) = n
  <2>1. \A n \in {1, 3, 5, 7} : \E a \in Role : Position(a) = n
    BY DEF TrackOK, Position, Ahead, Astern, Role
  <2> QED
    BY <1>1, <2>1, SensorOrder DEF TrackOK, Position
<1>3. AtEdge' <=> changed # {}
  BY <1>1, <1>2 DEF AtEdge
<1>4. \A a \in Role : Covers(Position(a))' <=> (Position(a) <= head + 1 /\ head + 1 - length < Position(a))
  BY <1>1, <1>2 DEF Covers
<1>5. CASE changed = {}
  <2>1. \A a \in Role : Covers(Position(a))' <=> Covers(Position(a))
    BY <1>1, <1>2, <1>4, <1>5 DEF Covers
  <2>2. UNCHANGED pin
    BY <1>1, <1>5 DEF vars
  <2> QED
    BY <1>1, <1>3, <1>5, <2>1, <2>2 DEF PinsFollowTrain
<1>6. CASE changed # {}
  <2>1. PICK a \in changed : InputChange(Sensor[1][a])
    BY <1>1, <1>6
  <2>2. Sensor[1][a] \in Input /\ pin \in [Input -> BOOLEAN]
    BY <2>1, TrackFacts DEF TypeOK
  <2>3. pin' = [pin EXCEPT ![Sensor[1][a]] = ~@]
    BY <2>1 DEF InputChange
  <2>4. \A b \in Role \ {a} : b \notin changed
    <3> SUFFICES ASSUME NEW b \in Role \ {a}, b \in changed PROVE FALSE
      OBVIOUS
    <3>1. Position(a) # Position(b) /\ Position(a) \in {1, 3, 5, 7} /\ Position(b) \in {1, 3, 5, 7}
      BY <1>2, <2>1
    <3>2. Position(a) - Position(b) \in {length, -length}
      BY <1>1, <2>1, <3>1
    <3> QED
      BY <1>1, <3>1, <3>2
  <2>5. Covers(Position(a))' <=> ~Covers(Position(a))
    <3>1. Position(a) \in {1, 3, 5, 7} /\ Position(a) \in {head + 1, head + 1 - length} /\ length > 0
      BY <1>1, <1>2, <2>1
    <3> QED
      BY <1>1, <1>4, <2>1, <3>1 DEF Covers
  <2>6. \A b \in Role \ {a} : Covers(Position(b))' <=> Covers(Position(b))
    BY <1>1, <1>2, <1>4, <2>4 DEF Covers
  <2>7. PinsFollowTrain'
    <3> SUFFICES ASSUME NEW b \in Role
                 PROVE  pin'[Sensor[1][b]] <=> Covers(Position(b))'
      BY DEF PinsFollowTrain
    <3>1. CASE b = a
      BY <2>2, <2>3, <2>5, <3>1 DEF PinsFollowTrain
    <3>2. CASE b # a
      BY <2>1, <2>2, <2>3, <2>6, <3>2, TrackFacts DEF PinsFollowTrain
    <3> QED
      BY <3>1, <3>2
  <2> QED
    BY <1>3, <1>6, <2>1, <2>2, <2>7
<1> QED
  BY <1>5, <1>6

\* Away from an edge nothing is due: the place is the same, and no mark is there.
LEMMA OffEdge ==
    ASSUME TrackOK, OnRoute, ~(head + 1 \in {1, 3, 5, 7} \/ head + 1 - length \in {1, 3, 5, 7})
    PROVE  PlaceAt(head + 1) = PlaceAt(head) /\ head + 1 \notin Marks
<1>1. length \in Nat /\ length > 0 /\ length % 2 = 1 /\ head \in Nat /\ head > 0 /\ head < 7 + length
        /\ (Overhangs <=> length # 1)
  BY TrackFacts DEF TrackOK, OnRoute, Gone, Overhangs
<1>2. head + 1 \notin {1, 3, 5, 7, 1 + length, 3 + length, 5 + length, 7 + length}
  BY <1>1
<1>3. head + 1 \notin Marks
  BY <1>2 DEF Marks
<1>4. ASSUME head + 1 < 5 + length PROVE PlaceAt(head + 1) = PlaceAt(head)
  BY <1>1, <1>2, <1>4, Places
<1>5. ASSUME head + 1 > 5 + length PROVE PlaceAt(head + 1) = PlaceAt(head)
  BY <1>1, <1>2, <1>5, Places
<1> QED
  BY <1>1, <1>2, <1>3, <1>4, <1>5

LEMMA StepMoveOn ==
    ASSUME Paced, TypeOK, TypeOK', TrainInv, MoveOn
    PROVE  TrainInv'
<1>1. /\ head < Gone /\ dwell >= MinStay /\ head' = head + 1 /\ dwell' = 0
      /\ length' = length /\ from' = from
      /\ head \in Nat /\ length \in Nat /\ length > 0 /\ length % 2 = 1 /\ length \in Lengths
      /\ dwell \in Nat /\ dwell > 0 /\ Gone = 7 + length
  BY TrackFacts DEF MoveOn, Paced, TrainInv, TrackOK, Gone
<1>2. Gone' = Gone /\ Heading' = Heading /\ Marks' = Marks /\ (Overhangs' <=> Overhangs)
        /\ \A n : PlaceAt(n)' = PlaceAt(n)
  BY <1>1 DEF Gone, Heading, Marks, Overhangs, PlaceAt
<1>3. pc = "poll" /\ pin_change_msgq = 0 /\ ~Busy /\ ~Pending
  BY <1>1 DEF TrainInv, OneAtATime, Busy, TypeOK, Pending
<1>4. PinsFollowTrain'
        /\ \/ UNCHANGED vars /\ ~AtEdge'
           \/ AtEdge' /\ \E i \in Input : InputChange(i)
  BY Edges DEF TrainInv
<1>5. UNCHANGED <<train, timeout, can_be_activated, pc, cur, manual, decided, on_island>>
  BY <1>4 DEF vars, timers, local, InputChange
<1>6. \/ pin_change_msgq' = 0 /\ ~AtEdge' /\ ~Pending'
      \/ pin_change_msgq' = 1 /\ AtEdge' /\ Pending'
  <2>1. CASE UNCHANGED vars /\ ~AtEdge'
    BY <1>3, <2>1 DEF vars, local, Pending
  <2>2. CASE AtEdge' /\ \E i \in Input : InputChange(i)
    <3>1. pin_change_msgq' = 1 /\ pc' = "poll"
      BY <1>3, <2>2, GateAssumption DEF InputChange, Put, GateAssumption, local
    <3> QED
      BY <2>2, <3>1 DEF Pending
  <2> QED
    BY <1>4, <2>1, <2>2
<1>7. TrackOK'
  BY <1>1, <1>2, <1>5, TrackFacts DEF TrainInv, TrackOK, OnRoute
<1>8. OneAtATime'
  BY <1>1, <1>3, <1>5, <1>6 DEF OneAtATime
<1>9. /\ AtEdge' <=> (head + 1 \in {1, 3, 5, 7} \/ head + 1 - length \in {1, 3, 5, 7})
      /\ OnRoute' <=> head + 1 < Gone
      /\ OnRoute <=> head > 0
  BY <1>1, <1>2 DEF AtEdge, OnRoute
<1>10. location[1] = PlaceAt(head)
  <2>1. CASE OnRoute
    BY <1>3, <2>1 DEF TrainInv, InStep
  <2>2. CASE ~OnRoute
    <3>1. head = 0 /\ head # Gone
      BY <1>1, <1>9, <2>2
    <3>2. location[1] = "unoccupied"
      BY <1>1, <1>3, <2>2, <3>1 DEF TrainInv, FreeBehindTrain
    <3> QED
      BY <3>1, <3>2, Places DEF TrainInv
  <2> QED
    BY <2>1, <2>2
<1>11. ~AtEdge' => OnRoute /\ PlaceAt(head + 1) = PlaceAt(head) /\ head + 1 \notin Marks
  BY <1>1, <1>9, OffEdge DEF TrainInv
<1>12. location[1] # "unoccupied" => OnRoute
  BY <1>1, <1>9, <1>10, Places DEF TrainInv
<1>13. InStep'
  <2> SUFFICES ASSUME OnRoute' PROVE InStep'
    BY DEF InStep
  <2>1. location[1] # "unoccupied" => direction[1] = Heading
    BY <1>3, <1>12 DEF TrainInv, InStep
  <2>2. pc' = "poll" /\ head' - 1 = head /\ (Busy' => AtEdge')
    BY <1>1, <1>3, <1>5, <1>6 DEF Busy
  <2> QED
    BY <1>1, <1>2, <1>5, <1>6, <1>10, <1>11, <2>1, <2>2 DEF InStep, train
<1>14. DebounceOver'
  <2> SUFFICES ASSUME location[1] # "unoccupied", debounce[1] # 0 PROVE DebounceOver'
    BY <1>5 DEF DebounceOver, train
  <2>1. \/ head = 1 /\ debounce[1] + dwell <= Debounce
        \/ head = 2 /\ debounce[1] + MinStay + dwell <= Debounce
    BY DEF TrainInv, DebounceOver
  <2>2. debounce[1] \in Nat
    BY TrackFacts DEF TypeOK
  <2> QED
    BY <1>1, <1>5, <2>1, <2>2, TrackFacts DEF DebounceOver, Paced, train
<1>15. TimerRestarted'
  <2> SUFFICES ASSUME OnRoute', location[1] # "unoccupied", NEW n \in Marks
               PROVE  /\ n < head + 1 => RanSince(n)'
                      /\ n = head + 1 => Pending'
    BY <1>1, <1>2, <1>5 DEF TimerRestarted, train
  <2>1. n = head + 1 => Pending'
    BY <1>6, <1>11
  <2>2. n \in Int
    BY <1>1 DEF Marks
  <2>3. ASSUME n < head + 1 PROVE RanSince(n)'
    <3>1. n < head \/ n = head
      BY <1>1, <2>2, <2>3
    <3>2. RanSince(n)
      BY <1>3, <1>12, <3>1 DEF TrainInv, TimerRestarted
    <3>3. dwell <= MaxStay /\ timeout[1] \in Int
      BY <1>12, TrackFacts DEF TrainInv, TrackOK, TypeOK
    <3>4. (head + 1 - n) * MaxStay = (head - n) * MaxStay + MaxStay /\ (head - n) * MaxStay \in Int
      BY <1>1, <2>2, TrackFacts
    <3>5. head' = head + 1 /\ dwell' = 0 /\ timeout'[1] = timeout[1]
      BY <1>1, <1>5
    <3>6. timeout'[1] + (head' - n) * MaxStay + dwell' >= Timeout
      <4>1. (head' - n) * MaxStay = (head - n) * MaxStay + MaxStay
        BY <1>1, <2>2, <3>4, <3>5, TrackFacts
      <4>2. timeout[1] + (head - n) * MaxStay + dwell >= Timeout
        BY <3>2 DEF RanSince
      <4> QED
        BY <1>1, <3>3, <3>4, <3>5, <4>1, <4>2, TrackFacts
    <3> QED
      BY <3>6 DEF RanSince
  <2> QED
    BY <2>1, <2>3
<1>16. FreeBehindTrain'
  <2> SUFFICES ASSUME ~OnRoute' PROVE FreeBehindTrain'
    BY DEF FreeBehindTrain
  <2>1. OnRoute /\ head + 1 = Gone /\ AtEdge' /\ Pending' /\ pin_change_msgq' = 1
    BY <1>1, <1>6, <1>9
  <2>2. location[1] = IF Overhangs THEN "post_incoming" ELSE "post"
    BY <1>1, <1>10, <2>1, Places DEF TrainInv, Overhangs
  <2>3. timeout[1] > 0 /\ timeout[1] <= Timeout /\ timeout[1] \in Int
    BY <1>3, <2>1, <2>2, TimerOutlasts, TrackFacts DEF TypeOK
  <2>4. direction[1] # "unknown"
    BY <1>3, <2>1, <2>2 DEF TrainInv, InStep, Heading
  <2>5. pc' = "poll" /\ location'[1] = location[1] /\ direction'[1] = direction[1]
          /\ timeout'[1] = timeout[1] /\ head' = Gone' /\ dwell' = 0
          /\ timeout'[1] + dwell' <= Timeout
    BY <1>1, <1>2, <1>3, <1>5, <2>1, <2>3, TrackFacts DEF train
  <2> QED
    BY <1>2, <2>1, <2>2, <2>3, <2>4, <2>5 DEF FreeBehindTrain
<1> QED
  BY <1>4, <1>7, <1>8, <1>13, <1>14, <1>15, <1>16 DEF TrainInv

-------------------------------------------------------------------------------
(* The theorems. *)

LEMMA InitTrain == TrainInit => TrainInv
<1> SUFFICES ASSUME TrainInit PROVE TrainInv
  OBVIOUS
<1>1. length \in Lengths /\ head = 0 /\ from \in {"left", "right"} /\ dwell = 0 /\ Gone \in Nat
  BY TrackFacts DEF TrainInit, Gone
<1>2. /\ pc = "poll" /\ pin_change_msgq = 0 /\ ~manual
      /\ location[1] = "unoccupied" /\ can_be_activated[1]
      /\ \A a \in Role : ~pin[Sensor[1][a]]
  BY TrackFacts DEF TrainInit, Init
<1>3. TrackOK
  BY <1>1, <1>2, TrackFacts DEF TrackOK, OnRoute
<1>4. PinsFollowTrain
  BY <1>1, <1>2, SensorOrder DEF PinsFollowTrain, Covers
<1>5. OneAtATime /\ InStep /\ DebounceOver /\ TimerRestarted /\ FreeBehindTrain
  BY <1>1, <1>2 DEF OneAtATime, Busy, InStep, DebounceOver, TimerRestarted, FreeBehindTrain, OnRoute
<1> QED
  BY <1>3, <1>4, <1>5 DEF TrainInv

LEMMA NextTrainInv ==
    ASSUME Paced, TypeOK, TypeOK', OccupiedRouteTimesOut, TrainInv, [TrainNext]_trainVars
    PROVE  TrainInv'
<1>1. CASE Main /\ UNCHANGED trackVars
  BY <1>1, StepMain
<1>2. CASE (\E r \in Routes : TimerExpired(r) \/ ReactivationExpired(r)) /\ UNCHANGED trackVars
  BY <1>2, TrackFacts, StepTimerExpired, StepReactivationExpired
<1>3. CASE MoveOn
  BY <1>3, StepMoveOn
<1>4. CASE NextTrain
  BY <1>4, StepNextTrain
<1>5. CASE TimePasses
  BY <1>5, StepTimePasses
<1>6. CASE UNCHANGED trainVars
  BY <1>6 DEF trainVars, vars, trackVars, train, timers, local, gates, TrainInv, TrackOK,
     PinsFollowTrain, OneAtATime, InStep, DebounceOver, TimerRestarted, FreeBehindTrain, OnRoute,
     Gone, Busy, Pending, Position, Covers, AtEdge, PlaceAt, Heading, RanSince, Marks, Overhangs
<1> QED
  BY <1>1, <1>2, <1>3, <1>4, <1>5, <1>6 DEF TrainNext

\* As long as the timer and the debounce fit the pace of the trains, the tracker
\* follows every train edge by edge, its timer never expires on one that is on
\* the route, and the route is free again before the next.
THEOREM TrackerFollowsTrain ==
    ASSUME Paced
    PROVE  TrainSpec => [](GateInv /\ TrainInv)
<1>1. TrainSpec => []GateInv
  BY TrainsAreInputs, GateInvariant, PTL
<1>2. GateInv => TypeOK /\ OccupiedRouteTimesOut
  BY DEF GateInv
<1>3. TrainInit => TrainInv
  BY InitTrain
<1>4. GateInv /\ GateInv' /\ TrainInv /\ [TrainNext]_trainVars => TrainInv'
  BY NextTrainInv DEF GateInv
<1> QED
  BY <1>1, <1>3, <1>4, PTL DEF TrainSpec, trainVars

\* The main thread waits and no interrupt is due: the tracker knows the place.
LEMMA QuietFacts ==
    ASSUME GateInv, TrainInv, Quiet
    PROVE  /\ arms = IF OccupiedForFlash(1) THEN "lowered" ELSE "raised"
           /\ OnRoute => location[1] = PlaceAt(head)
           /\ ~OnRoute => location[1] \in {"unoccupied", "post_incoming"}
           /\ head = Gone /\ ~Overhangs => location[1] = "unoccupied"
<1>1. pc = "poll" /\ pin_change_msgq = 0 /\ timeout[1] # 0
  BY TrackFacts DEF Quiet, MainAt
<1>2. arms = IF OccupiedForFlash(1) THEN "lowered" ELSE "raised"
  <2>1. gate_flash_state = SomeOccupied /\ arms = IF gate_flash_state THEN "lowered" ELSE "raised"
    BY <1>1 DEF GateInv, StaleFlashWakes, TypeOK
  <2>2. SomeOccupied <=> OccupiedForFlash(1)
    BY TrackFacts DEF SomeOccupied
  <2> QED
    BY <2>1, <2>2
<1>3. OnRoute => location[1] = PlaceAt(head)
  BY <1>1 DEF TrainInv, InStep, Pending
<1>4. ~OnRoute => location[1] \in {"unoccupied", "post_incoming"}
  BY <1>1 DEF TrainInv, FreeBehindTrain, Pending
<1>5. head = Gone /\ ~Overhangs => location[1] = "unoccupied"
  BY <1>1, TrackFacts DEF TrainInv, FreeBehindTrain, Pending, OnRoute, TrackOK, Gone
<1> QED
  BY <1>2, <1>3, <1>4, <1>5

\* A train of any length, in either direction, has the gates down whenever it is
\* on the island, at any pace that the timer and the debounce allow for.
THEOREM IslandIsProtected ==
    ASSUME Paced
    PROVE  TrainSpec => []IslandProtected
<1>1. GateInv /\ TrainInv => IslandProtected
  <2> SUFFICES ASSUME GateInv, TrainInv, Quiet, OnIsland PROVE arms = "lowered"
    BY DEF IslandProtected
  <2>1. length \in Nat /\ length > 0 /\ head \in Nat /\ 3 <= head /\ head < 5 + length + 1
    BY TrackFacts DEF TrainInv, TrackOK, OnIsland, Tail, Gone
  <2>2. OnRoute /\ (head < 5 + length)
    BY <2>1 DEF OnRoute, Gone, OnIsland, Tail
  <2>3. location[1] \in {"island_incoming", "island"}
    BY <2>1, <2>2, Places, QuietFacts DEF TrainInv
  <2> QED
    BY <2>3, QuietFacts DEF OccupiedForFlash
<1> QED
  BY <1>1, TrackerFollowsTrain, PTL

\* The gates are up again once its tail has left the island.
THEOREM GatesRise ==
    ASSUME Paced
    PROVE  TrainSpec => []GatesRiseBehindTrain
<1>1. GateInv /\ TrainInv => GatesRiseBehindTrain
  <2> SUFFICES ASSUME GateInv, TrainInv, Quiet, Tail > 5 PROVE arms = "raised"
    BY DEF GatesRiseBehindTrain
  <2>1. length \in Nat /\ length > 0 /\ head \in Nat /\ head >= 5 + length
    BY TrackFacts DEF TrainInv, TrackOK, Tail, Gone
  <2>2. location[1] \in {"unoccupied", "post_incoming", "post"}
    BY <2>1, Places, QuietFacts DEF TrainInv, OnRoute
  <2> QED
    BY <2>2, QuietFacts DEF OccupiedForFlash
<1> QED
  BY <1>1, TrackerFollowsTrain, PTL

\* A train that did not overhang leaves the route free.
THEOREM RouteIsFree ==
    ASSUME Paced
    PROVE  TrainSpec => []RouteFreeAfterTrain
<1>1. GateInv /\ TrainInv => RouteFreeAfterTrain
  BY QuietFacts DEF RouteFreeAfterTrain
<1> QED
  BY <1>1, TrackerFollowsTrain, PTL
===============================================================================
