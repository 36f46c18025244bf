-------------------------- MODULE CrossingGateProofs --------------------------
(***************************************************************************)
(* What holds of CrossingGate for every layout, timeout and queue size.    *)
(***************************************************************************)
EXTENDS CrossingGate, TLAPS

-------------------------------------------------------------------------------
(* The little arithmetic the steps need. *)

\* There is a first route, and a next one until the last.
LEMMA RouteFacts ==
    /\ 1 \in Routes
    /\ Enabled \subseteq Routes
    /\ \A r \in Routes : r < NumRoutes => r + 1 \in Routes
  BY GateAssumption DEF GateAssumption, Routes

\* A started and a stopped timer are within the range of the counters.
LEMMA TimerFacts ==
    /\ -1 \in -1 .. Timeout
    /\ Timeout \in -1 .. Timeout
    /\ 0 \in 0 .. Debounce
    /\ Debounce \in 0 .. Debounce
    /\ \A n \in -1 .. Timeout : CountDown(n) \in -1 .. Timeout
    /\ \A n \in 0 .. Debounce : CountDown(n) \in 0 .. Debounce
  BY GateAssumption DEF GateAssumption, CountDown

\* The queue has room for one message at least, and a put never overfills it.
LEMMA QueueFacts ==
    /\ 0 \in 0 .. QueueSize
    /\ \A n \in 0 .. QueueSize : Put(n) \in 0 .. QueueSize /\ Put(n) > 0
    /\ \A n \in 0 .. QueueSize : n > 0 => n - 1 \in 0 .. QueueSize
  BY GateAssumption DEF GateAssumption, Put

\* The reactivation timers of the neighbours are a Boolean per route.
LEMMA ReactivationType ==
    ASSUME NEW r \in Routes PROVE ReactivationAfter(r) \in [Routes -> BOOLEAN]
  BY DEF ReactivationAfter

-------------------------------------------------------------------------------
(* Type correctness. *)

LEMMA InitType == Init => TypeOK
<1> SUFFICES ASSUME Init PROVE TypeOK
  OBVIOUS
<1>1. /\ location \in [Routes -> Location] /\ direction \in [Routes -> Direction]
      /\ debounce \in [Routes -> 0 .. Debounce] /\ timeout \in [Routes -> -1 .. Timeout]
  BY TimerFacts DEF Init, Location, Direction
<1>2. /\ pin \in [Input -> BOOLEAN] /\ current_pos \in [EventSwitch -> BOOLEAN]
      /\ reactivation \in [Routes -> BOOLEAN] /\ can_be_activated \in [Routes -> BOOLEAN]
  BY DEF Init
<1>3. pin_change_msgq \in 0 .. QueueSize /\ cur \in Routes
  BY RouteFacts, QueueFacts DEF Init
<1>4. /\ gate_flash_state \in BOOLEAN /\ manual \in BOOLEAN /\ on_island \in BOOLEAN
      /\ expected \in BOOLEAN
  BY DEF Init
<1>5. arms = "raised" /\ produced = "none" /\ pc = "poll" /\ decided = "none"
  BY DEF Init
<1> QED
  BY <1>1, <1>2, <1>3, <1>4, <1>5 DEF TypeOK

LEMMA NextType == TypeOK /\ [Next]_vars => TypeOK'
<1> SUFFICES ASSUME TypeOK, [Next]_vars PROVE TypeOK'
  OBVIOUS
<1> USE RouteFacts, TimerFacts, QueueFacts
    DEF TypeOK, Location, Direction, train, timers, gates, local
<1>1. CASE PollPinChange
  BY <1>1 DEF PollPinChange, MainAt
<1>2. CASE HandleRoute
  BY <1>2 DEF HandleRoute, MainAt, NextRoute
<1>3. CASE EnterRoute
  BY <1>3 DEF EnterRoute, MainAt
<1>4. CASE SetHeading
  BY <1>4 DEF SetHeading, MainAt
<1>5. CASE MoveTrain
  BY <1>5, ReactivationType DEF MoveTrain, MainAt
<1>6. CASE TrainSeen
  BY <1>6 DEF TrainSeen, MainAt, StartRouteTimer, NextRoute
<1>7. CASE CheckIsland
  BY <1>7 DEF CheckIsland, MainAt, NextRoute
<1>8. CASE RefreshTimer
  BY <1>8 DEF RefreshTimer, MainAt, StartRouteTimer, NextRoute
<1>9. CASE ScanRoutes
  BY <1>9 DEF ScanRoutes, MainAt
<1>10. CASE SetFlash
  BY <1>10 DEF SetFlash, MainAt, LowerArms, RaiseArms
<1>11. CASE ManualActivation
  BY <1>11 DEF ManualActivation, MainAt
<1>12. ASSUME NEW s \in EventSwitch, SwitchEvent(s) PROVE TypeOK'
  BY <1>12 DEF SwitchEvent, MainAt
<1>13. ASSUME NEW r \in Routes, TimerExpired(r) PROVE TypeOK'
  <2>1. reactivation' \in [Routes -> BOOLEAN]
    BY <1>13, ReactivationType DEF TimerExpired
  <2>2. timeout' \in [Routes -> -1 .. Timeout]
    BY <1>13 DEF TimerExpired
  <2>3. location' \in [Routes -> Location] /\ direction' \in [Routes -> Direction]
    BY <1>13 DEF TimerExpired
  <2>4. pin_change_msgq' \in 0 .. QueueSize
    BY <1>13 DEF TimerExpired
  <2> QED
    BY <1>13, <2>1, <2>2, <2>3, <2>4 DEF TimerExpired
<1>14. ASSUME NEW r \in Routes, ReactivationExpired(r) PROVE TypeOK'
  BY <1>14 DEF ReactivationExpired
<1>15. ASSUME NEW i \in Input, InputChange(i) PROVE TypeOK'
  BY <1>15 DEF InputChange
<1>16. CASE Tick
  BY <1>16 DEF Tick
<1>17. CASE MoveMissed
  BY <1>17 DEF MoveMissed, MainAt
<1>18. CASE UNCHANGED vars
  BY <1>18 DEF vars
<1> QED
  BY <1>1, <1>2, <1>3, <1>4, <1>5, <1>6, <1>7, <1>8, <1>9, <1>10, <1>11,
     <1>12, <1>13, <1>14, <1>15, <1>16, <1>17, <1>18 DEF Next, Main

\* Every reachable state is well typed: in particular pin_change_msgq stays
\* within its capacity and a location or direction is always one of its enum's.
THEOREM TypeCorrect == Spec => []TypeOK
  BY InitType, NextType, PTL DEF Spec

-------------------------------------------------------------------------------
(* The inductive invariant. *)

LEMMA InitInv == Init => StaleFlashWakes /\ OccupiedRouteTimesOut /\ DecisionStands
  BY DEF Init, StaleFlashWakes, SomeOccupied, OccupiedForFlash,
         OccupiedRouteTimesOut, DecisionStands

LEMMA NextStaleFlashWakes == TypeOK /\ StaleFlashWakes /\ [Next]_vars => StaleFlashWakes'
<1> SUFFICES ASSUME TypeOK, StaleFlashWakes, [Next]_vars PROVE StaleFlashWakes'
  OBVIOUS
<1> USE DEF StaleFlashWakes, SomeOccupied, OccupiedForFlash, train, timers, gates, local
\* The steps inside an update promise nothing until the scan is done.
<1>1. CASE PollPinChange
  BY <1>1 DEF PollPinChange
<1>2. CASE HandleRoute
  BY <1>2 DEF HandleRoute, NextRoute
<1>3. CASE EnterRoute
  BY <1>3 DEF EnterRoute
<1>4. CASE SetHeading
  BY <1>4 DEF SetHeading
<1>5. CASE MoveTrain
  BY <1>5 DEF MoveTrain
<1>6. CASE TrainSeen
  BY <1>6 DEF TrainSeen, NextRoute
<1>7. CASE CheckIsland
  BY <1>7 DEF CheckIsland, NextRoute
<1>8. CASE RefreshTimer
  BY <1>8 DEF RefreshTimer, NextRoute
<1>9. CASE ScanRoutes
  BY <1>9 DEF ScanRoutes
<1>10. CASE SetFlash
  BY <1>10 DEF SetFlash, MainAt, LowerArms, RaiseArms, TypeOK
<1>11. CASE ManualActivation
  BY <1>11 DEF ManualActivation
<1>12. ASSUME NEW s \in EventSwitch, SwitchEvent(s) PROVE StaleFlashWakes'
  BY <1>12 DEF SwitchEvent
\* The interrupt: either the route was unoccupied, or a message is left.
<1>13. ASSUME NEW r \in Routes, TimerExpired(r) PROVE StaleFlashWakes'
  <2>1. CASE location[r] = "unoccupied"
    BY <1>13, <2>1 DEF TimerExpired
  <2>2. CASE location[r] # "unoccupied"
    <3>1. pin_change_msgq' > 0
      BY <1>13, <2>2, QueueFacts DEF TimerExpired, TypeOK
    <3>2. ~SomeOccupied => ~SomeOccupied'
      BY <1>13, <2>2 DEF TimerExpired, TypeOK
    <3> QED
      BY <1>13, <3>1, <3>2 DEF TimerExpired
  <2> QED
    BY <2>1, <2>2
<1>14. ASSUME NEW r \in Routes, ReactivationExpired(r) PROVE StaleFlashWakes'
  BY <1>14 DEF ReactivationExpired
<1>15. ASSUME NEW i \in Input, InputChange(i) PROVE StaleFlashWakes'
  <2>1. pin_change_msgq' > 0
    BY <1>15, QueueFacts DEF InputChange, TypeOK
  <2> QED
    BY <1>15, <2>1 DEF InputChange
<1>16. CASE Tick
  BY <1>16 DEF Tick
<1>17. CASE MoveMissed
  BY <1>17 DEF MoveMissed
<1>18. CASE UNCHANGED vars
  BY <1>18 DEF vars
<1> QED
  BY <1>1, <1>2, <1>3, <1>4, <1>5, <1>6, <1>7, <1>8, <1>9, <1>10, <1>11,
     <1>12, <1>13, <1>14, <1>15, <1>16, <1>17, <1>18 DEF Next, Main

LEMMA NextRouteTimesOut ==
    TypeOK /\ OccupiedRouteTimesOut /\ [Next]_vars => OccupiedRouteTimesOut'
<1> SUFFICES ASSUME TypeOK, OccupiedRouteTimesOut, [Next]_vars PROVE OccupiedRouteTimesOut'
  OBVIOUS
<1> USE DEF OccupiedRouteTimesOut, train, timers, gates, local
<1>1. CASE PollPinChange
  BY <1>1 DEF PollPinChange, MainAt
<1>2. CASE HandleRoute
  BY <1>2 DEF HandleRoute, MainAt
<1>3. CASE EnterRoute
  BY <1>3 DEF EnterRoute, MainAt, TypeOK
<1>4. CASE SetHeading
  BY <1>4 DEF SetHeading, MainAt
<1>5. CASE MoveTrain
  BY <1>5 DEF MoveTrain, MainAt, TypeOK
\* The timer of the route in hand is started before the main thread goes on.
<1>6. CASE TrainSeen
  BY <1>6, GateAssumption DEF TrainSeen, MainAt, StartRouteTimer, TypeOK, GateAssumption
<1>7. CASE CheckIsland
  BY <1>7 DEF CheckIsland, MainAt
<1>8. CASE RefreshTimer
  BY <1>8, GateAssumption DEF RefreshTimer, MainAt, StartRouteTimer, TypeOK, GateAssumption
<1>9. CASE ScanRoutes
  BY <1>9 DEF ScanRoutes, MainAt
<1>10. CASE SetFlash
  BY <1>10 DEF SetFlash, MainAt
<1>11. CASE ManualActivation
  BY <1>11 DEF ManualActivation, MainAt
<1>12. ASSUME NEW s \in EventSwitch, SwitchEvent(s) PROVE OccupiedRouteTimesOut'
  BY <1>12 DEF SwitchEvent
\* The interrupt stops the timer and empties the route together.
<1>13. ASSUME NEW r \in Routes, TimerExpired(r) PROVE OccupiedRouteTimesOut'
  BY <1>13 DEF TimerExpired, TypeOK
<1>14. ASSUME NEW r \in Routes, ReactivationExpired(r) PROVE OccupiedRouteTimesOut'
  BY <1>14 DEF ReactivationExpired
<1>15. ASSUME NEW i \in Input, InputChange(i) PROVE OccupiedRouteTimesOut'
  BY <1>15 DEF InputChange
<1>16. CASE Tick
  BY <1>16 DEF Tick, CountDown, TypeOK
<1>17. CASE MoveMissed
  BY <1>17 DEF MoveMissed, MainAt
<1>18. CASE UNCHANGED vars
  BY <1>18 DEF vars
<1> QED
  BY <1>1, <1>2, <1>3, <1>4, <1>5, <1>6, <1>7, <1>8, <1>9, <1>10, <1>11,
     <1>12, <1>13, <1>14, <1>15, <1>16, <1>17, <1>18 DEF Next, Main

LEMMA NextDecisionStands == TypeOK /\ DecisionStands /\ [Next]_vars => DecisionStands'
<1> SUFFICES ASSUME TypeOK, DecisionStands, [Next]_vars PROVE DecisionStands'
  OBVIOUS
<1> USE DEF DecisionStands, OccupiedForFlash, train, timers, gates, local
<1>1. CASE HandleRoute
  <2> SUFFICES ASSUME pc' = "move" PROVE DecisionStands'
    OBVIOUS
  <2> DEFINE s == [role \in Role |-> SensorValue(cur, role)]
  <2>1. /\ Advances(direction[cur], s, location[cur], decided')
        /\ on_island' = (s["left_island"] \/ s["right_island"])
        /\ UNCHANGED <<cur, location>>
    BY <1>1 DEF HandleRoute, NextRoute
  <2> QED
    BY <2>1 DEF Advances, IslandClear
<1>2. CASE PollPinChange \/ EnterRoute \/ SetHeading \/ MoveTrain \/ ScanRoutes \/ SetFlash
  BY <1>2 DEF PollPinChange, EnterRoute, SetHeading, MoveTrain, ScanRoutes, SetFlash
<1>3. CASE TrainSeen \/ CheckIsland \/ RefreshTimer \/ MoveMissed
  BY <1>3 DEF TrainSeen, CheckIsland, MoveMissed, RefreshTimer, NextRoute
<1>4. CASE ManualActivation
  BY <1>4 DEF ManualActivation
<1>5. ASSUME NEW s \in EventSwitch, SwitchEvent(s) PROVE DecisionStands'
  BY <1>5 DEF SwitchEvent
\* The interrupt can only turn the location a decision rests on into unoccupied.
<1>6. ASSUME NEW r \in Routes, TimerExpired(r) PROVE DecisionStands'
  BY <1>6 DEF TimerExpired, TypeOK
<1>7. ASSUME NEW r \in Routes, ReactivationExpired(r) PROVE DecisionStands'
  BY <1>7 DEF ReactivationExpired
<1>8. ASSUME NEW i \in Input, InputChange(i) PROVE DecisionStands'
  BY <1>8 DEF InputChange
<1>9. CASE Tick
  BY <1>9 DEF Tick
<1>10. CASE UNCHANGED vars
  BY <1>10 DEF vars
<1> QED
  BY <1>1, <1>2, <1>3, <1>4, <1>5, <1>6, <1>7, <1>8, <1>9, <1>10 DEF Next, Main

\* The strengthening of the safety properties holds in every reachable state.
THEOREM GateInvariant == Spec => []GateInv
<1>1. Init => GateInv
  BY InitType, InitInv DEF GateInv
<1>2. GateInv /\ [Next]_vars => GateInv'
  BY NextType, NextStaleFlashWakes, NextRouteTimesOut, NextDecisionStands DEF GateInv
<1> QED
  BY <1>1, <1>2, PTL DEF Spec

-------------------------------------------------------------------------------
(* The properties. *)

\* With the main thread waiting and nothing queued, the gates are active exactly
\* when a train calls for them.
THEOREM GatesMatch == Spec => []GatesMatchTrains
<1>1. GateInv => GatesMatchTrains
  BY DEF GateInv, StaleFlashWakes, SomeOccupied, GatesMatchTrains, TypeOK
<1> QED
  BY <1>1, GateInvariant, PTL

\* Every occupied route has its timer running, or about to be started.
THEOREM RoutesTimeOut == Spec => []OccupiedRouteTimesOut
<1>1. GateInv => OccupiedRouteTimesOut
  BY DEF GateInv
<1> QED
  BY <1>1, GateInvariant, PTL

\* Only SetFlash moves the arms, and it raises them on what the scan just found.
LEMMA RaiseStep ==
    ASSUME GateInv, [Next]_vars, arms = "lowered", arms' = "raised"
    PROVE  \A r \in Routes : ~OccupiedForFlash(r)
<1> USE DEF train, timers, gates, local
<1>1. CASE SetFlash
  BY <1>1 DEF SetFlash, LowerArms, GateInv, StaleFlashWakes, SomeOccupied, TypeOK, MainAt
<1>2. ASSUME arms' = arms PROVE FALSE
  BY <1>2
<1>3. CASE UNCHANGED vars
  BY <1>2, <1>3 DEF vars
<1>4. CASE Main /\ ~SetFlash
  BY <1>2, <1>4 DEF Main, PollPinChange, HandleRoute, EnterRoute, SetHeading, MoveTrain,
     MoveMissed, TrainSeen, CheckIsland, RefreshTimer, ScanRoutes
<1>5. CASE ManualActivation \/ Tick
  BY <1>2, <1>5 DEF ManualActivation, Tick
<1>6. CASE \E s \in EventSwitch : SwitchEvent(s)
  BY <1>2, <1>6 DEF SwitchEvent
<1>7. CASE \E r \in Routes : TimerExpired(r) \/ ReactivationExpired(r)
  BY <1>2, <1>7 DEF TimerExpired, ReactivationExpired
<1>8. CASE \E i \in Input : InputChange(i)
  BY <1>2, <1>8 DEF InputChange
<1> QED
  BY <1>1, <1>3, <1>4, <1>5, <1>6, <1>7, <1>8 DEF Next

\* The arms rise only at a moment when no route is occupied.
THEOREM RaisesOnlyWhenClear == Spec => RaiseOnlyWhenClear
<1>1. GateInv /\ [Next]_vars =>
        [arms = "lowered" /\ arms' = "raised" =>
           \A r \in Routes : location[r] \notin {"pre_island", "island_incoming", "island"}]_vars
  BY RaiseStep DEF OccupiedForFlash
<1> QED
  BY <1>1, GateInvariant, PTL DEF Spec, RaiseOnlyWhenClear

\* A route that stops calling for the gates was moved on by the main thread, or
\* its timer was due.
LEMMA ReleaseStep ==
    ASSUME GateInv, [Next]_vars, NEW q \in Routes, OccupiedForFlash(q), ~OccupiedForFlash(q)'
    PROVE  timeout[q] = 0 \/ (pc = "move" /\ cur = q /\ ~on_island)
<1> USE DEF train, timers, gates, local
<1>1. CASE MoveTrain
  BY <1>1 DEF MoveTrain, MainAt, GateInv, DecisionStands, TypeOK, OccupiedForFlash, Location
<1>2. CASE EnterRoute
  BY <1>2 DEF EnterRoute, GateInv, TypeOK, OccupiedForFlash
<1>3. ASSUME location' = location PROVE FALSE
  BY <1>3 DEF OccupiedForFlash
<1>4. ASSUME NEW r \in Routes, TimerExpired(r)
      PROVE  timeout[q] = 0
  BY <1>4 DEF TimerExpired, GateInv, TypeOK, OccupiedForFlash
<1>5. CASE UNCHANGED vars
  BY <1>3, <1>5 DEF vars
<1>6. CASE Main /\ ~MoveTrain /\ ~EnterRoute
  BY <1>3, <1>6 DEF Main, PollPinChange, HandleRoute, SetHeading, MoveMissed, TrainSeen,
     CheckIsland, RefreshTimer, ScanRoutes, SetFlash
<1>7. CASE ManualActivation \/ Tick
  BY <1>3, <1>7 DEF ManualActivation, Tick
<1>8. CASE \E s \in EventSwitch : SwitchEvent(s)
  BY <1>3, <1>8 DEF SwitchEvent
<1>9. ASSUME NEW r \in Routes, ReactivationExpired(r) PROVE FALSE
  BY <1>3, <1>9 DEF ReactivationExpired
<1>10. CASE \E i \in Input : InputChange(i)
  BY <1>3, <1>10 DEF InputChange
<1> QED
  BY <1>1, <1>2, <1>4, <1>5, <1>6, <1>7, <1>8, <1>9, <1>10 DEF Next

\* A route stops calling for the gates only on an expired timer or on a sample
\* of both island sensors clear.
THEOREM ReleasedOnlyByClearIslandOrTimeout == Spec => ReleasedByClearIslandOrTimeout
<1>1. GateInv /\ [Next]_vars =>
        [\A r \in Routes :
            OccupiedForFlash(r) /\ ~OccupiedForFlash(r)' =>
                \/ timeout[r] = 0
                \/ pc = "move" /\ cur = r /\ ~on_island]_vars
  BY ReleaseStep
<1> QED
  BY <1>1, GateInvariant, PTL DEF Spec, ReleasedByClearIslandOrTimeout

-------------------------------------------------------------------------------
(* The refinement. *)

AtRest == pc = "poll" /\ pin_change_msgq = 0

\* Such a change of one route is a train that calls, one that is released, or
\* no change in who calls at all.
LEMMA RouteStep ==
    ASSUME NEW r \in Routes, NEW to, location \in [Routes -> Location],
           location' = [location EXCEPT ![r] = to], arms' = arms, ~AtRest'
    PROVE  Keeper!Next \/ UNCHANGED Keeper!vars
<1> DEFINE others == {q \in Routes \ {r} : OccupiedForFlash(q)}
<1>1. others' = others
  BY DEF OccupiedForFlash
<1>2. /\ Calling = IF OccupiedForFlash(r) THEN others \cup {r} ELSE others
      /\ Calling' = IF OccupiedForFlash(r)' THEN others \cup {r} ELSE others
  BY <1>1 DEF Calling
<1>3. r \in Calling <=> OccupiedForFlash(r)
  BY DEF Calling
<1> HIDE DEF others
<1>4. r \notin others
  BY DEF others
<1>5. CASE OccupiedForFlash(r) = OccupiedForFlash(r)'
  <2>1. Calling' = Calling
    BY <1>2, <1>5
  <2> QED
    BY <2>1 DEF AtRest, Keeper!Next, Keeper!Wake
<1>6. CASE OccupiedForFlash(r) /\ ~OccupiedForFlash(r)'
  <2>1. Calling' = Calling \ {r}
    BY <1>2, <1>4, <1>6
  <2> QED
    BY <2>1, <1>3, <1>6 DEF AtRest, Keeper!Next, Keeper!Release
<1>7. CASE ~OccupiedForFlash(r) /\ OccupiedForFlash(r)'
  <2>1. Calling' = Calling \cup {r}
    BY <1>2, <1>7
  <2> QED
    BY <2>1, <1>3, <1>7 DEF AtRest, Keeper!Next, Keeper!Call
<1> QED
  BY <1>5, <1>6, <1>7 DEF OccupiedForFlash

\* A step that touches neither the locations nor the arms ends a rest or does nothing.
LEMMA OtherStep ==
    ASSUME location' = location, arms' = arms, ~AtRest' \/ AtRest' = AtRest
    PROVE  Keeper!Next \/ UNCHANGED Keeper!vars
<1>1. Calling' = Calling
  BY DEF Calling, OccupiedForFlash
<1> QED
  BY <1>1 DEF AtRest, Keeper!Next, Keeper!Wake, Keeper!vars

\* The end of an update moves the arms on what the scan found, or rests.
LEMMA FlashStep ==
    ASSUME GateInv, SetFlash
    PROVE  Keeper!Next \/ UNCHANGED Keeper!vars
<1>1. location' = location /\ pin_change_msgq' = pin_change_msgq /\ pc = "arms" /\ pc' = "poll"
  BY DEF SetFlash, MainAt, train
<1>2. Calling' = Calling
  BY <1>1 DEF Calling, OccupiedForFlash
<1>3. (Calling = {}) <=> ~SomeOccupied
  BY DEF Calling, SomeOccupied
<1>4. AtRest' = (pin_change_msgq = 0) /\ ~AtRest
  BY <1>1 DEF AtRest
<1>5. /\ arms = IF gate_flash_state THEN "lowered" ELSE "raised"
      /\ expected => SomeOccupied \/ pin_change_msgq > 0
      /\ ~expected => ~SomeOccupied
      /\ expected \in BOOLEAN /\ gate_flash_state \in BOOLEAN
  BY <1>1 DEF GateInv, StaleFlashWakes, TypeOK
<1>6. expected /\ AtRest' => SomeOccupied
  <2>1. AtRest' => ~(pin_change_msgq > 0)
    BY <1>1 DEF AtRest
  <2> QED
    BY <2>1, <1>5
<1>7. CASE expected /\ ~gate_flash_state
  <2>1. arms = "raised" /\ arms' = "lowered"
    BY <1>5, <1>7 DEF SetFlash, LowerArms
  <2>2. Keeper!Lower
    BY <2>1, <1>2, <1>3, <1>4, <1>6, <1>7 DEF Keeper!Lower, Keeper!Match, AtRest
  <2> QED
    BY <2>2 DEF Keeper!Next
<1>8. CASE ~expected /\ gate_flash_state
  <2>1. arms = "lowered" /\ arms' = "raised"
    BY <1>5, <1>8 DEF SetFlash, RaiseArms
  <2>2. Keeper!Raise
    BY <2>1, <1>2, <1>3, <1>4, <1>5, <1>8 DEF Keeper!Raise, AtRest
  <2> QED
    BY <2>2 DEF Keeper!Next
<1>9. CASE expected = gate_flash_state
  <2>1. arms' = arms
    BY <1>9 DEF SetFlash
  <2>2. CASE AtRest'
    <3>1. Keeper!Rest
      BY <2>1, <2>2, <1>2, <1>3, <1>5, <1>6, <1>9 DEF Keeper!Rest, Keeper!Match, AtRest
    <3> QED
      BY <3>1 DEF Keeper!Next
  <2>3. CASE ~AtRest'
    BY <2>1, <2>3, <1>1, OtherStep
  <2> QED
    BY <2>2, <2>3
<1> QED
  BY <1>5, <1>7, <1>8, <1>9

LEMMA KeeperStep ==
    ASSUME GateInv, [Next]_vars
    PROVE  Keeper!Next \/ UNCHANGED Keeper!vars
<1>1. location \in [Routes -> Location] /\ cur \in Routes /\ pin_change_msgq \in 0 .. QueueSize
  BY DEF GateInv, TypeOK
<1> USE DEF train, timers, gates, local, MainAt
<1>2. CASE PollPinChange
  BY <1>2, OtherStep DEF PollPinChange, AtRest
<1>3. CASE HandleRoute \/ SetHeading \/ MoveMissed \/ ScanRoutes
  <2>1. location' = location /\ arms' = arms /\ ~AtRest'
    BY <1>3 DEF HandleRoute, SetHeading, MoveMissed, ScanRoutes, NextRoute, AtRest
  <2> QED
    BY <2>1, OtherStep
<1>4. CASE TrainSeen \/ CheckIsland \/ RefreshTimer
  <2>1. location' = location /\ arms' = arms /\ ~AtRest'
    BY <1>4 DEF TrainSeen, CheckIsland, RefreshTimer, NextRoute, AtRest
  <2> QED
    BY <2>1, OtherStep
<1>5. CASE EnterRoute
  BY <1>1, <1>5, RouteStep DEF EnterRoute, AtRest
<1>6. CASE MoveTrain
  <2>1. location' = [location EXCEPT ![cur] = decided] /\ arms' = arms /\ ~AtRest'
    BY <1>6 DEF MoveTrain, AtRest
  <2> QED
    BY <2>1, <1>1, RouteStep
<1>7. CASE SetFlash
  BY <1>7, FlashStep
<1>8. CASE ManualActivation
  BY <1>8, OtherStep DEF ManualActivation, AtRest
<1>9. ASSUME NEW s \in EventSwitch, SwitchEvent(s)
      PROVE  Keeper!Next \/ UNCHANGED Keeper!vars
  BY <1>9, OtherStep DEF SwitchEvent, AtRest
\* The interrupt that clears a route leaves a message, which ends a rest.
<1>10. ASSUME NEW r \in Routes, TimerExpired(r)
       PROVE  Keeper!Next \/ UNCHANGED Keeper!vars
  <2>1. CASE location[r] = "unoccupied"
    BY <1>10, <2>1, OtherStep DEF TimerExpired, AtRest
  <2>2. CASE location[r] # "unoccupied"
    <3>1. ~AtRest'
      BY <1>1, <1>10, <2>2, QueueFacts DEF TimerExpired, AtRest
    <3> QED
      BY <1>1, <1>10, <2>2, <3>1, RouteStep DEF TimerExpired
  <2> QED
    BY <2>1, <2>2
<1>11. ASSUME NEW r \in Routes, ReactivationExpired(r)
       PROVE  Keeper!Next \/ UNCHANGED Keeper!vars
  BY <1>11, OtherStep DEF ReactivationExpired, AtRest
<1>12. ASSUME NEW i \in Input, InputChange(i)
       PROVE  Keeper!Next \/ UNCHANGED Keeper!vars
  <2>1. ~AtRest'
    BY <1>1, <1>12, QueueFacts DEF InputChange, AtRest
  <2> QED
    BY <1>12, <2>1, OtherStep DEF InputChange
<1>13. CASE Tick
  BY <1>13, OtherStep DEF Tick, AtRest
<1>14. CASE UNCHANGED vars
  BY <1>14, OtherStep DEF vars, AtRest
<1> QED
  BY <1>2, <1>3, <1>4, <1>5, <1>6, <1>7, <1>8, <1>9, <1>10, <1>11, <1>12, <1>13, <1>14
     DEF Next, Main

\* The controller implements GateKeeper for every layout, timeout and queue.
THEOREM GatesKept == Spec => KeepsTheGates
<1>1. Init => Keeper!Init
  BY DEF Init, Keeper!Init, Calling, OccupiedForFlash
<1>2. GateInv /\ [Next]_vars => [Keeper!Next]_(Keeper!vars)
  BY KeeperStep
<1> QED
  BY <1>1, <1>2, GateInvariant, PTL DEF Spec, KeepsTheGates, Keeper!Spec
===============================================================================
