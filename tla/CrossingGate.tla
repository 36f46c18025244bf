------------------------------ MODULE CrossingGate ------------------------------
(***************************************************************************)
(* The grade-crossing controller of lcc-crossing-gate: the train tracker   *)
(* of every route, run by the main thread each time an input changes; the  *)
(* route timers, run by the system clock interrupt in the middle of        *)
(* anything the main thread does; and the flash state that moves the arms. *)
(*                                                                         *)
(* One step of the main thread is one access to state that the interrupt   *)
(* shares with it.  The scan of the locations for the flash state is a     *)
(* single step: interrupts only ever clear a location, so the disjunction  *)
(* the loop computes is its value at the loop's start or at its end.       *)
(* Polarities are folded into the level of a pin, logs and names are left  *)
(* out, and time is counted in ticks of one debounce period or longer.     *)
(***************************************************************************)
EXTENDS Integers

CONSTANTS
    NumRoutes,      \* NUM_ROUTES, the length of crossing_routes
    Enabled,        \* the routes whose configuration has route_enabled set
    Input,          \* the GPIO inputs
    EventSensor,    \* stands for a sensor configured to listen to LCC events
    EventSwitch,    \* the turnouts whose position arrives as LCC events
    Sensor,         \* Sensor[r][role]: the input (or EventSensor) of a route's sensor
    SensorEnabled,  \* SensorEnabled[r][role]: is it configured as enabled?
    SwitchNeeded,   \* SwitchNeeded[r]: position_for_route of the enabled switches
    Timeout,        \* general_config.timeout, in ticks (0 is allowed by the CDI)
    Debounce,       \* the 500 ms of handle_route_*, in ticks
    QueueSize       \* the capacity of pin_change_msgq

Routes == 1 .. NumRoutes
Role == {"left", "left_island", "right_island", "right"}
Direction == {"unknown", "ltr", "rtl"}
Location == {"unoccupied", "pre_island", "island_incoming", "island",
             "post_incoming", "post"}

\* What the configuration can be: any wiring, any timeout the CDI accepts.
ASSUME GateAssumption ==
    /\ NumRoutes \in Nat \ {0}
    /\ Enabled \subseteq Routes
    /\ EventSensor \notin Input
    /\ Input \cap EventSwitch = {}
    /\ Sensor \in [Routes -> [Role -> Input \cup {EventSensor}]]
    /\ SensorEnabled \in [Routes -> [Role -> BOOLEAN]]
    /\ \A r \in Routes :
          SwitchNeeded[r] \in [DOMAIN SwitchNeeded[r] -> BOOLEAN]
    /\ Timeout \in Nat
    /\ Debounce \in Nat
    /\ QueueSize \in Nat \ {0}

VARIABLES
    pin,                \* the level of every input, polarity applied
    current_pos,        \* switch_input.current_pos of the event-driven turnouts
    location,           \* current_train.location of every route
    direction,          \* current_train.direction
    debounce,           \* what is left of 500 ms since last_seen_millis
    timeout,            \* ticks until the route timer expires; -1 when stopped
    reactivation,       \* is the route's reactivation_timeout running?
    can_be_activated,
    pin_change_msgq,    \* number of messages queued for the main thread
    gate_flash_state,   \* is it FLASH_ON?
    arms,               \* where the arms were last commanded
    produced,           \* the last gate event put on the LCC bus
    pc,                 \* where the main thread is
    cur,                \* the route crossing_gate_update has reached
    manual,             \* did a manual activation start this update?
    decided,            \* the direction or location the handler is about to store
    on_island,          \* left_island_input || right_island_input, as sampled
    expected            \* expectedGateFlashState

train == <<location, direction, debounce>>
timers == <<timeout, reactivation, can_be_activated>>
gates == <<gate_flash_state, arms, produced>>
local == <<pc, cur, manual, decided, on_island, expected>>
vars == <<pin, current_pos, train, timers, pin_change_msgq, gates, local>>

-------------------------------------------------------------------------------
(* Sensors, switches, neighbours. *)

\* A sensor on an input reads the input, whether it is enabled or not.  One
\* configured for LCC events keeps the value it was initialised with:
\* sensor_input_handle_event has no caller.
SensorValue(r, role) == Sensor[r][role] \in Input /\ pin[Sensor[r][role]]

SwitchValue(s) == IF s \in Input THEN pin[s] ELSE current_pos[s]

SwitchesSet(r) ==
    \A s \in DOMAIN SwitchNeeded[r] : SwitchValue(s) = SwitchNeeded[r][s]

\* The routes that share an input with r (neighbor_routes_mask); event-driven
\* sensors, which never change, are not compared.
Neighbors(r) ==
    {n \in Enabled \ {r} :
        /\ r \in Enabled
        /\ \E a, b \in Role :
              /\ SensorEnabled[r][a] /\ SensorEnabled[n][b]
              /\ Sensor[r][a] = Sensor[n][b] /\ Sensor[r][a] \in Input}

\* A k_msgq_put that does not wait: the message is dropped when the queue is full.
Put(n) == IF n < QueueSize THEN n + 1 ELSE n

\* The reactivation timers that run once r has been cleared.
ReactivationAfter(r) ==
    [n \in Routes |->
        \/ reactivation[n]
        \/ n = r
        \/ n \in Neighbors(r) /\ location[n] = "unoccupied"]

\* A slip in the switch of is_route_occupied_for_flash: one case forgotten, or
\* one too many.
MissesIncoming(r) == location[r] \in {"pre_island", "island"}
IncludesLeaving(r) == location[r] # "unoccupied"

OccupiedForFlash(r) == location[r] \in {"pre_island", "island_incoming", "island"}

\* The sensors in the order in which a train of that direction reaches them.
FirstIsland(dir) == IF dir = "ltr" THEN "left_island" ELSE "right_island"
SecondIsland(dir) == IF dir = "ltr" THEN "right_island" ELSE "left_island"

\* A copy of the other handler's last two branches.
MirroredExit(dir) == IF dir = "ltr" THEN "left" ELSE "right"

Exit(dir) == IF dir = "ltr" THEN "right" ELSE "left"

\* "||" where the island must be clear at both ends.
EitherEndClear(s) == ~s["left_island"] \/ ~s["right_island"]

IslandClear(s) == ~s["left_island"] /\ ~s["right_island"]

\* The step a direction handler takes from one location to the next.
Advances(dir, s, from, to) ==
    \/ from = "pre_island" /\ to = "island_incoming" /\ s[FirstIsland(dir)]
    \/ from = "island_incoming" /\ to = "island" /\ s[SecondIsland(dir)]
    \/ from = "island" /\ to = "post_incoming" /\ IslandClear(s)
    \/ from = "post_incoming" /\ to = "post" /\ s[Exit(dir)]
    \/ from = "post" /\ to = "unoccupied" /\ ~s[Exit(dir)]

-------------------------------------------------------------------------------
Init ==
    /\ pin = [i \in Input |-> FALSE]
    /\ current_pos = [s \in EventSwitch |-> FALSE]
    /\ location = [r \in Routes |-> "unoccupied"]
    /\ direction = [r \in Routes |-> "unknown"]
    /\ debounce = [r \in Routes |-> 0]
    /\ timeout = [r \in Routes |-> -1]
    /\ reactivation = [r \in Routes |-> FALSE]
    /\ can_be_activated = [r \in Routes |-> TRUE]
    /\ pin_change_msgq = 0
    /\ gate_flash_state = FALSE
    /\ arms = "raised"
    /\ produced = "none"
    /\ pc = "poll"
    /\ cur = 1
    /\ manual = FALSE
    /\ decided = "none"
    /\ on_island = FALSE
    /\ expected = FALSE

-------------------------------------------------------------------------------
(* The main thread.  An interrupt that is due runs before its next step. *)

MainAt(label) == pc = label /\ \A r \in Routes : timeout[r] # 0

\* The loop of crossing_gate_update goes on to the next route, or to the flash.
NextRoute ==
    /\ cur' = IF cur < NumRoutes THEN cur + 1 ELSE 1
    /\ pc' = IF cur < NumRoutes THEN "check" ELSE "flash"
    /\ decided' = "none"
    /\ on_island' = FALSE

\* k_poll returns for pin_change_msgq: take one message and update every route.
PollPinChange ==
    /\ MainAt("poll")
    /\ pin_change_msgq > 0
    /\ pin_change_msgq' = pin_change_msgq - 1
    /\ pc' = "check"
    /\ UNCHANGED <<pin, current_pos, train, timers, gates,
                   cur, manual, decided, on_island, expected>>

\* k_poll returns for the CAN queue: an event that moves an event-driven turnout.
SwitchEvent(s) ==
    /\ MainAt("poll")
    /\ current_pos' = [current_pos EXCEPT ![s] = ~@]
    /\ UNCHANGED <<pin, train, timers, pin_change_msgq, gates, local>>

\* The manual activation event: the first route that can be activated.
ManualActivation ==
    /\ MainAt("poll")
    /\ \E r \in Enabled :
        /\ can_be_activated[r]
        /\ \A q \in Enabled : q < r => ~can_be_activated[q]
        /\ cur' = r
    /\ manual' = TRUE
    /\ decided' = "rtl"
    /\ pc' = "enter"
    /\ UNCHANGED <<pin, current_pos, train, timers, pin_change_msgq, gates,
                   on_island, expected>>

NewTrain(r, s) ==
    (s["left"] \/ s["right"]) /\ location[r] = "unoccupied" /\ can_be_activated[r]

\* The part of crossing_gate_handle_single_route that reads: the sensors, then
\* the location the decision rests on.
HandleRoute ==
    LET s == [role \in Role |-> SensorValue(cur, role)]
        moves == {to \in Location :
                    /\ direction[cur] # "unknown"
                    /\ debounce[cur] = 0
                    /\ Advances(direction[cur], s, location[cur], to)}
    IN  /\ MainAt("check")
        /\ \/ /\ cur \notin Enabled \/ (NewTrain(cur, s) /\ ~SwitchesSet(cur))
              /\ NextRoute
           \/ /\ cur \in Enabled /\ NewTrain(cur, s) /\ SwitchesSet(cur)
              /\ decided' = IF s["left"] THEN "ltr" ELSE "rtl"
              /\ pc' = "enter"
              /\ UNCHANGED <<cur, on_island>>
           \/ /\ cur \in Enabled /\ ~NewTrain(cur, s)
              /\ on_island' = (s["left_island"] \/ s["right_island"])
              /\ \/ /\ moves = {}
                    /\ pc' = "refresh"
                    /\ UNCHANGED decided
                 \/ /\ decided' \in moves
                    /\ pc' = "move"
              /\ UNCHANGED cur
        /\ UNCHANGED <<pin, current_pos, train, timers, pin_change_msgq, gates,
                       manual, expected>>

\* A new train: last_seen_millis and the location are stored first ...
EnterRoute ==
    /\ MainAt("enter")
    /\ location' = [location EXCEPT ![cur] = "pre_island"]
    /\ debounce' = [debounce EXCEPT ![cur] = Debounce]
    /\ pc' = "heading"
    /\ UNCHANGED <<pin, current_pos, direction, timers, pin_change_msgq, gates,
                   cur, manual, decided, on_island, expected>>

\* ... then its direction.
SetHeading ==
    /\ MainAt("heading")
    /\ direction' = [direction EXCEPT ![cur] = decided]
    /\ pc' = "start"
    /\ UNCHANGED <<pin, current_pos, location, debounce, timers, pin_change_msgq,
                   gates, cur, manual, decided, on_island, expected>>

\* A direction handler stores the next location.  Leaving the route is complete
\* in this step; every other move is followed by the restart of the timer.
MoveTrain ==
    /\ MainAt("move")
    /\ location' = [location EXCEPT ![cur] = decided]
    /\ IF decided = "unoccupied"
         THEN /\ direction' = [direction EXCEPT ![cur] = "unknown"]
              /\ reactivation' = ReactivationAfter(cur)
              /\ pc' = "refresh"
         ELSE /\ pc' = "start"
              /\ UNCHANGED <<direction, reactivation>>
    /\ UNCHANGED <<pin, current_pos, debounce, timeout, can_be_activated,
                   pin_change_msgq, gates, cur, manual, decided, on_island, expected>>

\* The timer has cleared the route after the test for a new train and before the
\* handler's own look at the direction and the location: nothing moves.
MoveMissed ==
    /\ MainAt("move")
    /\ location[cur] = "unoccupied"
    /\ pc' = "refresh"
    /\ UNCHANGED <<pin, current_pos, train, timers, pin_change_msgq, gates,
                   cur, manual, decided, on_island, expected>>

\* The restart of the timer left out.
ForgetRouteTimer(r) == timeout' = timeout

StartRouteTimer(r) == timeout' = [timeout EXCEPT ![r] = Timeout]

\* route_update_train_seen starts the timer.  A manual activation then calls
\* crossing_gate_update from the first route, a new train ends the handler and
\* a direction handler returns to it.
TrainSeen ==
    /\ MainAt("start")
    /\ StartRouteTimer(cur)
    /\ manual' = FALSE
    /\ \/ /\ manual
          /\ cur' = 1
          /\ pc' = "check"
          /\ decided' = "none"
          /\ UNCHANGED on_island
       \/ /\ ~manual /\ decided \in Direction
          /\ NextRoute
       \/ /\ ~manual /\ decided \notin Direction
          /\ pc' = "refresh"
          /\ UNCHANGED <<cur, decided, on_island>>
    /\ UNCHANGED <<pin, current_pos, train, reactivation, can_be_activated,
                   pin_change_msgq, gates, expected>>

\* The end of crossing_gate_handle_single_route: is the island still occupied?
CheckIsland ==
    /\ MainAt("refresh")
    /\ IF location[cur] = "island" /\ on_island
         THEN pc' = "restart" /\ UNCHANGED <<cur, decided, on_island>>
         ELSE NextRoute
    /\ UNCHANGED <<pin, current_pos, train, timers, pin_change_msgq, gates,
                   manual, expected>>

RefreshTimer ==
    /\ MainAt("restart")
    /\ StartRouteTimer(cur)
    /\ NextRoute
    /\ UNCHANGED <<pin, current_pos, train, reactivation, can_be_activated,
                   pin_change_msgq, gates, manual, expected>>

\* The scan ends one route short.
ScanMissesLast ==
    /\ MainAt("flash")
    /\ expected' = \E r \in 1 .. NumRoutes - 1 : OccupiedForFlash(r)
    /\ pc' = "arms"
    /\ UNCHANGED <<pin, current_pos, train, timers, pin_change_msgq, gates,
                   cur, manual, decided, on_island>>

\* crossing_gate_flash: scan the routes ...
ScanRoutes ==
    /\ MainAt("flash")
    /\ expected' = \E r \in Routes : OccupiedForFlash(r)
    /\ pc' = "arms"
    /\ UNCHANGED <<pin, current_pos, train, timers, pin_change_msgq, gates,
                   cur, manual, decided, on_island>>

LowerArms == arms' = "lowered" /\ produced' = "gates_inactive"
RaiseArms == arms' = "raised" /\ produced' = "gates_active"

\* ... and, when the flash state changes, move the arms.
SetFlash ==
    /\ MainAt("arms")
    /\ gate_flash_state' = expected
    /\ IF expected = gate_flash_state
         THEN UNCHANGED <<arms, produced>>
         ELSE IF expected THEN LowerArms ELSE RaiseArms
    /\ expected' = FALSE
    /\ pc' = "poll"
    /\ UNCHANGED <<pin, current_pos, train, timers, pin_change_msgq,
                   cur, manual, decided, on_island>>

Main ==
    \/ PollPinChange \/ HandleRoute \/ EnterRoute \/ SetHeading
    \/ MoveTrain \/ MoveMissed \/ TrainSeen \/ CheckIsland \/ RefreshTimer \/ ScanRoutes \/ SetFlash

-------------------------------------------------------------------------------
(* Interrupts, time and the track. *)

\* The timer clears the route but leaves the main thread asleep.
TimerExpiresSilently(r) ==
    /\ timeout[r] = 0
    /\ timeout' = [timeout EXCEPT ![r] = -1]
    /\ location' = [location EXCEPT ![r] = "unoccupied"]
    /\ direction' = [direction EXCEPT ![r] = "unknown"]
    /\ reactivation' = ReactivationAfter(r)
    /\ UNCHANGED <<pin, current_pos, debounce, can_be_activated, pin_change_msgq,
                   gates, local>>

\* crossing_gate_timer_expired: give the route up and wake the main thread.
TimerExpired(r) ==
    /\ timeout[r] = 0
    /\ timeout' = [timeout EXCEPT ![r] = -1]
    /\ IF location[r] # "unoccupied"
         THEN /\ location' = [location EXCEPT ![r] = "unoccupied"]
              /\ direction' = [direction EXCEPT ![r] = "unknown"]
              /\ reactivation' = ReactivationAfter(r)
              /\ pin_change_msgq' = Put(pin_change_msgq)
         ELSE UNCHANGED <<location, direction, reactivation, pin_change_msgq>>
    /\ UNCHANGED <<pin, current_pos, debounce, can_be_activated, gates, local>>

ReactivationExpired(r) ==
    /\ reactivation[r]
    /\ reactivation' = [reactivation EXCEPT ![r] = FALSE]
    /\ can_be_activated' = [can_be_activated EXCEPT ![r] = TRUE]
    /\ UNCHANGED <<pin, current_pos, train, timeout, pin_change_msgq, gates, local>>

\* An edge on an input: its level changes and input_change queues the pin.
InputChange(i) ==
    /\ pin' = [pin EXCEPT ![i] = ~@]
    /\ pin_change_msgq' = Put(pin_change_msgq)
    /\ UNCHANGED <<current_pos, train, timers, gates, local>>

\* A difference of times that is not stopped at zero.
CountOn(n) == n - 1

CountDown(n) == IF n > 0 THEN n - 1 ELSE n

\* Time passes.  A timer that reaches zero interrupts before any more time passes.
Tick ==
    /\ \A r \in Routes : timeout[r] # 0
    /\ timeout' = [r \in Routes |-> CountDown(timeout[r])]
    /\ debounce' = [r \in Routes |-> CountDown(debounce[r])]
    /\ UNCHANGED <<pin, current_pos, location, direction, reactivation,
                   can_be_activated, pin_change_msgq, gates, local>>

Next ==
    \/ Main
    \/ ManualActivation
    \/ \E s \in EventSwitch : SwitchEvent(s)
    \/ \E r \in Routes : TimerExpired(r) \/ ReactivationExpired(r)
    \/ \E i \in Input : InputChange(i)
    \/ Tick

Spec == Init /\ [][Next]_vars

\* The main thread is the only one of its priority and always runs again, the
\* interrupts that are due are taken, and time does not stop.  Nothing is
\* assumed of the track, of the turnouts or of the operator.
Fairness ==
    /\ WF_vars(Main)
    /\ WF_vars(Tick)
    /\ \A r \in Routes : WF_vars(TimerExpired(r))

FairSpec == Spec /\ Fairness

-------------------------------------------------------------------------------
(* Properties. *)

\* Every variable keeps its type; in particular the queue never exceeds its
\* capacity, and a stored direction or location is always one of the enum's.
TypeOK ==
    /\ pin \in [Input -> BOOLEAN]
    /\ current_pos \in [EventSwitch -> BOOLEAN]
    /\ location \in [Routes -> Location]
    /\ direction \in [Routes -> Direction]
    /\ debounce \in [Routes -> 0 .. Debounce]
    /\ timeout \in [Routes -> -1 .. Timeout]
    /\ reactivation \in [Routes -> BOOLEAN]
    /\ can_be_activated \in [Routes -> BOOLEAN]
    /\ pin_change_msgq \in 0 .. QueueSize
    /\ gate_flash_state \in BOOLEAN
    /\ arms \in {"raised", "lowered"}
    /\ produced \in {"none", "gates_active", "gates_inactive"}
    /\ pc \in {"poll", "check", "enter", "heading", "start", "move", "refresh",
               "restart", "flash", "arms"}
    /\ cur \in Routes
    /\ manual \in BOOLEAN
    /\ decided \in Direction \cup Location \cup {"none"}
    /\ on_island \in BOOLEAN
    /\ expected \in BOOLEAN
    /\ pc \in {"enter", "heading"} => decided \in {"ltr", "rtl"}
    /\ pc = "move" => decided \in Location

\* Once the main thread is back in k_poll with nothing queued, the gates are
\* active exactly when some route holds a train that has not passed the island,
\* although a timer may clear a route between any two steps of the update and
\* although a message is dropped when the queue is full.
GatesMatchTrains ==
    pc = "poll" /\ pin_change_msgq = 0 =>
        /\ gate_flash_state = \E r \in Routes : OccupiedForFlash(r)
        /\ arms = IF gate_flash_state THEN "lowered" ELSE "raised"

\* A route that holds a train always has its timer running (it is the main
\* thread's next step or two to start it otherwise), so no train that was lost
\* track of, in particular none whose direction an interrupt has wiped, keeps
\* the gates down for ever.
OccupiedRouteTimesOut ==
    \A r \in Routes :
        location[r] # "unoccupied" =>
            timeout[r] >= 0 \/ (cur = r /\ pc \in {"heading", "start"})

\* The arms rise only when no route is occupied at that very moment.
RaiseOnlyWhenClear ==
    [][arms = "lowered" /\ arms' = "raised" =>
          \A r \in Routes : location[r] \notin {"pre_island", "island_incoming", "island"}]_vars

\* A route stops calling for the gates only because its timer expired or because
\* both island sensors were clear when the main thread sampled them.
ReleasedByClearIslandOrTimeout ==
    [][\A r \in Routes :
          OccupiedForFlash(r) /\ ~OccupiedForFlash(r)' =>
              \/ timeout[r] = 0
              \/ pc = "move" /\ cur = r /\ ~on_island]_vars

\* If the track stays clear and nobody activates the gates by hand, the gates
\* end up inactive, whatever happened before.
ClearTrackRaisesGates ==
    <>[](\A i \in Input : ~pin[i]) /\ <>[][~ManualActivation]_vars
        => <>[](arms = "raised")

\* A train that enters a route gets the gates lowered, unless its route is
\* cleared again first.
TrainLowersGates ==
    \A r \in Routes :
        OccupiedForFlash(r) ~> (arms = "lowered" \/ ~OccupiedForFlash(r))

Calling == {r \in Routes : OccupiedForFlash(r)}

Keeper ==
    INSTANCE GateKeeper WITH
        calling <- Calling,
        atRest <- (pc = "poll" /\ pin_change_msgq = 0)

\* The controller implements GateKeeper, however the interrupts of its timers
\* fall between the steps of an update: it rests in k_poll with nothing queued.
KeepsTheGates == Keeper!Spec

-------------------------------------------------------------------------------
(* The invariant that makes these inductive. *)

SomeOccupied == \E r \in Routes : OccupiedForFlash(r)

\* A stale flash state always comes with a message that will wake the main
\* thread: only the timer interrupt clears a route behind its back, and the
\* message it puts outlives the one the running update has consumed.
StaleFlashWakes ==
    /\ arms = IF gate_flash_state THEN "lowered" ELSE "raised"
    /\ pc = "poll" => gate_flash_state = SomeOccupied \/ pin_change_msgq > 0
    /\ pc = "arms" /\ expected => SomeOccupied \/ pin_change_msgq > 0
    /\ pc = "arms" /\ ~expected => ~SomeOccupied

\* What the decision to move a train rests on still holds when it is stored.
DecisionStands ==
    pc = "move" =>
        /\ decided = "post_incoming" => ~on_island
        /\ decided \in {"post", "unoccupied"} => ~OccupiedForFlash(cur)

GateInv == TypeOK /\ StaleFlashWakes /\ OccupiedRouteTimesOut /\ DecisionStands

-------------------------------------------------------------------------------
(* What the configuration description says, and the code does not do. *)

\* A sensor can be configured as not used: such a sensor reports no train.
UnusedSensorsIgnored ==
    [][\A r \in Routes :
          pc = "check" /\ pc' = "enter" /\ cur = r =>
              \E role \in {"left", "right"} : SensorEnabled[r][role] /\ SensorValue(r, role)]_vars
===============================================================================
