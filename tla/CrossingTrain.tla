----------------------------- MODULE CrossingTrain -----------------------------
(***************************************************************************)
(* CrossingGate together with the track it guards: one route, its four     *)
(* sensors at positions 1, 3, 5 and 7 of the track, and trains that cross  *)
(* it one after the other, in either direction.  A train moves by one      *)
(* position at a time and covers a sensor from the moment its head reaches *)
(* it until its tail has left it.                                          *)
(*                                                                         *)
(* The controller is taken to be prompt: no time passes while the main     *)
(* thread still has work (an update takes far less than a tick).           *)
(***************************************************************************)
EXTENDS CrossingGate

CONSTANTS
    Lengths,    \* of the trains, in positions; odd: no two sensors change at once
    MinStay,    \* the fewest ticks a train spends at a position
    MaxStay,    \* the most ticks
    Headway     \* the ticks the track stays empty behind a train that overhangs

ASSUME TrainAssumption ==
    /\ NumRoutes = 1
    /\ 1 \in Enabled
    /\ \A a \in Role : Sensor[1][a] \in Input
    /\ \A a, b \in Role : Sensor[1][a] = Sensor[1][b] => a = b
    /\ DOMAIN SwitchNeeded[1] = {}
    /\ Lengths \subseteq Nat /\ \A n \in Lengths : n % 2 = 1
    /\ MinStay \in Nat /\ MaxStay \in Nat /\ MinStay <= MaxStay
    /\ Headway \in Nat

VARIABLES
    length,     \* of the train that is coming or on the route
    head,       \* how far the head of the train has come; 0 before the route
    from,       \* the end of the route it came in at
    dwell       \* the ticks it has spent there (bounded where it stops counting)

trackVars == <<length, head, from, dwell>>

\* The position of a sensor, measured from the end the train comes in at.
Ahead == [left |-> 1, left_island |-> 3, right_island |-> 5, right |-> 7]
Astern == [left |-> 7, left_island |-> 5, right_island |-> 3, right |-> 1]
Position(role) == IF from = "left" THEN Ahead[role] ELSE Astern[role]

Gone == 7 + length
Tail == head - length + 1

OnIsland == head >= 3 /\ Tail <= 5          \* any part of it
SpansIsland == head >= 5 /\ Tail <= 3       \* both sensors covered

\* Longer than the gap between the island and the sensor behind it: the head
\* reaches that sensor before the tail has left the island.
Overhangs == length >= 3

\* The main thread is waiting and no interrupt is due.
Quiet == MainAt("poll") /\ pin_change_msgq = 0

TrainInit ==
    /\ Init
    /\ length \in Lengths
    /\ head = 0
    /\ from \in {"left", "right"}
    /\ dwell = 0

\* The train moves on; the sensor its head reaches or its tail leaves changes.
MoveOn ==
    LET changed == {role \in Role :
                      Position(role) = head + 1 \/ Position(role) = head + 1 - length}
    IN  /\ head < Gone
        /\ dwell >= MinStay
        /\ head' = head + 1
        /\ dwell' = 0
        /\ UNCHANGED <<length, from>>
        /\ IF changed = {} THEN UNCHANGED vars
           ELSE \E role \in changed : InputChange(Sensor[1][role])

\* The next train comes once the last one is gone; behind one that overhangs the
\* route is left to its timer, and the next must not come before it has expired.
NextTrain ==
    /\ head = Gone
    /\ Overhangs => dwell >= Headway
    /\ length' \in Lengths
    /\ head' = 0
    /\ from' \in {"left", "right"}
    /\ dwell' = 0
    /\ UNCHANGED vars

\* A train on the route does not stay longer than MaxStay anywhere.
TimePasses ==
    /\ Quiet
    /\ head \in 1 .. Gone - 1 => dwell < MaxStay
    /\ dwell' = IF dwell < MaxStay + Headway THEN dwell + 1 ELSE dwell
    /\ UNCHANGED <<length, head, from>>
    /\ Tick

TrainNext ==
    \/ Main /\ UNCHANGED trackVars
    \/ (\E r \in Routes : TimerExpired(r) \/ ReactivationExpired(r)) /\ UNCHANGED trackVars
    \/ MoveOn
    \/ NextTrain
    \/ TimePasses

TrainSpec == TrainInit /\ [][TrainNext]_<<vars, trackVars>>

-------------------------------------------------------------------------------
\* The gates are down whenever any part of a train is on the island: what the
\* location tracking, the timer refreshes and the wake-ups are all there for.
IslandProtected == Quiet /\ OnIsland => arms = "lowered"

\* The gates are up again as soon as the tail of the train has left the island,
\* and not only when the route's timer gives the train up.
GatesRiseBehindTrain == Quiet /\ Tail > 5 => arms = "raised"

\* A train that has left the route leaves nothing behind that could take the
\* next one for a train already seen.
RouteFreeAfterTrain == Quiet /\ head = Gone /\ ~Overhangs => location[1] = "unoccupied"

\* However long a train covers both island sensors, the timer does not raise
\* the gates on it, since it is refreshed "while the island is actively occupied".
LongTrainKeepsGatesDown ==
    [][arms = "lowered" /\ arms' = "raised" /\ pin_change_msgq = 0 => ~SpansIsland]_<<vars, trackVars>>
-------------------------------------------------------------------------------
(* How fast trains may be, and the invariant that then holds. *)

\* Timer and debounce fit the trains: the debounce is over when a train reaches
\* the island, the timer outlasts two positions and the stretch in which a long
\* train touches no further sensor, and the next train stays away until it has
\* expired behind one that overhangs.
Paced ==
    /\ MinStay > 0
    /\ Debounce <= 2 * MinStay
    /\ 2 * MaxStay < Timeout
    /\ \A n \in Lengths : (n - 6) * MaxStay < Timeout
    /\ Timeout <= Headway

Heading == IF from = "left" THEN "ltr" ELSE "rtl"
Covers(n) == head - length < n /\ n <= head

\* The head has just reached a sensor, or the tail just left one.
AtEdge == head \in {1, 3, 5, 7} \/ head - length \in {1, 3, 5, 7}

\* Where the tracker has a train whose head has come to n.
PlaceAt(n) ==
    CASE n < 1 -> "unoccupied"
      [] n \in {1, 2} -> "pre_island"
      [] n \in {3, 4} -> "island_incoming"
      [] n >= 5 /\ n < 5 + length -> "island"
      [] n >= 5 + length /\ (Overhangs \/ n = 5 + length) -> "post_incoming"
      [] OTHER -> IF n < Gone THEN "post" ELSE "unoccupied"

\* Where the timer is restarted for sure: at every new location, and at every
\* edge while the sensor at the end of the island is covered.
Marks ==
    {1, 3, 5, 5 + length} \cup
    {n \in {7, 1 + length, 3 + length} : 5 <= n /\ n < 5 + length}

\* The main thread has an edge to handle and has not begun, or has not stopped.
Pending == (pc = "poll" /\ pin_change_msgq > 0) \/ pc = "check"
Busy == pc # "poll" \/ pin_change_msgq > 0

OnRoute == head > 0 /\ head < Gone

TrackOK ==
    /\ length \in Lengths
    /\ head \in 0 .. Gone
    /\ from \in {"left", "right"}
    /\ dwell \in 0 .. MaxStay + Headway
    /\ OnRoute => dwell <= MaxStay
    /\ can_be_activated[1] /\ ~manual

PinsFollowTrain == \A a \in Role : pin[Sensor[1][a]] <=> Covers(Position(a))

\* One message at a time, handled before the train moves on.
OneAtATime ==
    /\ pin_change_msgq <= 1
    /\ pc # "poll" => pin_change_msgq = 0 /\ timeout[1] # 0
    /\ Busy => dwell = 0 \/ head = Gone

\* The tracker follows the train, one edge behind while it handles that edge.
InStep ==
    OnRoute =>
        /\ location[1] = PlaceAt(IF Pending \/ pc \in {"enter", "move"} THEN head - 1 ELSE head)
        /\ location[1] # "unoccupied" /\ pc # "heading" => direction[1] = Heading
        /\ Busy => AtEdge
        /\ pc \in {"enter", "heading"} => head = 1 /\ decided = Heading
        /\ pc = "move" => head > 1 /\ decided = PlaceAt(head) /\ decided # location[1]

\* The debounce of a train that came in is over once its head is on the island.
DebounceOver ==
    location[1] # "unoccupied" =>
        \/ debounce[1] = 0
        \/ head = 1 /\ debounce[1] + dwell <= Debounce
        \/ head = 2 /\ debounce[1] + MinStay + dwell <= Debounce

\* What is left of the timer: it has not run longer than the train can have
\* taken since the head came to n.
RanSince(n) == timeout[1] + (head - n) * MaxStay + dwell >= Timeout

TimerRestarted ==
    OnRoute /\ location[1] # "unoccupied" /\ pc \notin {"heading", "start"} =>
        \A n \in Marks :
            /\ n < head => RanSince(n)
            /\ n = head =>
                \/ RanSince(n)
                \/ Pending \/ pc \in {"move", "restart"}
                \/ pc = "refresh" /\ location[1] = "island" /\ on_island

\* Behind a train, and before the next: the route is free, or is about to be
\* freed by the main thread, or by the timer.
FreeBehindTrain ==
    ~OnRoute =>
        /\ pc \in {"poll", "check", "move", "refresh", "flash", "arms"}
        /\ \/ location[1] = "unoccupied" /\ pc # "move"
           \/ /\ location[1] = "post"
              /\ Pending \/ (pc = "move" /\ decided = "unoccupied")
              /\ direction[1] # "unknown"
              /\ timeout[1] > 0 /\ dwell = 0
              /\ head = Gone => ~Overhangs
           \/ /\ location[1] = "post_incoming"
              /\ head = Gone /\ Overhangs /\ pc # "move"
              /\ timeout[1] + dwell <= Timeout
              /\ Busy => dwell = 0 /\ timeout[1] > 0
           \/ /\ location[1] = "post_incoming"
              /\ head = 0 /\ dwell = 0 /\ timeout[1] = 0 /\ ~Busy

TrainInv ==
    /\ TrackOK /\ PinsFollowTrain /\ OneAtATime
    /\ InStep /\ DebounceOver /\ TimerRestarted /\ FreeBehindTrain
===============================================================================
