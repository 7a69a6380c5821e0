----------------------------- MODULE TripBoard -----------------------------
(***************************************************************************)
(* What the pooling backend promises, with every operation atomic and no   *)
(* locks, snapshots or counters: each ride is on at most one trip, the     *)
(* people on a trip fit its vehicle and move together, a passenger asks    *)
(* for one ride at a time, leaving is possible until the trip starts, and  *)
(* a trip that is called off puts its people back in the queue.            *)
(*                                                                         *)
(* One thing is promised less than the code's comments say, because a      *)
(* cancel looks its ride up without a lock: a ride can be cancelled and    *)
(* still be on its trip.  Such a trip cannot move any more, and when it is *)
(* called off that ride is back in the queue with the others.              *)
(***************************************************************************)
EXTENDS Integers, FiniteSets

CONSTANTS Rides, Trips, Drivers, Owner, Seats, Capacity, Nowhere

VARIABLES
    journey,    \* where each ride is in its life
    board,      \* the status of each trip
    at,         \* the driver of each trip
    trip,       \* the trip each ride is on, or Nowhere
    revived     \* rides that were cancelled and are back in the queue

vars == <<journey, board, at, trip, revived>>

Init ==
    /\ journey = [r \in Rides |-> "none"]
    /\ board = [p \in Trips |-> "none"]
    /\ at = [p \in Trips |-> Nowhere]
    /\ trip = [r \in Rides |-> Nowhere]
    /\ revived = {}

On(p) == {r \in Rides : trip[r] = p}

Load(R) == Cardinality(UNION {{r} \X (1..Seats[r]) : r \in R})

UnderWay == {"REQUESTED", "MATCHED", "DRIVER_ARRIVED", "STARTED"}

Request(r) ==
    /\ journey[r] = "none"
    /\ \A s \in Rides \ revived : Owner[s] = Owner[r] => journey[s] \notin UnderWay
    /\ journey' = [journey EXCEPT ![r] = "REQUESTED"]
    /\ UNCHANGED <<board, at, trip, revived>>

\* A waiting ride gets on a trip that has room.
Board(r, p, d) ==
    /\ journey[r] = "REQUESTED"
    /\ Load(On(p) \cup {r}) <= Capacity[d]
    /\ journey' = [journey EXCEPT ![r] = "MATCHED"]
    /\ trip' = [trip EXCEPT ![r] = p]
    /\ UNCHANGED revived

Accept(r, p, d) ==
    /\ board[p] = "none"
    /\ Board(r, p, d)
    /\ board' = [board EXCEPT ![p] = "FORMING"]
    /\ at' = [at EXCEPT ![p] = d]

Join(r, p) ==
    /\ board[p] = "FORMING"
    /\ Board(r, p, at[p])
    /\ UNCHANGED <<board, at>>

Cancel(r) ==
    /\ journey[r] \in UnderWay \ {"STARTED"}
    /\ journey' = [journey EXCEPT ![r] = "CANCELLED"]
    /\ UNCHANGED <<board, at, revived>>

Leave(r) == Cancel(r) /\ trip' = [trip EXCEPT ![r] = Nowhere]

\* A cancel that lost sight of the trip.
LeaveBehind(r) == Cancel(r) /\ UNCHANGED trip

\* A trip and everyone on it take the next step together.
Move(p, from, to) ==
    /\ board[p] = from
    /\ \A r \in On(p) : journey[r] # "CANCELLED"
    /\ to = "STARTED" => On(p) # {}
    /\ board' = [board EXCEPT ![p] = to]
    /\ journey' = [r \in Rides |-> IF r \in On(p) THEN to ELSE journey[r]]
    /\ UNCHANGED <<at, trip, revived>>

CallOff(p) ==
    /\ board[p] \in {"FORMING", "DRIVER_ARRIVED"}
    /\ board' = [board EXCEPT ![p] = "CANCELLED"]
    /\ journey' = [r \in Rides |-> IF r \in On(p) THEN "REQUESTED" ELSE journey[r]]
    /\ trip' = [r \in Rides |-> IF r \in On(p) THEN Nowhere ELSE trip[r]]
    /\ revived' = revived \cup {r \in On(p) : journey[r] = "CANCELLED"}
    /\ UNCHANGED at

Next ==
    \/ \E r \in Rides : Request(r) \/ Leave(r) \/ LeaveBehind(r)
    \/ \E r \in Rides, p \in Trips, d \in Drivers : Accept(r, p, d)
    \/ \E r \in Rides, p \in Trips : Join(r, p)
    \/ \E p \in Trips : \/ Move(p, "FORMING", "DRIVER_ARRIVED")
                        \/ Move(p, "DRIVER_ARRIVED", "STARTED")
                        \/ Move(p, "STARTED", "COMPLETED")
                        \/ CallOff(p)

Spec == Init /\ [][Next]_vars
=============================================================================
