------------------------------ MODULE PoolFares ------------------------------
(***************************************************************************)
(* The money of one driver's pools at full precision, one pool after the   *)
(* other: rides are quoted and stored with their distance as a decimal,    *)
(* join and leave the pool and are repriced from the stored distance,      *)
(* until the start copies their fares.                                     *)
(* Transactions are taken one at a time here; their interleaving, for      *)
(* fares that are only solo or pooled, is TeslaPool's.                     *)
(***************************************************************************)
EXTENDS Fare, FiniteSets

CONSTANTS Rides, Seats, Metres

ASSUME RidesAssumption ==
    /\ IsFiniteSet(Rides)
    /\ Seats \in [Rides -> Nat \ {0}]
    /\ Metres \in [Rides -> Nat \ {0}]

VARIABLES at,           \* where each ride is: not yet requested, waiting, aboard, left, done
          quoted,       \* history: what the passenger was quoted, solo and pooled
          distanceKm,   \* ride_requests.distance_km
          estimated,    \* ride_requests.estimated_fare_paisa
          fare,         \* pool_members.fare_paisa
          final,        \* ride_requests.final_fare_paisa
          started

vars == <<at, quoted, distanceKm, estimated, fare, final, started>>

NoFare == -1
NoQuote == [solo |-> NoFare, pooled |-> NoFare]
NoDistance == [whole |-> 0, frac |-> <<>>]

Aboard == {r \in Rides : at[r] = "aboard"}

Init ==
    /\ at = [r \in Rides |-> "none"]
    /\ quoted = [r \in Rides |-> NoQuote]
    /\ distanceKm = [r \in Rides |-> NoDistance]
    /\ estimated = [r \in Rides |-> NoFare]
    /\ fare = [r \in Rides |-> NoFare]
    /\ final = [r \in Rides |-> NoFare]
    /\ started = FALSE

\* quote and createRide: the passenger sees both prices; the solo one and the
\* distance are stored.
CreateRide(r) ==
    /\ at[r] = "none"
    /\ at' = [at EXCEPT ![r] = "waiting"]
    /\ quoted' = [quoted EXCEPT ![r] =
                     [solo   |-> CalculateFare(Metres[r], Seats[r], FALSE),
                      pooled |-> CalculateFare(Metres[r], Seats[r], TRUE)]]
    /\ distanceKm' = [distanceKm EXCEPT ![r] = Column(MilliKmToKm(Metres[r]))]
    /\ estimated' = [estimated EXCEPT ![r] = CalculateFare(Metres[r], Seats[r], FALSE)]
    /\ UNCHANGED <<fare, final, started>>

\* recalculatePoolFares for the given members, from their stored distances.
Recalculated(members) ==
    [r \in Rides |->
        IF r \in members
        THEN CalculateFare(KmToMilliKm(ToFixed3(distanceKm[r])), Seats[r],
                           IsPooled(Cardinality(members)))
        ELSE fare[r]]

\* createPool and addMemberToPool; whether there is room is TeslaPool's.
Join(r) ==
    /\ ~started /\ at[r] = "waiting"
    /\ at' = [at EXCEPT ![r] = "aboard"]
    /\ fare' = Recalculated(Aboard \cup {r})
    /\ UNCHANGED <<quoted, distanceKm, estimated, final, started>>

\* cancelRide of a member; the row that is left keeps its last fare.
Leave(r) ==
    /\ ~started /\ at[r] = "aboard"
    /\ at' = [at EXCEPT ![r] = "left"]
    /\ fare' = Recalculated(Aboard \ {r})
    /\ UNCHANGED <<quoted, distanceKm, estimated, final, started>>

\* lockPoolFares, when the trip starts.
Start ==
    /\ ~started /\ Aboard # {}
    /\ started' = TRUE
    /\ final' = [r \in Rides |-> IF r \in Aboard THEN fare[r] ELSE final[r]]
    /\ UNCHANGED <<at, quoted, distanceKm, estimated, fare>>

\* A request that nobody has accepted is cancelled, or goes to another driver.
Withdraw(r) ==
    /\ at[r] = "waiting"
    /\ at' = [at EXCEPT ![r] = "left"]
    /\ UNCHANGED <<quoted, distanceKm, estimated, fare, final, started>>

\* completePool: the members are delivered, the driver is free.
Complete ==
    /\ started
    /\ at' = [r \in Rides |-> IF r \in Aboard THEN "done" ELSE at[r]]
    /\ started' = FALSE
    /\ UNCHANGED <<quoted, distanceKm, estimated, fare, final>>

\* cancelPool: the members go back to the queue, their rows keep the fare.
CallOff ==
    /\ ~started
    /\ at' = [r \in Rides |-> IF r \in Aboard THEN "waiting" ELSE at[r]]
    /\ UNCHANGED <<quoted, distanceKm, estimated, fare, final, started>>

Next ==
    \/ \E r \in Rides : CreateRide(r) \/ Join(r) \/ Leave(r) \/ Withdraw(r)
    \/ Start \/ Complete \/ CallOff

Spec == Init /\ [][Next]_vars

-----------------------------------------------------------------------------
\* Whoever is aboard pays, to the paisa, one of the two prices they were quoted
\* before they asked: the solo one alone and the pooled one in company
\* (rides.service.ts:68, pool.fares.ts:16), and so does whoever was delivered.
\* The distance went through a decimal column in between.
ChargedAsQuoted ==
    /\ \A r \in Aboard :
        /\ fare[r] = IF Cardinality(Aboard) > 1 THEN quoted[r].pooled ELSE quoted[r].solo
        /\ started => final[r] = fare[r]
    /\ \A r \in Rides : at[r] = "done" => final[r] \in {quoted[r].solo, quoted[r].pooled}

\* Company is never dearer than the estimate the ride was stored with, and
\* however many share, each seat earns the driver the full base fare
\* (fare.ts:71).
FareWithinBounds ==
    \A r \in Aboard : BaseFare * Seats[r] <= fare[r] /\ fare[r] <= estimated[r]

\* Nobody pays more because somebody joined, nor less because somebody left
\* (pool.fares.ts:8).
CompanyHelps ==
    [][\A r \in Aboard \cap Aboard' :
          /\ Aboard \subseteq Aboard' => fare'[r] <= fare[r]
          /\ Aboard' \subseteq Aboard => fare'[r] >= fare[r]]_vars
=============================================================================
