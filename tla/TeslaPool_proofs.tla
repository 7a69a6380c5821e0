-------------------------- MODULE TeslaPool_proofs --------------------------
(***************************************************************************)
(* Theorems about TeslaPool for every set of rides, pools, drivers and     *)
(* requests.  The argument is a rely-guarantee one.  The rows satisfy      *)
(* RowsOK, which the writes preserve as long as what each running request  *)
(* knows about the rows (RequestOK) is true when it writes.  What a        *)
(* request knows stays true because of what the steps of the others        *)
(* guarantee: they respect its row locks.                                  *)
(***************************************************************************)
EXTENDS TeslaPool, FiniteSetTheorems, TLAPS

-----------------------------------------------------------------------------
(* The inductive invariant.                                                *)

\* The members of a pool: an inserted pool has a driver, only its members have
\* fares, a cancelled pool is empty, and a membership ends with its pool or
\* with a ride that was cancelled and rides no more.
MembersOK ==
    \A p \in Pools :
        /\ pool[p] # None => poolDriver[p] \in Drivers
        /\ \A r \in Rides :
              /\ memb[p][r] # None => pool[p] # None
              /\ memb[p][r] = "aboard" => pool[p] # "CANCELLED" /\ fare[p][r] \in Fare
              /\ memb[p][r] = "left" =>
                    \/ pool[p] = "CANCELLED"
                    \/ ride[r] = "CANCELLED" /\ \A q \in Pools : memb[q][r] # "aboard"

\* A ride that is waiting, or not made yet, is in no pool.
WaitingOK ==
    \A r \in Rides, p \in Pools : ride[r] \in {None, "REQUESTED"} => memb[p][r] # "aboard"

\* A ride is in one pool at most (OneTrip, without the set of its pools).
NoTwoTrips ==
    \A r \in Rides, p, q \in Pools :
        memb[p][r] = "aboard" /\ memb[q][r] = "aboard" => p = q

\* The counter never passes the vehicle's capacity.
CounterFits == \A p \in Pools : pool[p] # None => seatsTaken[p] <= Capacity[poolDriver[p]]

RowsOK ==
    /\ MembersOK
    /\ WaitingOK
    /\ NoTwoTrips
    /\ SeatsReconcile
    /\ CounterFits
    /\ OneStory

\* The labels at which a request knows its ride, its pool, its driver.
RideLabels == {"insertRide", "loadMembers", "lockTrip", "cancelRide", "lockDriver",
               "createPool", "claimSeats", "addMember"}
PoolLabels == {"lockTrip", "claimSeats", "addMember", "arrive", "start", "complete",
               "cancelPool"}
DriverLabels == {"lockDriver", "createPool", "goOffline"}

\* The labels at which a request holds the row of its pool.
HoldingLabels == {"addMember", "arrive", "start", "complete", "cancelPool"}

\* What a request carries fits its label.
ArgumentsOK(t) ==
    /\ pc[t] \in RideLabels => req[t].ride \in Rides
    /\ pc[t] \in PoolLabels => req[t].pool \in Pools
    /\ pc[t] \in DriverLabels => req[t].driver \in Drivers
    /\ pc[t] \in {"claimSeats", "addMember"} => req[t].fares[req[t].ride] = None
    /\ pc[t] \in {"lockDriver", "createPool"} => Seats[req[t].ride] <= Capacity[req[t].driver]

\* An insert holds the passenger's row, and no one has inserted the ride.
InsertOK(t) ==
    pc[t] = "insertRide" =>
        ride[req[t].ride] = None /\ userLock[Owner[req[t].ride]] = t

\* A cancel is of a ride that exists; its last step knows a cancellable status
\* and a pool that the ride is or was in.
CancelOK(t) ==
    /\ pc[t] \in {"loadMembers", "lockTrip", "cancelRide"} => ride[req[t].ride] # None
    /\ pc[t] = "loadMembers" => req[t].seen \in RideStatus
    /\ pc[t] = "cancelRide" =>
          /\ req[t].seen \in {"REQUESTED", "MATCHED", "DRIVER_ARRIVED"}
          /\ req[t].pool # Null => memb[req[t].pool][req[t].ride] # None

\* Who holds the row of its pool holds the row of a trip that is not over.
HoldingOK(t) ==
    pc[t] \in HoldingLabels =>
        poolLock[req[t].pool] = t /\ pool[req[t].pool] \in ActivePoolStatus

\* Claimed seats are still free, and the pool still forming, at the commit.
ClaimOK(t) ==
    pc[t] = "addMember" =>
        LET p == req[t].pool
        IN  /\ pool[p] = "FORMING"
            /\ seatsTaken[p] + Seats[req[t].ride] <= Capacity[poolDriver[p]]

\* The members of a pool about to be called off have not started; they can be
\* cancelled behind the driver's back only.
CallOffOK(t) ==
    pc[t] = "cancelPool" =>
        \A r \in Rides : memb[req[t].pool][r] = "aboard" =>
            ride[r] \in {"MATCHED", "DRIVER_ARRIVED", "CANCELLED"}

RequestOK(t) ==
    /\ ArgumentsOK(t)
    /\ InsertOK(t)
    /\ CancelOK(t)
    /\ HoldingOK(t)
    /\ ClaimOK(t)
    /\ CallOffOK(t)

IInv ==
    /\ TypeOK
    /\ RowsOK
    /\ \A t \in Tx : RequestOK(t)

-----------------------------------------------------------------------------
(* The transitions of the lifecycle tables, one by one.                    *)

\* RIDE_RULES row by row.
LEMMA RideRules ==
    ASSUME NEW to, NEW actor
    PROVE  /\ CanTransitionRide("REQUESTED", to, actor)
                <=> \/ to = "MATCHED" /\ actor = "DRIVER"
                    \/ to = "CANCELLED" /\ actor = "PASSENGER"
           /\ CanTransitionRide("MATCHED", to, actor)
                <=> \/ to = "DRIVER_ARRIVED" /\ actor = "DRIVER"
                    \/ to = "CANCELLED" /\ actor = "PASSENGER"
                    \/ to = "REQUESTED" /\ actor = "SYSTEM"
           /\ CanTransitionRide("DRIVER_ARRIVED", to, actor)
                <=> \/ to = "STARTED" /\ actor = "DRIVER"
                    \/ to = "CANCELLED" /\ actor \in {"PASSENGER", "DRIVER"}
                    \/ to = "REQUESTED" /\ actor = "SYSTEM"
           /\ CanTransitionRide("STARTED", to, actor)
                <=> to = "COMPLETED" /\ actor = "DRIVER"
           /\ ~CanTransitionRide("COMPLETED", to, actor)
           /\ ~CanTransitionRide("CANCELLED", to, actor)
<1>1. /\ RIDE_RULES["REQUESTED"] = {Rule("MATCHED", {"DRIVER"}),
                                    Rule("CANCELLED", {"PASSENGER"})}
      /\ RIDE_RULES["MATCHED"] = {Rule("DRIVER_ARRIVED", {"DRIVER"}),
                                  Rule("CANCELLED", {"PASSENGER"}),
                                  Rule("REQUESTED", {"SYSTEM"})}
      /\ RIDE_RULES["DRIVER_ARRIVED"] = {Rule("STARTED", {"DRIVER"}),
                                         Rule("CANCELLED", {"PASSENGER", "DRIVER"}),
                                         Rule("REQUESTED", {"SYSTEM"})}
      /\ RIDE_RULES["STARTED"] = {Rule("COMPLETED", {"DRIVER"})}
      /\ RIDE_RULES["COMPLETED"] = {}
      /\ RIDE_RULES["CANCELLED"] = {}
    BY DEF RIDE_RULES
<1>2. \A dest, actors : Rule(dest, actors).to = dest /\ Rule(dest, actors).actors = actors
    BY DEF Rule
<1> QED BY <1>1, <1>2 DEF CanTransitionRide

\* What a driver may do to a member's ride, and when a ride may be cancelled or
\* requeued.
LEMMA RideMoves ==
    ASSUME NEW from \in RideStatus
    PROVE  /\ CanTransitionRide(from, "DRIVER_ARRIVED", "DRIVER") <=> from = "MATCHED"
           /\ CanTransitionRide(from, "STARTED", "DRIVER") <=> from = "DRIVER_ARRIVED"
           /\ CanTransitionRide(from, "COMPLETED", "DRIVER") <=> from = "STARTED"
           /\ CanTransitionRide(from, "CANCELLED", "PASSENGER")
                <=> from \in {"REQUESTED", "MATCHED", "DRIVER_ARRIVED"}
           /\ CanRequeue(from) <=> from \in {"MATCHED", "DRIVER_ARRIVED"}
BY RideRules DEF RideStatus, CanRequeue

\* POOL_RULES row by row.
LEMMA PoolRules ==
    ASSUME NEW to, NEW actor
    PROVE  /\ CanTransitionPool("FORMING", to, actor)
                <=> to \in {"DRIVER_ARRIVED", "CANCELLED"} /\ actor = "DRIVER"
           /\ CanTransitionPool("DRIVER_ARRIVED", to, actor)
                <=> to \in {"STARTED", "CANCELLED"} /\ actor = "DRIVER"
           /\ CanTransitionPool("STARTED", to, actor)
                <=> to = "COMPLETED" /\ actor = "DRIVER"
           /\ ~CanTransitionPool("COMPLETED", to, actor)
           /\ ~CanTransitionPool("CANCELLED", to, actor)
<1>1. /\ POOL_RULES["FORMING"] = {Rule("DRIVER_ARRIVED", {"DRIVER"}),
                                  Rule("CANCELLED", {"DRIVER"})}
      /\ POOL_RULES["DRIVER_ARRIVED"] = {Rule("STARTED", {"DRIVER"}),
                                         Rule("CANCELLED", {"DRIVER"})}
      /\ POOL_RULES["STARTED"] = {Rule("COMPLETED", {"DRIVER"})}
      /\ POOL_RULES["COMPLETED"] = {}
      /\ POOL_RULES["CANCELLED"] = {}
    BY DEF POOL_RULES
<1>2. \A dest, actors : Rule(dest, actors).to = dest /\ Rule(dest, actors).actors = actors
    BY DEF Rule
<1> QED BY <1>1, <1>2 DEF CanTransitionPool

\* A pool that can still move is not over.
LEMMA PoolMoves ==
    ASSUME NEW from \in PoolStatus, NEW to, NEW actor, CanTransitionPool(from, to, actor)
    PROVE  from \in ActivePoolStatus
BY PoolRules DEF PoolStatus, ActivePoolStatus, TerminalPoolStatus

-----------------------------------------------------------------------------
(* Counting seats.                                                         *)

\* A set of rides needs finitely many seats.
LEMMA SeatUnitsFinite ==
    ASSUME NEW R \in SUBSET Rides
    PROVE  IsFiniteSet(SeatUnits(R))
<1> DEFINE block == [r \in R |-> {r} \X (1..Seats[r])]
           blocks == {{r} \X (1..Seats[r]) : r \in R}
<1>1. IsFiniteSet(R)
    BY FS_Subset, RidesAssumption
<1>2. block \in Surjection(R, blocks)
    BY DEF Surjection
<1>3. IsFiniteSet(blocks)
    BY <1>1, <1>2, FS_Surjection
<1>4. ASSUME NEW r \in R PROVE IsFiniteSet({r} \X (1..Seats[r]))
  <2>1. Seats[r] \in Int /\ 1 \in Int
    BY RidesAssumption
  <2>2. IsFiniteSet(1..Seats[r])
    BY <2>1, FS_Interval
  <2>3. IsFiniteSet({r})
    BY FS_Singleton
  <2> QED BY <2>2, <2>3, FS_Product
<1>5. \A B \in blocks : IsFiniteSet(B)
    BY <1>4
<1> HIDE DEF blocks
<1>6. IsFiniteSet(UNION blocks)
    BY <1>3, <1>5, FS_UNION
<1> QED BY <1>6 DEF SeatUnits, blocks

\* Nobody needs no seat.
LEMMA SeatsOfNobody == SeatsOf({}) = 0
<1>1. SeatUnits({}) = {}
    BY DEF SeatUnits
<1> QED BY <1>1, FS_EmptySet DEF SeatsOf

\* Who joins needs his own seats on top of those already needed.
LEMMA SeatsOfMore ==
    ASSUME NEW R \in SUBSET Rides, NEW r \in Rides, r \notin R
    PROVE  /\ SeatsOf(R) \in Nat
           /\ SeatsOf(R \cup {r}) = SeatsOf(R) + Seats[r]
<1> DEFINE own == {r} \X (1..Seats[r])
<1>1. SeatUnits(R \cup {r}) = SeatUnits(R) \cup own
    BY DEF SeatUnits
<1>2. SeatUnits(R) \cap own = {}
    BY DEF SeatUnits
<1>3. Seats[r] \in Nat /\ Seats[r] >= 1
    BY RidesAssumption
<1>4. IsFiniteSet({r}) /\ Cardinality({r}) = 1
    BY FS_Singleton
<1>5. IsFiniteSet(own) /\ Cardinality(own) = Seats[r]
  <2>1. 1 \in Int /\ Seats[r] \in Int
    BY <1>3
  <2>2. /\ IsFiniteSet(1..Seats[r])
        /\ Cardinality(1..Seats[r]) = IF 1 > Seats[r] THEN 0 ELSE Seats[r] - 1 + 1
    BY <2>1, FS_Interval
  <2>3. Cardinality(1..Seats[r]) = Seats[r]
    BY <2>2, <1>3
  <2>4. /\ IsFiniteSet(own)
        /\ Cardinality(own) = Cardinality({r}) * Cardinality(1..Seats[r])
    BY <1>4, <2>2, FS_Product
  <2>5. Cardinality(own) = 1 * Seats[r]
    BY <1>4, <2>3, <2>4
  <2> QED BY <1>3, <2>4, <2>5
<1>6. IsFiniteSet(SeatUnits(R)) /\ Cardinality(SeatUnits(R)) \in Nat
    BY SeatUnitsFinite, FS_CardinalityType
<1> HIDE DEF own
<1>7. Cardinality(SeatUnits(R) \cup own) = Cardinality(SeatUnits(R)) + Cardinality(own) - 0
  <2>1. Cardinality(SeatUnits(R) \cap own) = 0
    BY <1>2, FS_EmptySet
  <2>2. Cardinality(SeatUnits(R) \cup own)
          = Cardinality(SeatUnits(R)) + Cardinality(own) - Cardinality(SeatUnits(R) \cap own)
    BY <1>5, <1>6, FS_Union
  <2> QED BY <2>1, <2>2
<1>8. SeatsOf(R) = Cardinality(SeatUnits(R))
      /\ SeatsOf(R \cup {r}) = Cardinality(SeatUnits(R) \cup own)
    BY <1>1 DEF SeatsOf
<1> QED BY <1>3, <1>5, <1>6, <1>7, <1>8

\* Who leaves gives back what he took.
LEMMA SeatsOfFewer ==
    ASSUME NEW R \in SUBSET Rides, NEW r \in R
    PROVE  /\ SeatsOf(R) \in Nat
           /\ SeatsOf(R \ {r}) \in Nat
           /\ SeatsOf(R) >= Seats[r]
           /\ SeatsOf(R \ {r}) = SeatsOf(R) - Seats[r]
<1>1. /\ R \ {r} \in SUBSET Rides
      /\ r \in Rides
      /\ r \notin R \ {r}
      /\ (R \ {r}) \cup {r} = R
    OBVIOUS
<1>2. SeatsOf(R \ {r}) \in Nat /\ SeatsOf(R) = SeatsOf(R \ {r}) + Seats[r]
    BY <1>1, SeatsOfMore
<1> QED BY <1>1, <1>2, RidesAssumption

-----------------------------------------------------------------------------
(* The steps of a request that write no row.                               *)

\* How a step may change the row locks.
LocksMove(t) ==
    \/ LocksKept
    \/ \E p \in Pools : LockPoolRow(t, p)
    \/ \E u \in Users : LockUserRow(t, u)
    \/ /\ poolLock' = [p \in Pools |-> IF poolLock[p] = t THEN Null ELSE poolLock[p]]
       /\ userLock' = [u \in Users |-> IF userLock[u] = t THEN Null ELSE userLock[u]]

Quiet(t) ==
    /\ UNCHANGED db
    /\ LocksMove(t)
    /\ pc' = [pc EXCEPT ![t] = pc'[t]]
    /\ req' = [req EXCEPT ![t] = req'[t]]
    /\ pc'[t] \in PC
    /\ req'[t] \in Request

\* An empty request is a request.
LEMMA EmptyRequest ==
    /\ NoFares \in [Rides -> Fare \cup {None}]
    /\ NoRequest \in Request
BY DEF NoFares, NoRequest, Request

\* A free slot knows nothing that could become false.
LEMMA IdleKnowsNothing ==
    ASSUME NEW t \in Tx, pc'[t] = "idle"
    PROVE  RequestOK(t)'
BY DEF RequestOK, ArgumentsOK, InsertOK, CancelOK, HoldingOK, ClaimOK, CallOffOK,
       RideLabels, PoolLabels, DriverLabels, HoldingLabels

\* A request that rolls back writes nothing.
LEMMA RollBackIsQuiet ==
    ASSUME TypeOK, NEW t \in Tx, RollBack(t)
    PROVE  Quiet(t) /\ RequestOK(t)'
<1>1. pc'[t] = "idle" /\ req'[t] = NoRequest
    BY DEF TypeOK, RollBack, End, Goto
<1>2. RequestOK(t)'
    BY <1>1, IdleKnowsNothing
<1> QED BY <1>1, <1>2, EmptyRequest DEF RollBack, End, Goto, Quiet, LocksMove, PC, TypeOK

\* A step that only moves its own request on, and its locks, is quiet.
LEMMA GotoIsQuiet ==
    ASSUME TypeOK, NEW t \in Tx, NEW label \in PC, NEW q \in Request,
           Goto(t, label, q), UNCHANGED db, LocksMove(t)
    PROVE  Quiet(t) /\ pc'[t] = label /\ req'[t] = q
BY DEF Goto, Quiet, TypeOK

\* loadOwnedPool locks one pool row.
LEMMA LockedPoolIsQuiet ==
    ASSUME TypeOK, NEW t \in Tx, NEW p \in Pools, NEW label \in PC,
           LockOwnedPool(t, p, label)
    PROVE  Quiet(t) /\ pc'[t] = label /\ req'[t].pool = p /\ poolLock'[p] = t
<1> DEFINE q == [NoRequest EXCEPT !.pool = p]
<1>1. q \in Request /\ q.pool = p
    BY EmptyRequest DEF NoRequest, Request
<1>2. Goto(t, label, q) /\ UNCHANGED db /\ LockPoolRow(t, p)
    BY DEF LockOwnedPool
<1> HIDE DEF q
<1>3. LocksMove(t)
    BY <1>2 DEF LocksMove
<1>4. Quiet(t) /\ pc'[t] = label /\ req'[t] = q
    BY <1>1, <1>2, <1>3, GotoIsQuiet
<1>5. poolLock'[p] = t
    BY <1>2 DEF LockPoolRow, TypeOK
<1> QED BY <1>1, <1>4, <1>5

\* Each request's opening step writes nothing, and what it then knows is true.
LEMMA AskIsQuiet ==
    ASSUME IInv, NEW t \in Tx, Ask(t)
    PROVE  Quiet(t) /\ RequestOK(t)'
<1> USE EmptyRequest, TxAssumption
<1>1. TypeOK
    BY DEF IInv
<1>2. ASSUME NEW r \in Rides, CreateRide(t, r) PROVE Quiet(t) /\ RequestOK(t)'
  <2> DEFINE q == [NoRequest EXCEPT !.ride = r]
  <2>1. Owner[r] \in Users
    BY RidesAssumption DEF Users
  <2>a. LocksMove(t)
    BY <1>2, <2>1 DEF CreateRide, LocksMove
  <2>b. UNCHANGED db /\ Goto(t, "insertRide", q)
    BY <1>2 DEF CreateRide
  <2>c. q \in Request /\ q.ride = r
    BY DEF NoRequest, Request
  <2> HIDE DEF q
  <2>2. Quiet(t) /\ pc'[t] = "insertRide" /\ req'[t].ride = r
    BY <1>1, <2>a, <2>b, <2>c, GotoIsQuiet DEF PC
  <2>3. ride'[r] = None /\ userLock'[Owner[r]] = t
    BY <1>1, <1>2, <2>1 DEF CreateRide, TypeOK, LockUserRow, db, rideRows
  <2> QED
    BY <2>2, <2>3 DEF RequestOK, ArgumentsOK, InsertOK, CancelOK, HoldingOK, ClaimOK,
       CallOffOK, RideLabels, PoolLabels, DriverLabels, HoldingLabels
<1>3. ASSUME NEW r \in Rides, CancelRide(t, r) PROVE Quiet(t) /\ RequestOK(t)'
  <2> DEFINE q == [NoRequest EXCEPT !.ride = r, !.seen = ride[r]]
  <2>a. ride[r] \in RideStatus
    BY <1>1, <1>3 DEF CancelRide, TypeOK
  <2>b. q \in Request /\ q.ride = r /\ q.seen = ride[r]
    BY <2>a DEF NoRequest, Request
  <2>c. UNCHANGED db /\ Goto(t, "loadMembers", q) /\ LocksMove(t) /\ ride[r] # None
    BY <1>3 DEF CancelRide, LocksMove
  <2> HIDE DEF q
  <2>1. Quiet(t) /\ pc'[t] = "loadMembers" /\ req'[t] = q
    BY <1>1, <2>b, <2>c, GotoIsQuiet DEF PC
  <2>2. /\ pc'[t] = "loadMembers" /\ req'[t].ride = r /\ ride'[r] # None
        /\ req'[t].seen \in RideStatus
    BY <2>a, <2>b, <2>c, <2>1 DEF db, rideRows
  <2> QED
    BY <2>1, <2>2 DEF RequestOK, ArgumentsOK, InsertOK, CancelOK, HoldingOK, ClaimOK,
       CallOffOK, RideLabels, PoolLabels, DriverLabels, HoldingLabels
<1>4. ASSUME NEW d \in Drivers, NEW r \in Rides, BeginCreatePool(t, d, r)
      PROVE  Quiet(t) /\ RequestOK(t)'
  <2> DEFINE q == [NoRequest EXCEPT !.ride = r, !.driver = d]
  <2>a. q \in Request /\ q.ride = r /\ q.driver = d
    BY DEF NoRequest, Request
  <2>b. UNCHANGED db /\ Goto(t, "lockDriver", q) /\ LocksMove(t)
    BY <1>4 DEF BeginCreatePool, LocksMove
  <2> HIDE DEF q
  <2>1. Quiet(t) /\ pc'[t] = "lockDriver" /\ req'[t] = q
    BY <1>1, <2>a, <2>b, GotoIsQuiet DEF PC
  <2>2. pc'[t] = "lockDriver" /\ req'[t].ride = r /\ req'[t].driver = d
    BY <2>a, <2>1
  <2>3. Seats[r] <= Capacity[d]
    BY <1>4 DEF BeginCreatePool
  <2> QED
    BY <2>1, <2>2, <2>3 DEF RequestOK, ArgumentsOK, InsertOK, CancelOK, HoldingOK, ClaimOK,
       CallOffOK, RideLabels, PoolLabels, DriverLabels, HoldingLabels
<1>5. ASSUME NEW p \in Pools, NEW r \in Rides, BeginAddMember(t, p, r)
      PROVE  Quiet(t) /\ RequestOK(t)'
  <2>1. memb[p][r] # "aboard"
    BY <1>5 DEF BeginAddMember, OpenForMatching, TripsOf
  <2>2. ASSUME NEW m \in Rides, memb[p][m] = "aboard" PROVE fare[p][m] \in Fare
    BY <2>2 DEF IInv, RowsOK, MembersOK
  <2>3. FaresOf(p) \in [Rides -> Fare \cup {None}] /\ FaresOf(p)[r] = None
    BY <2>1, <2>2 DEF FaresOf, Aboard
  <2> DEFINE q == [NoRequest EXCEPT !.ride = r, !.pool = p, !.fares = FaresOf(p)]
  <2>a. q \in Request /\ q.ride = r /\ q.pool = p /\ q.fares[r] = None
    BY <2>3 DEF NoRequest, Request
  <2>b. UNCHANGED db /\ Goto(t, "claimSeats", q) /\ LocksMove(t)
    BY <1>5 DEF BeginAddMember, LocksMove
  <2> HIDE DEF q
  <2>4. Quiet(t) /\ pc'[t] = "claimSeats" /\ req'[t] = q
    BY <1>1, <2>a, <2>b, GotoIsQuiet DEF PC
  <2>5. /\ pc'[t] = "claimSeats" /\ req'[t].ride = r /\ req'[t].pool = p
        /\ req'[t].fares[r] = None
    BY <2>a, <2>4
  <2> QED
    BY <2>4, <2>5 DEF RequestOK, ArgumentsOK, InsertOK, CancelOK, HoldingOK, ClaimOK,
       CallOffOK, RideLabels, PoolLabels, DriverLabels, HoldingLabels
<1>6. ASSUME NEW p \in Pools, NEW label \in {"arrive", "start", "complete"},
             pool[p] \in ActivePoolStatus, LockOwnedPool(t, p, label)
      PROVE  Quiet(t) /\ RequestOK(t)'
  <2>1. Quiet(t) /\ pc'[t] = label /\ req'[t].pool = p /\ poolLock'[p] = t
    BY <1>1, <1>6, LockedPoolIsQuiet DEF PC
  <2>2. pool'[p] \in ActivePoolStatus
    BY <1>6 DEF LockOwnedPool, db, poolRows
  <2> QED
    BY <2>1, <2>2 DEF RequestOK, ArgumentsOK, InsertOK, CancelOK, HoldingOK, ClaimOK,
       CallOffOK, RideLabels, PoolLabels, DriverLabels, HoldingLabels
<1>7. ASSUME NEW p \in Pools, BeginCancelPool(t, p) PROVE Quiet(t) /\ RequestOK(t)'
  <2>a. LockOwnedPool(t, p, "cancelPool")
    BY <1>7 DEF BeginCancelPool
  <2>1. Quiet(t) /\ pc'[t] = "cancelPool" /\ req'[t].pool = p /\ poolLock'[p] = t
    BY <1>1, <2>a, LockedPoolIsQuiet DEF PC
  <2>2. pool' = pool /\ ride' = ride /\ memb' = memb
    BY <2>a DEF LockOwnedPool, db, rideRows, poolRows
  <2>3. ASSUME NEW r \in Rides, memb[p][r] = "aboard"
        PROVE  ride[r] \in {"MATCHED", "DRIVER_ARRIVED"}
    <3>1. CanRequeue(ride[r])
      BY <1>7, <2>3 DEF BeginCancelPool, Aboard
    <3>2. ride[r] \in RideStatus
      BY <1>1, <2>3 DEF IInv, RowsOK, WaitingOK, TypeOK
    <3> QED BY <3>1, <3>2, RideMoves
  <2>4. pool[p] \in ActivePoolStatus
    BY <1>1, <1>7, PoolMoves DEF BeginCancelPool, TypeOK
  <2>5. ArgumentsOK(t)' /\ InsertOK(t)' /\ CancelOK(t)' /\ ClaimOK(t)'
    BY <2>1 DEF ArgumentsOK, InsertOK, CancelOK, ClaimOK, RideLabels, PoolLabels, DriverLabels
  <2>6. HoldingOK(t)' /\ CallOffOK(t)'
    BY <2>1, <2>2, <2>3, <2>4 DEF HoldingOK, CallOffOK
  <2> QED BY <2>1, <2>5, <2>6 DEF RequestOK
<1>8. ASSUME NEW d \in Drivers, CheckOffline(t, d) PROVE Quiet(t) /\ RequestOK(t)'
  <2> DEFINE q == [NoRequest EXCEPT !.driver = d]
  <2>a. q \in Request /\ q.driver = d
    BY DEF NoRequest, Request
  <2>b. UNCHANGED db /\ Goto(t, "goOffline", q) /\ LocksMove(t)
    BY <1>8 DEF CheckOffline, LocksMove
  <2> HIDE DEF q
  <2>1. Quiet(t) /\ pc'[t] = "goOffline" /\ req'[t] = q
    BY <1>1, <2>a, <2>b, GotoIsQuiet DEF PC
  <2>2. pc'[t] = "goOffline" /\ req'[t].driver = d
    BY <2>a, <2>1
  <2> QED
    BY <2>1, <2>2 DEF RequestOK, ArgumentsOK, InsertOK, CancelOK, HoldingOK, ClaimOK,
       CallOffOK, RideLabels, PoolLabels, DriverLabels, HoldingLabels
<1>9. ASSUME NEW p \in Pools, NEW to \in {"DRIVER_ARRIVED", "STARTED", "COMPLETED"},
             MayAdvance(p, to)
      PROVE  pool[p] \in ActivePoolStatus
    BY <1>1, <1>9, PoolMoves DEF MayAdvance, TypeOK
<1> QED
    BY <1>2, <1>3, <1>4, <1>5, <1>6, <1>7, <1>8, <1>9
       DEF Ask, BeginArrive, BeginStart, BeginComplete

\* The steps of a running request that wait, look or refuse write nothing, and
\* what it then knows is true.
WaitOrRefuse(t) ==
    \/ LoadMembers(t) \/ LockTrip(t) \/ RefuseCancelRide(t)
    \/ LockDriver(t) \/ RefuseCreatePool(t)
    \/ ClaimSeats(t) \/ RefuseClaimSeats(t) \/ RefuseAddMember(t)
    \/ RefuseAdvance(t)
    \/ Abort(t)

LEMMA WaitIsQuiet ==
    ASSUME IInv, NEW t \in Tx, WaitOrRefuse(t)
    PROVE  Quiet(t) /\ RequestOK(t)'
<1> USE EmptyRequest, TxAssumption
<1>1. TypeOK /\ RequestOK(t)
    BY DEF IInv
<1>2. CASE LoadMembers(t)
  <2> DEFINE q      == req[t]
             target == TripOf(q.ride)
             next   == [q EXCEPT !.pool = target]
  <2>1. pc[t] = "loadMembers" /\ q \in Request /\ q.ride \in Rides /\ ride[q.ride] # None
    BY <1>1, <1>2
       DEF LoadMembers, TypeOK, RequestOK, ArgumentsOK, CancelOK, RideLabels
  <2>2. q.seen \in RideStatus
    BY <1>1, <2>1 DEF RequestOK, CancelOK
  <2>3. /\ target \in Pools \cup {Null}
        /\ target # Null => target \in Pools /\ memb[target][q.ride] = "aboard"
    BY DEF TripOf, TripsOf
  <2>4. /\ next \in Request /\ next.ride = q.ride /\ next.seen = q.seen
        /\ next.pool = target
    <3> HIDE DEF q, target
    <3>1. q \in Request /\ target \in Pools \cup {Null}
      BY <2>1, <2>3
    <3> QED BY <3>1 DEF Request
  <2>5. ride' = ride /\ memb' = memb
    BY <1>2 DEF LoadMembers, db, rideRows, poolRows
  <2> HIDE DEF target, next
  <2>6. CASE Goto(t, "lockTrip", next) /\ LocksKept /\ target # Null
    <3>1. Quiet(t) /\ pc'[t] = "lockTrip" /\ req'[t] = next
      BY <1>1, <1>2, <2>4, <2>6, GotoIsQuiet DEF LoadMembers, LocksMove, PC
    <3> QED
      BY <3>1, <2>1, <2>3, <2>4, <2>5, <2>6 DEF RequestOK, ArgumentsOK, InsertOK, CancelOK,
         HoldingOK, ClaimOK, CallOffOK, RideLabels, PoolLabels, DriverLabels, HoldingLabels
  <2>7. CASE /\ Goto(t, "cancelRide", next) /\ LocksKept
             /\ CanTransitionRide(q.seen, "CANCELLED", "PASSENGER")
    <3>1. Quiet(t) /\ pc'[t] = "cancelRide" /\ req'[t] = next
      BY <1>1, <1>2, <2>4, <2>7, GotoIsQuiet DEF LoadMembers, LocksMove, PC
    <3>2. q.seen \in {"REQUESTED", "MATCHED", "DRIVER_ARRIVED"}
      BY <2>2, <2>7, RideMoves
    <3>3. next.pool # Null => memb'[next.pool][next.ride] # None
      BY <2>3, <2>4, <2>5 DEF None
    <3> QED
      BY <3>1, <3>2, <3>3, <2>1, <2>4, <2>5 DEF RequestOK, ArgumentsOK, InsertOK, CancelOK,
         HoldingOK, ClaimOK, CallOffOK, RideLabels, PoolLabels, DriverLabels, HoldingLabels
  <2>8. CASE End(t)
    BY <1>1, <1>2, <2>8, RollBackIsQuiet DEF LoadMembers, RollBack
  <2> QED BY <1>2, <2>6, <2>7, <2>8 DEF LoadMembers, Settled, target, next
<1>3. CASE LockTrip(t)
  <2> DEFINE q    == req[t]
             next == [q EXCEPT !.held = q.pool, !.pool = Null, !.pass = @ + 1,
                               !.seen = ride[q.ride]]
  <2>1. /\ pc[t] = "lockTrip" /\ req[t] \in Request /\ req[t].ride \in Rides
        /\ req[t].pool \in Pools /\ ride[req[t].ride] # None
    BY <1>1, <1>3 DEF LockTrip, TypeOK, RequestOK, ArgumentsOK, CancelOK, RideLabels, PoolLabels
  <2>2. LocksMove(t)
    BY <1>3, <2>1 DEF LockTrip, LocksMove
  <2>a. /\ next \in Request /\ next.ride = q.ride
        /\ next.seen = ride[q.ride]
    <3>1. q.pass + 1 \in Nat /\ ride[q.ride] \in RideStatus \cup {None}
      BY <1>1, <2>1 DEF Request, TypeOK
    <3> QED BY <2>1, <3>1 DEF Request
  <2>b. Goto(t, "loadMembers", next) /\ UNCHANGED db
    BY <1>3 DEF LockTrip
  <2> HIDE DEF next
  <2>3. /\ Quiet(t) /\ pc'[t] = "loadMembers" /\ req'[t].ride = req[t].ride
        /\ req'[t].seen = ride[req[t].ride]
    BY <1>1, <2>a, <2>b, <2>2 DEF Goto, Quiet, PC, TypeOK
  <2>4. ride' = ride
    BY <1>3 DEF LockTrip, db, rideRows
  <2> QED
    BY <1>1, <2>1, <2>3, <2>4 DEF RequestOK, ArgumentsOK, InsertOK, CancelOK, TypeOK,
       HoldingOK, ClaimOK, CallOffOK, RideLabels, PoolLabels, DriverLabels, HoldingLabels
<1>4. CASE LockDriver(t)
  <2>1. /\ pc[t] = "lockDriver" /\ req[t] \in Request /\ req[t].ride \in Rides
        /\ req[t].driver \in Drivers /\ Seats[req[t].ride] <= Capacity[req[t].driver]
    BY <1>1, <1>4 DEF LockDriver, TypeOK, RequestOK, ArgumentsOK, RideLabels, DriverLabels
  <2>2. LocksMove(t)
    BY <1>4, <2>1 DEF LockDriver, LocksMove, Users
  <2>3. Quiet(t) /\ pc'[t] = "createPool" /\ req'[t] = req[t]
    BY <1>1, <1>4, <2>1, <2>2 DEF LockDriver, Goto, Quiet, PC, TypeOK
  <2> QED
    BY <2>1, <2>3 DEF RequestOK, ArgumentsOK, InsertOK, CancelOK,
       HoldingOK, ClaimOK, CallOffOK, RideLabels, PoolLabels, DriverLabels, HoldingLabels
<1>5. CASE ClaimSeats(t)
  <2>1. /\ pc[t] = "claimSeats" /\ req[t] \in Request /\ req[t].ride \in Rides
        /\ req[t].pool \in Pools /\ req[t].fares[req[t].ride] = None
    BY <1>1, <1>5 DEF ClaimSeats, TypeOK, RequestOK, ArgumentsOK, RideLabels, PoolLabels
  <2>2. LocksMove(t)
    BY <1>5, <2>1 DEF ClaimSeats, LocksMove
  <2>3. Quiet(t) /\ pc'[t] = "addMember" /\ req'[t] = req[t]
    BY <1>1, <1>5, <2>1, <2>2 DEF ClaimSeats, Goto, Quiet, PC, TypeOK
  <2>4. /\ poolLock'[req[t].pool] = t
        /\ pool'[req[t].pool] = "FORMING" /\ "FORMING" \in ActivePoolStatus
        /\ seatsTaken'[req[t].pool] + Seats[req[t].ride]
             <= Capacity[poolDriver'[req[t].pool]]
    BY <1>1, <1>5, <2>1 DEF ClaimSeats, LockPoolRow, SeatsFit, PoolAcceptsMembers, TypeOK,
       db, poolRows, ActivePoolStatus, PoolStatus, TerminalPoolStatus
  <2> QED
    BY <2>1, <2>3, <2>4 DEF RequestOK, ArgumentsOK, InsertOK, CancelOK, None,
       HoldingOK, ClaimOK, CallOffOK, RideLabels, PoolLabels, DriverLabels, HoldingLabels
<1>6. CASE RollBack(t)
    BY <1>1, <1>6, RollBackIsQuiet
<1> QED
    BY <1>2, <1>3, <1>4, <1>5, <1>6
       DEF WaitOrRefuse, RefuseCancelRide, RefuseCreatePool, RefuseClaimSeats,
           RefuseAddMember, RefuseAdvance, Abort

-----------------------------------------------------------------------------
(* What a step guarantees to the other requests.                           *)

\* Their own state and the locks they hold stay theirs.
KeepsOthers(t) ==
    \A s \in Tx \ {t} :
        /\ pc'[s] = pc[s] /\ req'[s] = req[s]
        /\ \A p \in Pools : poolLock[p] = s => poolLock'[p] = s
        /\ \A u \in Users : userLock[u] = s => userLock'[u] = s

\* Rows are not deleted; a ride is inserted under the lock of its passenger's
\* row only; and a pool whose row another request has locked keeps its status,
\* its driver, its counter and its members, who can only be cancelled.
KeepsRows(t) ==
    /\ \A r \in Rides :
          /\ ride[r] # None => ride'[r] # None
          /\ ride[r] = None /\ ride'[r] # None => userLock[Owner[r]] = t
    /\ \A p \in Pools :
          /\ pool[p] # None => pool'[p] # None
          /\ \A r \in Rides : memb[p][r] # None => memb'[p][r] # None
          /\ pool[p] # None /\ poolLock[p] \notin {Null, t} =>
                /\ pool'[p] = pool[p] /\ poolDriver'[p] = poolDriver[p]
                /\ seatsTaken'[p] = seatsTaken[p]
                /\ memb'[p] = memb[p]
                /\ \A r \in Rides :
                      memb[p][r] = "aboard" /\ ride[r] \in {"MATCHED", "DRIVER_ARRIVED", "CANCELLED"}
                      => ride'[r] \in {ride[r], "CANCELLED"}

\* Under these guarantees what another request knows stays true.
LEMMA OthersStayRight ==
    ASSUME IInv, NEW t \in Tx, KeepsOthers(t), KeepsRows(t), NEW s \in Tx \ {t}
    PROVE  RequestOK(s)'
<1> USE TxAssumption, RidesAssumption
<1>1. TypeOK /\ RequestOK(s)
    BY DEF IInv
<1>2. pc'[s] = pc[s] /\ req'[s] = req[s]
    BY DEF KeepsOthers
<1>3. ArgumentsOK(s)'
    BY <1>1, <1>2 DEF RequestOK, ArgumentsOK
<1>4. InsertOK(s)'
  <2>1. Owner \in [Rides -> Users] /\ "insertRide" \in RideLabels
    BY DEF Users, RideLabels
  <2> QED BY <1>1, <1>2, <2>1 DEF RequestOK, ArgumentsOK, InsertOK, KeepsOthers, KeepsRows
<1>5. CancelOK(s)'
  <2>1. /\ {"loadMembers", "lockTrip", "cancelRide"} \subseteq RideLabels
        /\ req[s] \in Request
    BY <1>1 DEF RideLabels, TypeOK
  <2> QED BY <1>1, <1>2, <2>1 DEF RequestOK, ArgumentsOK, CancelOK, KeepsRows, Request
<1>7. ASSUME pc[s] \in HoldingLabels
      PROVE  LET p == req[s].pool
             IN  /\ p \in Pools /\ pool[p] # None /\ pool[p] \in ActivePoolStatus
                 /\ poolLock[p] = s /\ poolLock[p] \notin {Null, t}
  <2>1. HoldingLabels \subseteq PoolLabels /\ None \notin ActivePoolStatus
    BY DEF HoldingLabels, PoolLabels, ActivePoolStatus, PoolStatus, None
  <2> QED BY <1>1, <1>7, <2>1 DEF RequestOK, ArgumentsOK, HoldingOK
<1>6. HoldingOK(s)'
    BY <1>1, <1>2, <1>7 DEF HoldingOK, KeepsOthers, KeepsRows
<1>8. ClaimOK(s)'
    BY <1>1, <1>2, <1>7 DEF RequestOK, ClaimOK, KeepsRows, HoldingLabels
<1>9. CallOffOK(s)'
    BY <1>1, <1>2, <1>7 DEF RequestOK, CallOffOK, KeepsRows, HoldingLabels
<1> QED BY <1>3, <1>4, <1>5, <1>6, <1>8, <1>9 DEF RequestOK

\* A step that writes no row preserves the invariant.
LEMMA QuietPreserves ==
    ASSUME IInv, NEW t \in Tx, Quiet(t), RequestOK(t)'
    PROVE  IInv' /\ KeepsRows(t)
<1> USE TxAssumption
<1>1. TypeOK
    BY DEF IInv
<1>2. UNCHANGED <<ride, final, pay, amount, wallet, pool, poolDriver, poolArea,
                  seatsTaken, memb, fare, online, aged, revived>>
    BY DEF Quiet, db, rideRows, poolRows
<1>3. /\ poolLock' \in [Pools -> Tx \cup {Null}]
      /\ userLock' \in [Users -> Tx \cup {Null}]
      /\ \A s \in Tx \ {t} : /\ \A p \in Pools : poolLock[p] = s => poolLock'[p] = s
                             /\ \A u \in Users : userLock[u] = s => userLock'[u] = s
  <2>1. CASE LocksKept
    BY <1>1, <2>1 DEF LocksKept, TypeOK
  <2>2. ASSUME NEW p \in Pools, LockPoolRow(t, p) PROVE <1>3!:
    BY <1>1, <2>2 DEF LockPoolRow, TypeOK
  <2>3. ASSUME NEW u \in Users, LockUserRow(t, u) PROVE <1>3!:
    BY <1>1, <2>3 DEF LockUserRow, TypeOK
  <2>4. CASE /\ poolLock' = [p \in Pools |-> IF poolLock[p] = t THEN Null ELSE poolLock[p]]
             /\ userLock' = [u \in Users |-> IF userLock[u] = t THEN Null ELSE userLock[u]]
    BY <1>1, <2>4 DEF TypeOK
  <2> QED BY <2>1, <2>2, <2>3, <2>4 DEF Quiet, LocksMove
<1>4. pc' \in [Tx -> PC] /\ req' \in [Tx -> Request]
    BY <1>1 DEF Quiet, TypeOK
<1>5. TypeOK'
    BY <1>1, <1>2, <1>3, <1>4 DEF TypeOK
<1>6. KeepsOthers(t)
    BY <1>1, <1>3 DEF Quiet, KeepsOthers, TypeOK
<1>7. KeepsRows(t)
    BY <1>2 DEF KeepsRows
<1>8. RowsOK'
    BY <1>2 DEF IInv, RowsOK, MembersOK, WaitingOK, NoTwoTrips, SeatsReconcile, Aboard,
       CounterFits, OneStory
<1> QED BY <1>5, <1>6, <1>7, <1>8, OthersStayRight DEF IInv

\* A commit frees its slot and its locks, so it preserves the invariant if its
\* writes do.
LEMMA CommitPreserves ==
    ASSUME IInv, NEW t \in Tx, End(t), KeepsRows(t), RowsOK',
           \* the types of the rows after the writes
           /\ ride' \in [Rides -> RideStatus \cup {None}]
           /\ final' \in [Rides -> Fare \cup {None}]
           /\ pay' \in [Rides -> PayStatus \cup {None}]
           /\ amount' \in [Rides -> Fare \cup {None}]
           /\ wallet' \in [Passengers -> Nat]
           /\ pool' \in [Pools -> PoolStatus \cup {None}]
           /\ poolDriver' \in [Pools -> Drivers \cup {Null}]
           /\ poolArea' \in [Pools -> Areas \cup {Null}]
           /\ seatsTaken' \in [Pools -> Nat]
           /\ memb' \in [Pools -> [Rides -> {None, "aboard", "left"}]]
           /\ fare' \in [Pools -> [Rides -> Fare \cup {None}]]
           /\ online' \in [Drivers -> BOOLEAN]
           /\ aged' \in SUBSET Pools
           /\ revived' \in SUBSET Rides
    PROVE  IInv' /\ KeepsRows(t)
<1> USE TxAssumption
<1>1. TypeOK
    BY DEF IInv
<1>2. /\ pc' \in [Tx -> PC] /\ req' \in [Tx -> Request]
      /\ poolLock' \in [Pools -> Tx \cup {Null}]
      /\ userLock' \in [Users -> Tx \cup {Null}]
      /\ pc'[t] = "idle"
    BY <1>1, EmptyRequest DEF End, Goto, TypeOK, PC
<1>3. KeepsOthers(t)
    BY <1>1 DEF End, Goto, KeepsOthers, TypeOK
<1>4. TypeOK'
    BY <1>2 DEF TypeOK
<1> QED BY <1>2, <1>3, <1>4, IdleKnowsNothing, OthersStayRight DEF IInv

-----------------------------------------------------------------------------
(* The commits.                                                            *)

\* createRide's insert makes a waiting ride of a ride that is in no pool.
LEMMA InsertRidePreserves ==
    ASSUME IInv, NEW t \in Tx, InsertRide(t)
    PROVE  IInv' /\ KeepsRows(t)
<1> DEFINE r == req[t].ride
<1>1. TypeOK /\ RowsOK /\ RequestOK(t) /\ pc[t] = "insertRide"
    BY DEF IInv, InsertRide
<1>2. r \in Rides /\ ride[r] = None /\ userLock[Owner[r]] = t
    BY <1>1 DEF RequestOK, ArgumentsOK, InsertOK, RideLabels
<1>3. /\ ride' = [ride EXCEPT ![r] = "REQUESTED"]
      /\ UNCHANGED <<final, pay, amount, wallet, pool, poolDriver, poolArea, seatsTaken,
                     memb, fare, online, aged, revived>>
      /\ End(t)
    BY DEF InsertRide, poolRows
<1> HIDE DEF r
<1>4. ride' \in [Rides -> RideStatus \cup {None}]
    BY <1>1, <1>3 DEF TypeOK, RideStatus
<1>5. KeepsRows(t)
    BY <1>1, <1>2, <1>3 DEF KeepsRows, TypeOK, None
<1>6. RowsOK'
  <2>1. MembersOK'
    BY <1>1, <1>2, <1>3 DEF RowsOK, MembersOK, TypeOK, None
  <2>2. WaitingOK' /\ NoTwoTrips'
    BY <1>1, <1>2, <1>3 DEF RowsOK, WaitingOK, NoTwoTrips, TypeOK
  <2>3. SeatsReconcile' /\ CounterFits'
    BY <1>1, <1>3 DEF RowsOK, SeatsReconcile, Aboard, CounterFits
  <2>4. OneStory'
    BY <1>1, <1>2, <1>3 DEF RowsOK, OneStory, TypeOK, None
  <2> QED BY <2>1, <2>2, <2>3, <2>4 DEF RowsOK
<1> QED BY <1>1, <1>3, <1>4, <1>5, <1>6, CommitPreserves DEF TypeOK

\* What the update of the seat counter does when a ride leaves or has left.
LEMMA SeatsGivenBack ==
    ASSUME IInv, NEW p \in Pools, NEW r \in Rides, memb[p][r] # None,
           ride[r] # "CANCELLED"
    PROVE  /\ SeatsAfterLeaving(p, r) \in Nat
           /\ SeatsAfterLeaving(p, r) = SeatsOf(Aboard(p) \ {r})
           /\ SeatsAfterLeaving(p, r) <= seatsTaken[p]
<1>1. /\ seatsTaken[p] = SeatsOf(Aboard(p)) /\ seatsTaken[p] \in Nat
      /\ Seats[r] \in Nat \ {0}
      /\ memb[p][r] \in {None, "aboard", "left"}
    BY RidesAssumption DEF IInv, RowsOK, SeatsReconcile, TypeOK
<1>2. CASE memb[p][r] = "aboard"
  <2>1. r \in Aboard(p) /\ Aboard(p) \in SUBSET Rides
    BY <1>2 DEF Aboard
  <2>2. /\ SeatsOf(Aboard(p) \ {r}) \in Nat
        /\ SeatsOf(Aboard(p)) >= Seats[r]
        /\ SeatsOf(Aboard(p) \ {r}) = SeatsOf(Aboard(p)) - Seats[r]
    BY <2>1, SeatsOfFewer
  <2> QED BY <1>1, <2>2 DEF SeatsAfterLeaving
<1>3. CASE memb[p][r] = "left"
  <2>1. pool[p] = "CANCELLED"
    BY <1>3 DEF IInv, RowsOK, MembersOK
  <2>2. Aboard(p) = {} /\ Aboard(p) \ {r} = {}
    BY <2>1 DEF IInv, RowsOK, MembersOK, Aboard
  <2>3. seatsTaken[p] = 0
    BY <1>1, <2>2, SeatsOfNobody
  <2> QED BY <1>1, <2>2, <2>3, SeatsOfNobody DEF SeatsAfterLeaving
<1> QED BY <1>1, <1>2, <1>3

\* A fare that is rewritten is a fare.
LEMMA RepricedIsPriced ==
    ASSUME NEW stored \in [Rides -> Fare \cup {None}], NEW seen, NEW R
    PROVE  /\ Repriced(stored, seen, R) \in [Rides -> Fare \cup {None}]
           /\ \A r \in Rides : stored[r] \in Fare => Repriced(stored, seen, R)[r] \in Fare
           /\ \A r \in Rides : r \in R /\ seen[r] = None => Repriced(stored, seen, R)[r] \in Fare
<1>1. FareAmong(R) \in Fare /\ None \notin Fare
    BY DEF FareAmong, Fare, None
<1> QED BY <1>1 DEF Repriced

\* cancelRide's commit: whatever it read, it writes a cancellable ride, and the
\* pool it takes the ride off is not locked by another.
LEMMA CommitCancelRidePreserves ==
    ASSUME IInv, NEW t \in Tx, CommitCancelRide(t)
    PROVE  IInv' /\ KeepsRows(t)
<1> DEFINE r == req[t].ride
           p == req[t].pool
<1>1. TypeOK /\ RowsOK /\ RequestOK(t) /\ pc[t] = "cancelRide"
    BY DEF IInv, CommitCancelRide
<1>2. /\ r \in Rides /\ p \in Pools \cup {Null}
      /\ ride[r] \in {"REQUESTED", "MATCHED", "DRIVER_ARRIVED"}
      /\ p # Null => memb[p][r] # None
    BY <1>1 DEF RequestOK, ArgumentsOK, CancelOK, RideLabels, CommitCancelRide, RideAsSeen,
       TypeOK, Request
<1>3. /\ ride' = [ride EXCEPT ![r] = "CANCELLED"]
      /\ UNCHANGED <<final, pay, amount, wallet, pool, poolDriver, poolArea, online, aged, revived>>
      /\ End(t)
      /\ \/ UNCHANGED <<seatsTaken, memb, fare>>
         \/ /\ p \in Pools /\ memb[p][r] # None
            /\ poolLock[p] \in {Null, t}
            /\ memb' = [memb EXCEPT ![p][r] = "left"]
            /\ seatsTaken' = [seatsTaken EXCEPT ![p] = SeatsAfterLeaving(p, r)]
            /\ fare' = [fare EXCEPT ![p] = Repriced(fare[p], fare[p], Aboard(p) \ {r})]
    BY <1>2 DEF CommitCancelRide, LeavePool, poolRows
<1> HIDE DEF r, p
<1>4. ride' \in [Rides -> RideStatus \cup {None}]
    BY <1>1, <1>3 DEF TypeOK, RideStatus
<1>5. OneStory'
    BY <1>1, <1>2, <1>3 DEF RowsOK, OneStory, TypeOK
<1>6. CASE UNCHANGED <<seatsTaken, memb, fare>>
  <2>1. KeepsRows(t)
    BY <1>1, <1>2, <1>3, <1>6 DEF KeepsRows, TypeOK, None
  <2>2. MembersOK' /\ WaitingOK' /\ NoTwoTrips'
    BY <1>1, <1>2, <1>3, <1>6 DEF RowsOK, MembersOK, WaitingOK, NoTwoTrips, TypeOK, None
  <2>3. SeatsReconcile' /\ CounterFits'
    BY <1>1, <1>3, <1>6 DEF RowsOK, SeatsReconcile, Aboard, CounterFits
  <2>4. RowsOK'
    BY <1>5, <2>2, <2>3 DEF RowsOK
  <2> QED BY <1>1, <1>3, <1>4, <1>6, <2>1, <2>4, CommitPreserves DEF TypeOK
<1>7. CASE /\ p \in Pools /\ memb[p][r] # None
           /\ poolLock[p] \in {Null, t}
           /\ memb' = [memb EXCEPT ![p][r] = "left"]
           /\ seatsTaken' = [seatsTaken EXCEPT ![p] = SeatsAfterLeaving(p, r)]
           /\ fare' = [fare EXCEPT ![p] = Repriced(fare[p], fare[p], Aboard(p) \ {r})]
  <2>1. /\ SeatsAfterLeaving(p, r) \in Nat
        /\ SeatsAfterLeaving(p, r) = SeatsOf(Aboard(p) \ {r})
        /\ SeatsAfterLeaving(p, r) <= seatsTaken[p]
    BY <1>2, <1>7, SeatsGivenBack
  <2>2. /\ memb' \in [Pools -> [Rides -> {None, "aboard", "left"}]]
        /\ \A q \in Pools, s \in Rides :
              memb'[q][s] = IF q = p /\ s = r THEN "left" ELSE memb[q][s]
    BY <1>1, <1>2, <1>7 DEF TypeOK
  <2>3. /\ fare' \in [Pools -> [Rides -> Fare \cup {None}]]
        /\ \A q \in Pools, s \in Rides : fare[q][s] \in Fare => fare'[q][s] \in Fare
    <3>1. fare[p] \in [Rides -> Fare \cup {None}]
      BY <1>1, <1>7 DEF TypeOK
    <3>2. /\ Repriced(fare[p], fare[p], Aboard(p) \ {r}) \in [Rides -> Fare \cup {None}]
          /\ \A s \in Rides : fare[p][s] \in Fare =>
                Repriced(fare[p], fare[p], Aboard(p) \ {r})[s] \in Fare
      BY <3>1, RepricedIsPriced
    <3> QED BY <1>1, <1>7, <3>2 DEF TypeOK
  <2>4. seatsTaken' \in [Pools -> Nat]
    BY <1>1, <1>7, <2>1 DEF TypeOK
  <2>5. KeepsRows(t)
    <3>1. ASSUME NEW q \in Pools, q # p PROVE memb'[q] = memb[q] /\ seatsTaken'[q] = seatsTaken[q]
      BY <1>1, <1>7, <3>1 DEF TypeOK
    <3> QED BY <1>1, <1>2, <1>3, <1>7, <2>2, <3>1 DEF KeepsRows, TypeOK, None
  <2>6. MembersOK'
    <3>1. ASSUME NEW q \in Pools, memb'[q][r] = "left"
          PROVE  pool'[q] = "CANCELLED" \/ \A o \in Pools : memb'[o][r] # "aboard"
      <4>1. CASE memb[q][r] = "left" \/ (q = p /\ memb[p][r] = "left")
        BY <1>1, <1>2, <1>3, <4>1 DEF RowsOK, MembersOK
      <4>2. CASE q = p /\ memb[p][r] = "aboard"
        BY <1>1, <1>2, <2>2, <4>2 DEF RowsOK, NoTwoTrips
      <4> QED BY <1>1, <1>2, <1>7, <2>2, <3>1, <4>1, <4>2 DEF TypeOK
    <3>2. ride'[r] = "CANCELLED"
      BY <1>1, <1>2, <1>3 DEF TypeOK
    <3>3. ASSUME NEW q \in Pools, NEW s \in Rides, s # r
          PROVE  ride'[s] = ride[s] /\ memb'[q][s] = memb[q][s]
      BY <1>1, <1>3, <2>2, <3>3 DEF TypeOK
    <3>4. ASSUME NEW q \in Pools
          PROVE  /\ pool'[q] # None => poolDriver'[q] \in Drivers
                 /\ \A s \in Rides : /\ memb'[q][s] # None => pool'[q] # None
                                     /\ memb'[q][s] = "aboard" =>
                                           pool'[q] # "CANCELLED" /\ fare'[q][s] \in Fare
      <4>1. pool'[q] = pool[q] /\ poolDriver'[q] = poolDriver[q]
        BY <1>3, <1>7
      <4>2. /\ pool[q] # None => poolDriver[q] \in Drivers
            /\ \A s \in Rides : /\ memb[q][s] # None => pool[q] # None
                                /\ memb[q][s] = "aboard" =>
                                      pool[q] # "CANCELLED" /\ fare[q][s] \in Fare
        BY <1>1 DEF RowsOK, MembersOK
      <4>3. ASSUME NEW s \in Rides
            PROVE  /\ memb'[q][s] # None => memb[q][s] # None
                   /\ memb'[q][s] = "aboard" => memb[q][s] = "aboard"
        BY <1>7, <2>2 DEF None
      <4> QED BY <2>3, <4>1, <4>2, <4>3
    <3>5. ASSUME NEW q \in Pools, NEW s \in Rides, s # r, memb'[q][s] = "left"
          PROVE  \/ pool'[q] = "CANCELLED"
                 \/ ride'[s] = "CANCELLED" /\ \A o \in Pools : memb'[o][s] # "aboard"
      BY <1>1, <1>3, <3>3, <3>5 DEF RowsOK, MembersOK
    <3> QED BY <3>1, <3>2, <3>4, <3>5 DEF MembersOK
  <2>7. WaitingOK' /\ NoTwoTrips'
    BY <1>1, <1>2, <1>3, <2>2 DEF RowsOK, WaitingOK, NoTwoTrips, TypeOK, None
  <2>8. SeatsReconcile' /\ CounterFits'
    <3>1. /\ {s \in Rides : memb'[p][s] = "aboard"} = Aboard(p) \ {r}
          /\ \A q \in Pools : q # p =>
                {s \in Rides : memb'[q][s] = "aboard"} = Aboard(q)
      BY <1>7, <2>2 DEF Aboard
    <3>2. SeatsReconcile'
      BY <1>1, <1>7, <2>1, <3>1 DEF RowsOK, SeatsReconcile, Aboard, TypeOK
    <3>3. \A q \in Pools : pool[q] # None => Capacity[poolDriver[q]] \in Nat
      BY <1>1, FleetAssumption DEF RowsOK, MembersOK
    <3>4. CounterFits'
      BY <1>1, <1>3, <1>7, <2>1, <3>3 DEF RowsOK, CounterFits, TypeOK
    <3> QED BY <3>2, <3>4
  <2>9. RowsOK'
    BY <1>5, <2>6, <2>7, <2>8 DEF RowsOK
  <2> QED BY <1>1, <1>3, <1>4, <2>2, <2>3, <2>4, <2>5, <2>9, CommitPreserves DEF TypeOK
<1> QED BY <1>3, <1>6, <1>7

\* A pool that is not inserted has no members.
LEMMA NewPoolIsEmpty ==
    ASSUME IInv, NEW p \in Pools, pool[p] = None
    PROVE  \A r \in Rides : memb[p][r] = None
BY DEF IInv, RowsOK, MembersOK

\* createPool's commit: an unclaimed ride is in no pool, and the new pool
\* carries it alone.
LEMMA CommitCreatePoolPreserves ==
    ASSUME IInv, NEW t \in Tx, CommitCreatePool(t)
    PROVE  IInv' /\ KeepsRows(t)
<1> DEFINE r == req[t].ride
           d == req[t].driver
<1>1. TypeOK /\ RowsOK /\ RequestOK(t) /\ pc[t] = "createPool" /\ ride[r] = "REQUESTED"
    BY DEF IInv, CommitCreatePool, RideUnclaimed
<1>2. /\ r \in Rides /\ d \in Drivers /\ Seats[r] <= Capacity[d]
      /\ Seats[r] \in Nat /\ Pickup[r] \in Areas
    BY <1>1, RidesAssumption DEF RequestOK, ArgumentsOK, RideLabels, DriverLabels
<1>3. PICK p \in Pools :
         /\ pool[p] = None
         /\ pool' = [pool EXCEPT ![p] = "FORMING"]
         /\ poolDriver' = [poolDriver EXCEPT ![p] = d]
         /\ poolArea' = [poolArea EXCEPT ![p] = Pickup[r]]
         /\ seatsTaken' = [seatsTaken EXCEPT ![p] = Seats[r]]
         /\ memb' = [memb EXCEPT ![p][r] = "aboard"]
         /\ fare' = [fare EXCEPT ![p] = Repriced(fare[p], NoFares, {r})]
    BY DEF CommitCreatePool
<1>4. /\ ride' = [ride EXCEPT ![r] = "MATCHED"]
      /\ End(t)
      /\ UNCHANGED <<final, pay, amount, wallet, online, aged, revived>>
    BY DEF CommitCreatePool
<1> HIDE DEF r, d
<1>5. /\ ride' \in [Rides -> RideStatus \cup {None}]
      /\ pool' \in [Pools -> PoolStatus \cup {None}]
      /\ poolDriver' \in [Pools -> Drivers \cup {Null}]
      /\ poolArea' \in [Pools -> Areas \cup {Null}]
      /\ seatsTaken' \in [Pools -> Nat]
    BY <1>1, <1>2, <1>3, <1>4 DEF TypeOK, RideStatus, PoolStatus
<1>6. /\ memb' \in [Pools -> [Rides -> {None, "aboard", "left"}]]
      /\ \A q \in Pools, s \in Rides :
            memb'[q][s] = IF q = p /\ s = r THEN "aboard" ELSE memb[q][s]
    BY <1>1, <1>2, <1>3 DEF TypeOK
<1>7. fare' \in [Pools -> [Rides -> Fare \cup {None}]] /\ fare'[p][r] \in Fare
  <2>1. fare[p] \in [Rides -> Fare \cup {None}] /\ NoFares[r] = None
    BY <1>1, <1>2, <1>3 DEF TypeOK, NoFares
  <2>2. /\ Repriced(fare[p], NoFares, {r}) \in [Rides -> Fare \cup {None}]
        /\ Repriced(fare[p], NoFares, {r})[r] \in Fare
    BY <1>2, <2>1, RepricedIsPriced
  <2> QED BY <1>1, <1>3, <2>2 DEF TypeOK
<1>8. ASSUME NEW q \in Pools, q # p
      PROVE  /\ pool'[q] = pool[q] /\ poolDriver'[q] = poolDriver[q]
             /\ seatsTaken'[q] = seatsTaken[q] /\ memb'[q] = memb[q] /\ fare'[q] = fare[q]
    BY <1>1, <1>3, <1>8 DEF TypeOK
<1>9. /\ \A s \in Rides : memb[p][s] = None
      /\ \A q \in Pools : memb[q][r] # "aboard"
    BY <1>1, <1>2, <1>3, NewPoolIsEmpty DEF RowsOK, WaitingOK
<1>10. /\ pool'[p] = "FORMING" /\ poolDriver'[p] = d /\ seatsTaken'[p] = Seats[r]
       /\ ride'[r] = "MATCHED" /\ \A s \in Rides : s # r => ride'[s] = ride[s]
    BY <1>1, <1>2, <1>3, <1>4 DEF TypeOK
<1>11. KeepsRows(t)
    BY <1>1, <1>2, <1>3, <1>6, <1>8, <1>9, <1>10 DEF KeepsRows, None
<1>12. MembersOK'
  <2>1. ASSUME NEW q \in Pools, q # p
        PROVE  /\ pool'[q] # None => poolDriver'[q] \in Drivers
               /\ \A s \in Rides :
                     /\ memb'[q][s] # None => pool'[q] # None
                     /\ memb'[q][s] = "aboard" => pool'[q] # "CANCELLED" /\ fare'[q][s] \in Fare
    BY <1>1, <1>8, <2>1 DEF RowsOK, MembersOK
  <2>2. ASSUME NEW q \in Pools, NEW s \in Rides, memb'[q][s] = "left"
        PROVE  \/ pool'[q] = "CANCELLED"
               \/ ride'[s] = "CANCELLED" /\ \A o \in Pools : memb'[o][s] # "aboard"
    <3>1. q # p /\ memb[q][s] = "left"
      BY <1>6, <1>9, <2>2 DEF None
    <3>2. \/ pool[q] = "CANCELLED"
          \/ ride[s] = "CANCELLED" /\ \A o \in Pools : memb[o][s] # "aboard"
      BY <1>1, <3>1 DEF RowsOK, MembersOK
    <3> QED BY <1>1, <1>6, <1>8, <1>10, <3>1, <3>2
  <2>3. /\ pool'[p] # None /\ pool'[p] # "CANCELLED" /\ poolDriver'[p] \in Drivers
        /\ \A s \in Rides : memb'[p][s] = "aboard" => fare'[p][s] \in Fare
    BY <1>2, <1>6, <1>7, <1>9, <1>10 DEF None
  <2> QED BY <2>1, <2>2, <2>3 DEF MembersOK
<1>13. WaitingOK' /\ NoTwoTrips'
  <2>1. WaitingOK'
    BY <1>1, <1>2, <1>6, <1>10 DEF RowsOK, WaitingOK, None
  <2>2. NoTwoTrips'
    BY <1>1, <1>6, <1>9 DEF RowsOK, NoTwoTrips
  <2> QED BY <2>1, <2>2
<1>14. SeatsReconcile'
  <2>1. /\ {s \in Rides : memb'[p][s] = "aboard"} = {} \cup {r}
        /\ \A q \in Pools : q # p =>
              {s \in Rides : memb'[q][s] = "aboard"} = Aboard(q)
    BY <1>2, <1>6, <1>9 DEF Aboard, None
  <2>2. SeatsOf({} \cup {r}) = SeatsOf({}) + Seats[r]
    BY <1>2, SeatsOfMore
  <2>3. SeatsOf({} \cup {r}) = Seats[r]
    BY <1>2, <2>2, SeatsOfNobody
  <2>4. \A q \in Pools : seatsTaken[q] = SeatsOf(Aboard(q))
    BY <1>1 DEF RowsOK, SeatsReconcile
  <2>5. seatsTaken'[p] = SeatsOf({s \in Rides : memb'[p][s] = "aboard"})
    <3>1. seatsTaken'[p] = SeatsOf({} \cup {r})
      BY <1>10, <2>3
    <3> QED BY <2>1, <3>1
  <2>6. ASSUME NEW q \in Pools, q # p
        PROVE  seatsTaken'[q] = SeatsOf({s \in Rides : memb'[q][s] = "aboard"})
    BY <1>8, <1>10, <2>1, <2>4, <2>6
  <2> QED BY <2>5, <2>6 DEF SeatsReconcile, Aboard
<1>15. CounterFits'
    BY <1>1, <1>2, <1>8, <1>10 DEF RowsOK, CounterFits
<1>16. OneStory'
    BY <1>1, <1>4, <1>10 DEF RowsOK, OneStory
<1>17. RowsOK'
    BY <1>12, <1>13, <1>14, <1>15, <1>16 DEF RowsOK
<1> QED BY <1>1, <1>4, <1>5, <1>6, <1>7, <1>11, <1>17, CommitPreserves DEF TypeOK

\* addMemberToPool's commit: the seats it claimed are still free, because it
\* has held the pool's row since.
LEMMA CommitAddMemberPreserves ==
    ASSUME IInv, NEW t \in Tx, CommitAddMember(t)
    PROVE  IInv' /\ KeepsRows(t)
<1> DEFINE r == req[t].ride
           p == req[t].pool
           members == {m \in Rides : req[t].fares[m] # None} \cup {r}
<1>1. /\ TypeOK /\ RowsOK /\ RequestOK(t) /\ pc[t] = "addMember"
      /\ ride[r] = "REQUESTED" /\ memb[p][r] = None
    BY DEF IInv, CommitAddMember, RideUnclaimed
<1>2. /\ r \in Rides /\ p \in Pools /\ req[t].fares[r] = None
      /\ poolLock[p] = t /\ pool[p] = "FORMING"
      /\ seatsTaken[p] + Seats[r] <= Capacity[poolDriver[p]]
      /\ Seats[r] \in Nat
    BY <1>1, RidesAssumption DEF RequestOK, ArgumentsOK, HoldingOK, ClaimOK, RideLabels,
       PoolLabels, HoldingLabels
<1>3. /\ ride' = [ride EXCEPT ![r] = "MATCHED"]
      /\ seatsTaken' = [seatsTaken EXCEPT ![p] = @ + Seats[r]]
      /\ memb' = [memb EXCEPT ![p][r] = "aboard"]
      /\ fare' = [fare EXCEPT ![p] = Repriced(fare[p], req[t].fares, members)]
      /\ End(t)
      /\ UNCHANGED <<final, pay, amount, wallet, pool, poolDriver, poolArea, online, aged, revived>>
    BY DEF CommitAddMember
<1>4. r \in members
    OBVIOUS
<1> HIDE DEF r, p, members
<1>5. /\ ride' \in [Rides -> RideStatus \cup {None}]
      /\ seatsTaken' \in [Pools -> Nat]
      /\ seatsTaken'[p] = seatsTaken[p] + Seats[r]
    BY <1>1, <1>2, <1>3 DEF TypeOK, RideStatus
<1>6. /\ memb' \in [Pools -> [Rides -> {None, "aboard", "left"}]]
      /\ \A q \in Pools, s \in Rides :
            memb'[q][s] = IF q = p /\ s = r THEN "aboard" ELSE memb[q][s]
    BY <1>1, <1>2, <1>3 DEF TypeOK
<1>7. /\ fare' \in [Pools -> [Rides -> Fare \cup {None}]] /\ fare'[p][r] \in Fare
      /\ \A s \in Rides : fare[p][s] \in Fare => fare'[p][s] \in Fare
  <2>1. fare[p] \in [Rides -> Fare \cup {None}]
    BY <1>1, <1>2 DEF TypeOK
  <2>2. /\ Repriced(fare[p], req[t].fares, members) \in [Rides -> Fare \cup {None}]
        /\ Repriced(fare[p], req[t].fares, members)[r] \in Fare
        /\ \A s \in Rides : fare[p][s] \in Fare =>
              Repriced(fare[p], req[t].fares, members)[s] \in Fare
    BY <1>2, <1>4, <2>1, RepricedIsPriced
  <2> QED BY <1>1, <1>2, <1>3, <2>2 DEF TypeOK
<1>8. ASSUME NEW q \in Pools, q # p
      PROVE  seatsTaken'[q] = seatsTaken[q] /\ memb'[q] = memb[q] /\ fare'[q] = fare[q]
    BY <1>1, <1>3, <1>8 DEF TypeOK
<1>9. \A q \in Pools : memb[q][r] # "aboard"
    BY <1>1, <1>2 DEF RowsOK, WaitingOK
<1>10. ride'[r] = "MATCHED" /\ \A s \in Rides : s # r => ride'[s] = ride[s]
    BY <1>1, <1>2, <1>3 DEF TypeOK
<1>11. KeepsRows(t)
    BY <1>1, <1>2, <1>3, <1>6, <1>8, <1>9, <1>10 DEF KeepsRows, None
<1>12. MembersOK'
  <2>1. ASSUME NEW q \in Pools, NEW s \in Rides, memb'[q][s] = "left"
        PROVE  \/ pool'[q] = "CANCELLED"
               \/ ride'[s] = "CANCELLED" /\ \A o \in Pools : memb'[o][s] # "aboard"
    <3>1. memb[q][s] = "left"
      BY <1>6, <2>1
    <3>2. \/ pool[q] = "CANCELLED"
          \/ ride[s] = "CANCELLED" /\ \A o \in Pools : memb[o][s] # "aboard"
      BY <1>1, <3>1 DEF RowsOK, MembersOK
    <3> QED BY <1>1, <1>2, <1>3, <1>6, <1>10, <3>2
  <2> QED BY <1>1, <1>2, <1>3, <1>6, <1>7, <1>8, <2>1 DEF RowsOK, MembersOK, None
<1>13. WaitingOK' /\ NoTwoTrips'
    BY <1>1, <1>2, <1>6, <1>9, <1>10 DEF RowsOK, WaitingOK, NoTwoTrips, None
<1>14. SeatsReconcile'
  <2>1. /\ {s \in Rides : memb'[p][s] = "aboard"} = Aboard(p) \cup {r}
        /\ \A q \in Pools : q # p =>
              {s \in Rides : memb'[q][s] = "aboard"} = Aboard(q)
    BY <1>2, <1>6 DEF Aboard
  <2>2. SeatsOf(Aboard(p) \cup {r}) = SeatsOf(Aboard(p)) + Seats[r]
    BY <1>1, <1>2, SeatsOfMore DEF Aboard, None
  <2>3. \A q \in Pools : seatsTaken[q] = SeatsOf(Aboard(q))
    BY <1>1 DEF RowsOK, SeatsReconcile
  <2>4. seatsTaken'[p] = SeatsOf({s \in Rides : memb'[p][s] = "aboard"})
    BY <1>2, <1>5, <1>8, <2>1, <2>2, <2>3
  <2>5. ASSUME NEW q \in Pools, q # p
        PROVE  seatsTaken'[q] = SeatsOf({s \in Rides : memb'[q][s] = "aboard"})
    BY <1>5, <1>8, <2>1, <2>3, <2>5
  <2> QED BY <2>4, <2>5 DEF SeatsReconcile, Aboard
<1>15. CounterFits'
    BY <1>1, <1>2, <1>3, <1>5, <1>8 DEF RowsOK, CounterFits
<1>16. OneStory'
    BY <1>1, <1>3, <1>10 DEF RowsOK, OneStory
<1>17. RowsOK'
    BY <1>12, <1>13, <1>14, <1>15, <1>16 DEF RowsOK
<1> QED BY <1>1, <1>3, <1>5, <1>6, <1>7, <1>11, <1>17, CommitPreserves DEF TypeOK

\* The driver moves the whole pool: the row is locked, so every ride that the
\* step moves is in this pool and in no other.
LEMMA AdvancePreserves ==
    ASSUME IInv, NEW t \in Tx, NEW p \in Pools, poolLock[p] = t,
           pool[p] \in ActivePoolStatus,
           NEW to \in {"DRIVER_ARRIVED", "STARTED", "COMPLETED"}, Advance(p, to)
    PROVE  /\ KeepsRows(t)
           /\ MembersOK' /\ WaitingOK' /\ NoTwoTrips' /\ SeatsReconcile' /\ CounterFits'
           /\ ride' \in [Rides -> RideStatus \cup {None}]
           /\ pool' \in [Pools -> PoolStatus \cup {None}]
           /\ \A r \in Rides :
                 ride'[r] = IF memb[p][r] = "aboard" THEN to ELSE ride[r]
           /\ \A r \in Rides : memb[p][r] = "aboard" =>
                 /\ to = "STARTED" => ride[r] = "DRIVER_ARRIVED"
                 /\ to = "COMPLETED" => ride[r] = "STARTED"
<1> USE TxAssumption
<1>1. TypeOK /\ RowsOK /\ pool[p] # "CANCELLED" /\ pool[p] # None
    BY DEF IInv, ActivePoolStatus, PoolStatus, TerminalPoolStatus, None
<1>2. /\ pool' = [pool EXCEPT ![p] = to]
      /\ UNCHANGED <<poolDriver, poolArea, seatsTaken, memb, fare, online, aged, revived>>
      /\ \A r \in Rides : ride'[r] = IF memb[p][r] = "aboard" THEN to ELSE ride[r]
      /\ ride' = [r \in Rides |-> IF r \in Aboard(p) THEN to ELSE ride[r]]
    BY DEF Advance, Aboard
<1>3. /\ ride' \in [Rides -> RideStatus \cup {None}]
      /\ pool' \in [Pools -> PoolStatus \cup {None}]
    BY <1>1, <1>2 DEF TypeOK, RideStatus, PoolStatus
<1>4. ASSUME NEW r \in Rides, memb[p][r] = "aboard"
      PROVE  /\ ride[r] \in RideStatus /\ ride[r] # "CANCELLED"
             /\ to = "STARTED" => ride[r] = "DRIVER_ARRIVED"
             /\ to = "COMPLETED" => ride[r] = "STARTED"
  <2>1. ride[r] \in RideStatus
    BY <1>1, <1>4 DEF RowsOK, WaitingOK, TypeOK
  <2>2. CanTransitionRide(ride[r], to, "DRIVER")
    BY <1>4 DEF Advance, MembersUnmoved, Aboard
  <2> QED BY <2>1, <2>2, RideMoves
<1>5. ASSUME NEW q \in Pools, q # p PROVE pool'[q] = pool[q]
    BY <1>1, <1>2, <1>5 DEF TypeOK
<1>6. pool'[p] = to /\ to # "CANCELLED" /\ to # None /\ to # "REQUESTED"
    BY <1>1, <1>2 DEF TypeOK, None
<1>7. KeepsRows(t)
  <2>1. \A r \in Rides : ride'[r] # ride[r] => memb[p][r] = "aboard" /\ ride[r] # None
    BY <1>2, <1>4 DEF RideStatus, None
  <2>2. ASSUME NEW q \in Pools, NEW r \in Rides, q # p, memb[q][r] = "aboard"
        PROVE  ride'[r] = ride[r]
    BY <1>1, <2>1, <2>2 DEF RowsOK, NoTwoTrips
  <2>3. ASSUME NEW q \in Pools, pool[q] # None, poolLock[q] \notin {Null, t}
        PROVE  /\ pool'[q] = pool[q]
               /\ \A r \in Rides : memb[q][r] = "aboard" => ride'[r] = ride[r]
    BY <1>5, <2>2, <2>3
  <2>4. \A q \in Pools : pool[q] # None => pool'[q] # None
    BY <1>5, <1>6
  <2>5. \A r \in Rides : /\ ride[r] # None => ride'[r] # None
                         /\ ride[r] = None => ride'[r] = None
    BY <1>2, <1>6, <2>1
  <2> QED BY <1>2, <2>3, <2>4, <2>5 DEF KeepsRows
<1>8. MembersOK'
  <2>1. ASSUME NEW q \in Pools, NEW r \in Rides, memb[q][r] = "left"
        PROVE  \/ pool'[q] = "CANCELLED"
               \/ ride'[r] = "CANCELLED" /\ \A o \in Pools : memb[o][r] # "aboard"
    <3>1. CASE pool[q] = "CANCELLED"
      BY <1>1, <1>5, <3>1
    <3>3. CASE ride[r] = "CANCELLED" /\ \A o \in Pools : memb[o][r] # "aboard"
      BY <1>2, <3>3
    <3> QED BY <1>1, <2>1, <3>1, <3>3 DEF RowsOK, MembersOK
  <2> QED BY <1>1, <1>2, <1>5, <1>6, <2>1 DEF RowsOK, MembersOK
<1>9. WaitingOK' /\ NoTwoTrips'
    BY <1>1, <1>2, <1>6 DEF RowsOK, WaitingOK, NoTwoTrips
<1>10. SeatsReconcile'
    BY <1>1, <1>2 DEF RowsOK, SeatsReconcile, Aboard
<1>11. CounterFits'
    BY <1>1, <1>2, <1>5 DEF RowsOK, CounterFits
<1> QED BY <1>2, <1>3, <1>4, <1>7, <1>8, <1>9, <1>10, <1>11

\* What a driver's request holds when it commits.
LEMMA DriverHolds ==
    ASSUME IInv, NEW t \in Tx, pc[t] \in {"arrive", "start", "complete", "cancelPool"}
    PROVE  /\ req[t].pool \in Pools
           /\ poolLock[req[t].pool] = t
           /\ pool[req[t].pool] \in ActivePoolStatus
BY DEF IInv, RequestOK, ArgumentsOK, HoldingOK, PoolLabels, HoldingLabels

\* markArrived moves no money.
LEMMA MarkArrivedPreserves ==
    ASSUME IInv, NEW t \in Tx, MarkArrived(t)
    PROVE  IInv' /\ KeepsRows(t)
<1> DEFINE p == req[t].pool
<1>1. /\ TypeOK /\ RowsOK /\ p \in Pools /\ poolLock[p] = t
      /\ pool[p] \in ActivePoolStatus
    BY DriverHolds DEF IInv, MarkArrived
<1>2. /\ Advance(p, "DRIVER_ARRIVED") /\ End(t)
      /\ UNCHANGED <<final, pay, amount, wallet, poolDriver, poolArea, seatsTaken, memb,
                     fare, online, aged, revived>>
    BY DEF MarkArrived, Advance
<1> HIDE DEF p
<1>3. /\ KeepsRows(t)
      /\ MembersOK' /\ WaitingOK' /\ NoTwoTrips' /\ SeatsReconcile' /\ CounterFits'
      /\ ride' \in [Rides -> RideStatus \cup {None}]
      /\ pool' \in [Pools -> PoolStatus \cup {None}]
      /\ \A r \in Rides :
            ride'[r] = IF memb[p][r] = "aboard" THEN "DRIVER_ARRIVED" ELSE ride[r]
    BY <1>1, <1>2, AdvancePreserves
<1>4. ASSUME NEW r \in Rides, memb[p][r] = "aboard"
      PROVE  ride[r] = "MATCHED"
  <2>1. ride[r] \in RideStatus
    BY <1>1, <1>4 DEF RowsOK, WaitingOK, TypeOK
  <2>2. CanTransitionRide(ride[r], "DRIVER_ARRIVED", "DRIVER")
    BY <1>2, <1>4 DEF Advance, MembersUnmoved, Aboard
  <2> QED BY <2>1, <2>2, RideMoves
<1>5. OneStory'
    BY <1>1, <1>2, <1>3, <1>4 DEF RowsOK, OneStory
<1>6. RowsOK'
    BY <1>3, <1>5 DEF RowsOK
<1> QED BY <1>1, <1>2, <1>3, <1>6, CommitPreserves DEF TypeOK

\* startTrip locks the fares of the members and bills them.
LEMMA StartTripPreserves ==
    ASSUME IInv, NEW t \in Tx, StartTrip(t)
    PROVE  IInv' /\ KeepsRows(t)
<1> DEFINE p == req[t].pool
<1>1. /\ TypeOK /\ RowsOK /\ p \in Pools /\ poolLock[p] = t
      /\ pool[p] \in ActivePoolStatus
    BY DriverHolds DEF IInv, StartTrip
<1>2. /\ Advance(p, "STARTED") /\ End(t)
      /\ UNCHANGED <<wallet, poolDriver, poolArea, seatsTaken, memb, fare, online, aged, revived>>
      /\ final' = [r \in Rides |-> IF r \in Aboard(p) THEN fare[p][r] ELSE final[r]]
      /\ amount' = [r \in Rides |-> IF r \in Aboard(p) THEN fare[p][r] ELSE amount[r]]
      /\ pay' = [r \in Rides |-> IF r \in Aboard(p) THEN "PENDING" ELSE pay[r]]
    BY DEF StartTrip, Advance
<1> HIDE DEF p
<1>3. /\ KeepsRows(t)
      /\ MembersOK' /\ WaitingOK' /\ NoTwoTrips' /\ SeatsReconcile' /\ CounterFits'
      /\ ride' \in [Rides -> RideStatus \cup {None}]
      /\ pool' \in [Pools -> PoolStatus \cup {None}]
      /\ \A r \in Rides :
            ride'[r] = IF memb[p][r] = "aboard" THEN "STARTED" ELSE ride[r]
    BY <1>1, <1>2, AdvancePreserves
<1>4. \A r \in Rides : memb[p][r] = "aboard" => fare[p][r] \in Fare
    BY <1>1 DEF RowsOK, MembersOK
<1>5. /\ final' \in [Rides -> Fare \cup {None}]
      /\ amount' \in [Rides -> Fare \cup {None}]
      /\ pay' \in [Rides -> PayStatus \cup {None}]
    BY <1>1, <1>2, <1>4 DEF TypeOK, Aboard, PayStatus
<1>6. OneStory'
  <2>1. None \notin Fare /\ None # "PENDING"
    BY DEF None, Fare
  <2>2. ASSUME NEW r \in Rides
        PROVE  /\ memb[p][r] = "aboard" =>
                     /\ ride'[r] = "STARTED" /\ pay'[r] = "PENDING"
                     /\ final'[r] \in Fare /\ amount'[r] = final'[r]
               /\ memb[p][r] # "aboard" =>
                     /\ ride'[r] = ride[r] /\ pay'[r] = pay[r]
                     /\ final'[r] = final[r] /\ amount'[r] = amount[r]
    BY <1>2, <1>3, <1>4 DEF Aboard
  <2> QED BY <1>1, <2>1, <2>2 DEF RowsOK, OneStory
<1>7. RowsOK'
    BY <1>3, <1>6 DEF RowsOK
<1> QED BY <1>1, <1>2, <1>3, <1>5, <1>7, CommitPreserves DEF TypeOK

\* What a set of payments takes from a wallet can be counted.
LEMMA CoinsAreFinite ==
    ASSUME NEW R \in SUBSET Rides, NEW u,
           \A r \in R : Charge(r) \in Nat
    PROVE  IsFiniteSet(Coins(R, u))
<1> DEFINE mine == {m \in R : Owner[m] = u}
           block == [r \in mine |-> {r} \X (1..Charge(r))]
           blocks == {{r} \X (1..Charge(r)) : r \in mine}
<1>1. IsFiniteSet(mine)
    BY FS_Subset, RidesAssumption
<1>2. block \in Surjection(mine, blocks)
    BY DEF Surjection
<1>3. IsFiniteSet(blocks)
    BY <1>1, <1>2, FS_Surjection
<1>4. ASSUME NEW r \in mine PROVE IsFiniteSet({r} \X (1..Charge(r)))
  <2>1. Charge(r) \in Int /\ 1 \in Int
    OBVIOUS
  <2>2. IsFiniteSet(1..Charge(r))
    BY <2>1, FS_Interval
  <2>3. IsFiniteSet({r})
    BY FS_Singleton
  <2> QED BY <2>2, <2>3, FS_Product
<1>5. \A B \in blocks : IsFiniteSet(B)
    BY <1>4
<1> HIDE DEF blocks
<1>6. IsFiniteSet(UNION blocks)
    BY <1>3, <1>5, FS_UNION
<1>7. UNION blocks = Coins(R, u)
    BY DEF Coins, blocks
<1> QED BY <1>6, <1>7

LEMMA SpentIsNat ==
    ASSUME NEW R \in SUBSET Rides, NEW u,
           \A r \in R : Charge(r) \in Nat
    PROVE  Spent(R, u) \in Nat
BY CoinsAreFinite, FS_CardinalityType DEF Spent

\* completeTrip settles every member's bill, and no debit exceeds its wallet.
LEMMA CompleteTripPreserves ==
    ASSUME IInv, NEW t \in Tx, CompleteTrip(t)
    PROVE  IInv' /\ KeepsRows(t)
<1> DEFINE p == req[t].pool
<1>1. /\ TypeOK /\ RowsOK /\ p \in Pools /\ poolLock[p] = t
      /\ pool[p] \in ActivePoolStatus
    BY DriverHolds DEF IInv, CompleteTrip
<1>2. /\ Advance(p, "COMPLETED") /\ SettlePayments(p) /\ End(t)
      /\ UNCHANGED <<final, amount, poolDriver, poolArea, seatsTaken, memb, fare, online,
                     aged, revived>>
    BY DEF CompleteTrip, Advance
<1> HIDE DEF p
<1>3. /\ KeepsRows(t)
      /\ MembersOK' /\ WaitingOK' /\ NoTwoTrips' /\ SeatsReconcile' /\ CounterFits'
      /\ ride' \in [Rides -> RideStatus \cup {None}]
      /\ pool' \in [Pools -> PoolStatus \cup {None}]
      /\ \A r \in Rides :
            ride'[r] = IF memb[p][r] = "aboard" THEN "COMPLETED" ELSE ride[r]
      /\ \A r \in Rides : memb[p][r] = "aboard" => ride[r] = "STARTED"
    BY <1>1, <1>2, AdvancePreserves
<1>4. ASSUME NEW r \in Rides
      PROVE  /\ r \in Due(p) <=> memb[p][r] = "aboard"
             /\ r \in Due(p) => amount[r] \in Fare /\ Charge(r) \in Nat
  <2>1. memb[p][r] = "aboard" => pay[r] = "PENDING"
    BY <1>1, <1>3 DEF RowsOK, OneStory
  <2>2. pay[r] = "PENDING" => amount[r] \in Fare
    BY <1>1 DEF RowsOK, OneStory, TypeOK, None
  <2>3. amount[r] \in Fare => Charge(r) \in Nat
    BY RidesAssumption DEF Charge
  <2> QED BY <2>1, <2>2, <2>3 DEF Due, Aboard
<1>5. PICK D \in Debits(p) :
          /\ pay' = Receipts(p, D \cup Collected(p))
          /\ wallet' = [u \in Passengers |-> wallet[u] - Spent(D, u)]
    BY <1>2 DEF SettlePayments
<1>6. ASSUME NEW r \in Rides
      PROVE  /\ memb[p][r] = "aboard" => pay'[r] \in {"PAID", "FAILED"}
             /\ memb[p][r] # "aboard" => pay'[r] = pay[r]
  <2>1. D \subseteq Due(p) /\ Collected(p) \subseteq Due(p)
    BY DEF Debits, Wallets, Collected
  <2> QED BY <1>4, <1>5, <2>1 DEF Receipts
<1>7. pay' \in [Rides -> PayStatus \cup {None}]
  <2>1. pay' = [s \in Rides |-> pay'[s]]
    BY <1>5 DEF Receipts
  <2>2. \A r \in Rides : pay'[r] \in PayStatus \cup {None}
    BY <1>1, <1>6 DEF TypeOK, PayStatus
  <2> QED BY <2>1, <2>2
<1>8. wallet' \in [Passengers -> Nat]
  <2>1. ASSUME NEW u \in Passengers
        PROVE  wallet[u] - Spent(D, u) \in Nat
    <3>1. D \subseteq Rides /\ Spent(D, u) <= wallet[u]
      BY DEF Debits, Wallets, Due, Aboard
    <3>2. \A r \in D : Charge(r) \in Nat
      BY <1>4, <3>1 DEF Debits, Wallets
    <3>3. Spent(D, u) \in Nat
      BY <3>1, <3>2, SpentIsNat
    <3>4. wallet[u] \in Nat
      BY <1>1 DEF TypeOK
    <3> QED BY <3>1, <3>3, <3>4
  <2> QED BY <1>5, <2>1
<1>9. OneStory'
    BY <1>1, <1>2, <1>3, <1>6 DEF RowsOK, OneStory, None
<1>10. RowsOK'
    BY <1>3, <1>9 DEF RowsOK
<1> QED BY <1>1, <1>2, <1>3, <1>7, <1>8, <1>10, CommitPreserves DEF TypeOK

\* cancelPool empties the pool; the rides it puts back in the queue have not
\* started, and are in no other pool.
LEMMA CancelPoolPreserves ==
    ASSUME IInv, NEW t \in Tx, CancelPool(t)
    PROVE  IInv' /\ KeepsRows(t)
<1> USE TxAssumption
<1> DEFINE p == req[t].pool
<1>1. /\ TypeOK /\ RowsOK /\ p \in Pools /\ poolLock[p] = t
      /\ pool[p] # None
    BY DriverHolds DEF IInv, CancelPool, ActivePoolStatus, PoolStatus, None
<1>2. \A r \in Rides : memb[p][r] = "aboard" =>
          ride[r] \in {"MATCHED", "DRIVER_ARRIVED", "CANCELLED"}
    BY DEF IInv, RequestOK, CallOffOK, CancelPool
<1>3. /\ pool' = [pool EXCEPT ![p] = "CANCELLED"]
      /\ seatsTaken' = [seatsTaken EXCEPT ![p] = 0]
      /\ memb' = [memb EXCEPT ![p] =
                     [r \in Rides |-> IF memb[p][r] = "aboard" THEN "left" ELSE memb[p][r]]]
      /\ ride' = [r \in Rides |-> IF r \in Aboard(p) THEN "REQUESTED" ELSE ride[r]]
      /\ final' = [r \in Rides |-> IF r \in Aboard(p) THEN None ELSE final[r]]
      /\ End(t)
      /\ revived' = revived \cup {r \in Aboard(p) : ride[r] = "CANCELLED"}
      /\ UNCHANGED <<pay, amount, wallet, poolDriver, poolArea, fare, online, aged>>
    BY DEF CancelPool
<1> HIDE DEF p
<1>r. revived' \in SUBSET Rides
    BY <1>1, <1>3 DEF TypeOK, Aboard
<1>4. /\ ride' \in [Rides -> RideStatus \cup {None}]
      /\ final' \in [Rides -> Fare \cup {None}]
      /\ pool' \in [Pools -> PoolStatus \cup {None}]
      /\ seatsTaken' \in [Pools -> Nat]
    BY <1>1, <1>3 DEF TypeOK, RideStatus, PoolStatus
<1>5. /\ memb' \in [Pools -> [Rides -> {None, "aboard", "left"}]]
      /\ \A r \in Rides :
            memb'[p][r] = IF memb[p][r] = "aboard" THEN "left" ELSE memb[p][r]
    BY <1>1, <1>3 DEF TypeOK
<1>6. ASSUME NEW q \in Pools, q # p
      PROVE  pool'[q] = pool[q] /\ seatsTaken'[q] = seatsTaken[q] /\ memb'[q] = memb[q]
    BY <1>1, <1>3, <1>6 DEF TypeOK
<1>7. /\ pool'[p] = "CANCELLED" /\ seatsTaken'[p] = 0
      /\ \A r \in Rides : memb'[p][r] # "aboard"
      /\ \A r \in Rides : ride'[r] = IF memb[p][r] = "aboard" THEN "REQUESTED" ELSE ride[r]
      /\ \A r \in Rides : final'[r] = IF memb[p][r] = "aboard" THEN None ELSE final[r]
    BY <1>1, <1>3, <1>5 DEF TypeOK, Aboard
<1>8. \A q \in Pools, r \in Rides : memb'[q][r] = "aboard" => q # p /\ memb[q][r] = "aboard"
    BY <1>6, <1>7
<1>9. \A r \in Rides : memb[p][r] = "aboard" => \A q \in Pools : memb'[q][r] # "aboard"
    BY <1>1, <1>8 DEF RowsOK, NoTwoTrips
<1>10. KeepsRows(t)
  <2>1. \A r \in Rides : ride'[r] # ride[r] => memb[p][r] = "aboard" /\ ride[r] # None
    BY <1>2, <1>7 DEF None
  <2>2. ASSUME NEW q \in Pools, NEW r \in Rides, q # p, memb[q][r] = "aboard"
        PROVE  ride'[r] = ride[r]
    BY <1>1, <2>1, <2>2 DEF RowsOK, NoTwoTrips
  <2>3. ASSUME NEW q \in Pools, pool[q] # None, poolLock[q] \notin {Null, t}
        PROVE  /\ pool'[q] = pool[q] /\ seatsTaken'[q] = seatsTaken[q] /\ memb'[q] = memb[q]
               /\ \A r \in Rides : memb[q][r] = "aboard" => ride'[r] = ride[r]
    BY <1>1, <1>6, <2>2, <2>3
  <2>4. ASSUME NEW q \in Pools
        PROVE  /\ pool[q] # None => pool'[q] # None
               /\ \A r \in Rides : memb[q][r] # None => memb'[q][r] # None
    BY <1>5, <1>6, <1>7 DEF None
  <2>5. \A r \in Rides : /\ ride[r] # None => ride'[r] # None
                         /\ ride[r] = None => ride'[r] = None
    BY <1>7, <2>1 DEF None
  <2> QED BY <1>3, <2>3, <2>4, <2>5 DEF KeepsRows
<1>11. MembersOK'
  <2>1. ASSUME NEW q \in Pools, NEW r \in Rides, memb'[q][r] = "left"
        PROVE  \/ pool'[q] = "CANCELLED"
               \/ ride'[r] = "CANCELLED" /\ \A o \in Pools : memb'[o][r] # "aboard"
    <3>1. CASE q = p
      BY <1>7, <3>1
    <3>2. CASE q # p
      <4>1. memb[q][r] = "left"
        BY <1>6, <2>1, <3>2
      <4>2. \/ pool[q] = "CANCELLED"
            \/ ride[r] = "CANCELLED" /\ \A o \in Pools : memb[o][r] # "aboard"
        BY <1>1, <4>1 DEF RowsOK, MembersOK
      <4> QED BY <1>1, <1>6, <1>7, <1>8, <3>2, <4>2
    <3> QED BY <3>1, <3>2
  <2>2. ASSUME NEW q \in Pools
        PROVE  /\ pool'[q] # None => poolDriver'[q] \in Drivers
               /\ \A r \in Rides :
                     /\ memb'[q][r] # None => pool'[q] # None
                     /\ memb'[q][r] = "aboard" => pool'[q] # "CANCELLED" /\ fare'[q][r] \in Fare
    BY <1>1, <1>3, <1>6, <1>7, <1>8 DEF RowsOK, MembersOK, None
  <2> QED BY <2>1, <2>2 DEF MembersOK
<1>12. WaitingOK' /\ NoTwoTrips'
    BY <1>1, <1>7, <1>8, <1>9 DEF RowsOK, WaitingOK, NoTwoTrips
<1>13. SeatsReconcile'
  <2>1. /\ {r \in Rides : memb'[p][r] = "aboard"} = {}
        /\ \A q \in Pools : q # p => {r \in Rides : memb'[q][r] = "aboard"} = Aboard(q)
    BY <1>6, <1>7 DEF Aboard
  <2>2. \A q \in Pools : seatsTaken[q] = SeatsOf(Aboard(q))
    BY <1>1 DEF RowsOK, SeatsReconcile
  <2>3. seatsTaken'[p] = SeatsOf({r \in Rides : memb'[p][r] = "aboard"})
    BY <1>7, <2>1, SeatsOfNobody
  <2>4. ASSUME NEW q \in Pools, q # p
        PROVE  seatsTaken'[q] = SeatsOf({r \in Rides : memb'[q][r] = "aboard"})
    BY <1>6, <2>1, <2>2, <2>4
  <2> QED BY <2>3, <2>4 DEF SeatsReconcile, Aboard
<1>14. CounterFits'
  <2>1. Capacity[poolDriver[p]] \in Nat
    BY <1>1, FleetAssumption DEF RowsOK, MembersOK
  <2> QED BY <1>1, <1>3, <1>6, <1>7, <2>1 DEF RowsOK, CounterFits
<1>15. OneStory'
    BY <1>1, <1>2, <1>3, <1>7 DEF RowsOK, OneStory
<1>16. RowsOK'
    BY <1>11, <1>12, <1>13, <1>14, <1>15 DEF RowsOK
<1> QED BY <1>1, <1>3, <1>r, <1>4, <1>5, <1>10, <1>16, CommitPreserves DEF TypeOK

\* Nothing in the invariant but its type depends on who is online or on the
\* age of a cancellation.
LEMMA CommitOfflinePreserves ==
    ASSUME IInv, NEW t \in Tx, CommitOffline(t)
    PROVE  IInv' /\ KeepsRows(t)
<1>1. TypeOK /\ RowsOK
    BY DEF IInv
<1>2. /\ online' \in [Drivers -> BOOLEAN] /\ End(t)
      /\ UNCHANGED <<ride, final, pay, amount, wallet, pool, poolDriver, poolArea,
                     seatsTaken, memb, fare, aged, revived>>
    BY <1>1 DEF CommitOffline, TypeOK, rideRows, poolRows
<1>3. KeepsRows(t)
    BY <1>2 DEF KeepsRows
<1>4. RowsOK'
    BY <1>1, <1>2 DEF RowsOK, MembersOK, WaitingOK, NoTwoTrips, SeatsReconcile, Aboard,
       CounterFits, OneStory
<1> QED BY <1>1, <1>2, <1>3, <1>4, CommitPreserves DEF TypeOK

LEMMA OthersPreserve ==
    ASSUME IInv, \/ \E d \in Drivers : GoOnline(d)
                 \/ \E p \in Pools : AgeOut(p)
                 \/ UNCHANGED vars
    PROVE  IInv'
<1>1. TypeOK /\ RowsOK /\ \A t \in Tx : RequestOK(t)
    BY DEF IInv
<1>2. UNCHANGED <<ride, final, pay, amount, wallet, pool, poolDriver, poolArea,
                  seatsTaken, memb, fare, pc, req, poolLock, userLock>>
    BY DEF GoOnline, AgeOut, rideRows, poolRows, vars, db
<1>3. online' \in [Drivers -> BOOLEAN] /\ aged' \in SUBSET Pools /\ revived' = revived
    BY <1>1 DEF GoOnline, AgeOut, vars, db, TypeOK
<1>4. TypeOK'
    BY <1>1, <1>2, <1>3 DEF TypeOK
<1>5. RowsOK'
    BY <1>1, <1>2 DEF RowsOK, MembersOK, WaitingOK, NoTwoTrips, SeatsReconcile, Aboard,
       CounterFits, OneStory
<1>6. ASSUME NEW t \in Tx PROVE RequestOK(t)'
  <2>1. RequestOK(t)
    BY <1>1
  <2> QED BY <1>2, <2>1 DEF RequestOK, ArgumentsOK, InsertOK, CancelOK, HoldingOK, ClaimOK,
          CallOffOK
<1> QED BY <1>4, <1>5, <1>6 DEF IInv

-----------------------------------------------------------------------------
(* The theorems.                                                           *)

LEMMA Initially ==
    ASSUME Init
    PROVE  IInv
<1> USE TxAssumption, RidesAssumption, FleetAssumption
<1>1. TypeOK
    BY EmptyRequest DEF Init, TypeOK, PC
<1>2. MembersOK /\ WaitingOK /\ NoTwoTrips /\ CounterFits
    BY DEF Init, MembersOK, WaitingOK, NoTwoTrips, CounterFits, None
<1>3. SeatsReconcile
  <2>1. \A p \in Pools : Aboard(p) = {}
    BY DEF Init, Aboard, None
  <2> QED BY <2>1, SeatsOfNobody DEF Init, SeatsReconcile
<1>4. OneStory
    BY DEF Init, OneStory, None
<1>5. \A t \in Tx : RequestOK(t)
    BY DEF Init, RequestOK, ArgumentsOK, InsertOK, CancelOK, HoldingOK, ClaimOK, CallOffOK,
       RideLabels, PoolLabels, DriverLabels, HoldingLabels
<1> QED BY <1>1, <1>2, <1>3, <1>4, <1>5 DEF IInv, RowsOK

LEMMA EveryStepPreserves ==
    ASSUME IInv, [Next]_vars
    PROVE  IInv'
<1>1. ASSUME NEW t \in Tx, Ask(t) PROVE IInv'
    BY <1>1, AskIsQuiet, QuietPreserves
<1>2. ASSUME NEW t \in Tx, WaitOrRefuse(t) PROVE IInv'
    BY <1>2, WaitIsQuiet, QuietPreserves
<1>3. ASSUME NEW t \in Tx,
             \/ InsertRide(t) \/ CommitCancelRide(t)
             \/ CommitCreatePool(t) \/ CommitAddMember(t)
             \/ MarkArrived(t) \/ StartTrip(t) \/ CompleteTrip(t) \/ CancelPool(t)
             \/ CommitOffline(t)
      PROVE  IInv'
    BY <1>3, InsertRidePreserves, CommitCancelRidePreserves, CommitCreatePoolPreserves,
       CommitAddMemberPreserves, MarkArrivedPreserves, StartTripPreserves,
       CompleteTripPreserves, CancelPoolPreserves, CommitOfflinePreserves
<1> QED
    BY <1>1, <1>2, <1>3, OthersPreserve DEF Next, Proceed, Acquire, WaitOrRefuse

\* The invariant of the argument holds in every reachable state.
THEOREM Invariance == Spec => []IInv
<1>1. Init => IInv
    BY Initially
<1>2. IInv /\ [Next]_vars => IInv'
    BY EveryStepPreserves
<1> QED BY <1>1, <1>2, PTL DEF Spec

\* Every variable keeps its type; in particular no wallet goes below zero.
THEOREM TypeCorrect == Spec => []TypeOK
<1>1. IInv => TypeOK
    BY DEF IInv
<1> QED BY <1>1, Invariance, PTL

\* The seat counters agree with the membership rows in every committed state.
THEOREM Reconciliation == Spec => []SeatsReconcile
<1>1. IInv => SeatsReconcile
    BY DEF IInv, RowsOK
<1> QED BY <1>1, Invariance, PTL

\* No vehicle ever carries more than it seats.
THEOREM SeatsNeverOversold == Spec => []NoOversell
<1>1. IInv => NoOversell
    BY DEF IInv, RowsOK, SeatsReconcile, CounterFits, NoOversell
<1> QED BY <1>1, Invariance, PTL

\* No ride is ever in two pools.
THEOREM NeverTwoTrips == Spec => []OneTrip
<1>1. IInv => OneTrip
    BY DEF IInv, RowsOK, NoTwoTrips, OneTrip, TripsOf
<1> QED BY <1>1, Invariance, PTL

\* Status, locked fare and receipt of a ride always agree.
THEOREM StatusAndMoneyAgree == Spec => []OneStory
<1>1. IInv => OneStory
    BY DEF IInv, RowsOK
<1> QED BY <1>1, Invariance, PTL

\* After the trip has started no step moves the fare of a ride: StartTrip and
\* CancelPool, which write it, only reach rides that have not started.
THEOREM FareNeverMoves == Spec => FareIsFinal
<1>1. ASSUME IInv, [Next]_vars, NEW r \in Rides, final[r] # None
      PROVE  final'[r] = final[r]
  <2>1. TypeOK /\ RowsOK /\ ride[r] \in {"STARTED", "COMPLETED"}
    BY <1>1 DEF IInv, RowsOK, OneStory
  <2>2. ASSUME NEW t \in Tx, StartTrip(t)
        PROVE  final'[r] = final[r]
    <3>1. /\ req[t].pool \in Pools /\ poolLock[req[t].pool] = t
          /\ pool[req[t].pool] \in ActivePoolStatus /\ Advance(req[t].pool, "STARTED")
      BY <1>1, <2>2, DriverHolds DEF StartTrip
    <3>2. memb[req[t].pool][r] # "aboard"
      BY <1>1, <2>1, <3>1, AdvancePreserves
    <3> QED BY <2>2, <3>2 DEF StartTrip, Aboard
  <2>3. ASSUME NEW t \in Tx, CancelPool(t)
        PROVE  final'[r] = final[r]
    <3>1. memb[req[t].pool][r] # "aboard"
      BY <1>1, <2>1, <2>3 DEF IInv, RequestOK, CallOffOK, CancelPool
    <3> QED BY <2>3, <3>1 DEF CancelPool, Aboard
  <2>4. ASSUME NEW t \in Tx, Ask(t) \/ WaitOrRefuse(t)
        PROVE  final'[r] = final[r]
    BY <1>1, <2>4, AskIsQuiet, WaitIsQuiet DEF Quiet, db, rideRows
  <2>5. ASSUME NEW t \in Tx,
               \/ InsertRide(t) \/ CommitCancelRide(t) \/ CommitCreatePool(t)
               \/ CommitAddMember(t) \/ MarkArrived(t) \/ CompleteTrip(t)
               \/ CommitOffline(t)
        PROVE  final'[r] = final[r]
    BY <2>5 DEF InsertRide, CommitCancelRide, CommitCreatePool, CommitAddMember,
       MarkArrived, CompleteTrip, CommitOffline, rideRows
  <2>6. ASSUME \/ \E d \in Drivers : GoOnline(d)
               \/ \E p \in Pools : AgeOut(p)
               \/ UNCHANGED vars
        PROVE  final'[r] = final[r]
    BY <2>6 DEF GoOnline, AgeOut, rideRows, vars, db
  <2> QED
    BY <1>1, <2>2, <2>3, <2>4, <2>5, <2>6 DEF Next, Proceed, Acquire, WaitOrRefuse
<1>2. IInv /\ [Next]_vars => [\A r \in Rides : final[r] # None => final'[r] = final[r]]_vars
  BY <1>1
<1> QED BY <1>2, Invariance, PTL DEF Spec, FareIsFinal

-----------------------------------------------------------------------------
(* The money.                                                              *)

\* The rides that a wallet has paid for.
Debited == {r \in Rides : Method[r] = "TESLAPAY" /\ pay[r] = "PAID"}

LedgerInv == \A u \in Passengers : wallet[u] + Spent(Debited, u) = InitialBalance[u]

\* Settling more payments, none of them twice, takes the sum.
LEMMA SpentOnBoth ==
    ASSUME NEW R \in SUBSET Rides, NEW D \in SUBSET Rides, NEW u,
           \A r \in R \cup D : Charge(r) \in Nat,
           R \cap D = {}
    PROVE  Spent(R \cup D, u) = Spent(R, u) + Spent(D, u)
<1>1. /\ IsFiniteSet(Coins(R, u)) /\ Spent(R, u) \in Nat
      /\ IsFiniteSet(Coins(D, u)) /\ Spent(D, u) \in Nat
    BY CoinsAreFinite, SpentIsNat
<1>2. Coins(R \cup D, u) = Coins(R, u) \cup Coins(D, u)
    BY DEF Coins
<1>3. Coins(R, u) \cap Coins(D, u) = {}
    BY DEF Coins
<1>4. Cardinality(Coins(R, u) \cup Coins(D, u)) =
          Cardinality(Coins(R, u)) + Cardinality(Coins(D, u)) - Cardinality({})
    BY <1>1, <1>3, FS_Union
<1>5. Cardinality({}) = 0
    BY FS_EmptySet
<1>6. Spent(R \cup D, u) = Spent(R, u) + Spent(D, u) - Cardinality({})
    BY <1>2, <1>4 DEF Spent
<1> QED BY <1>1, <1>5, <1>6

\* Where the receipts of the paid rides stay, and the wallets, the ledger stays.
LEMMA ReceiptsKept ==
    ASSUME LedgerInv, wallet' = wallet, pay' = pay,
           \A r \in Debited : amount'[r] = amount[r]
    PROVE  LedgerInv'
<1>1. Debited' = Debited
    BY DEF Debited
<1>2. \A u : Coins(Debited, u)' = Coins(Debited, u)
    BY <1>1 DEF Coins, Charge
<1> QED BY <1>2 DEF LedgerInv, Spent

LEMMA DebitedFacts ==
    ASSUME IInv, NEW r \in Debited
    PROVE  r \in Rides /\ pay[r] = "PAID" /\ Charge(r) \in Nat /\ amount[r] = final[r]
<1>1. r \in Rides /\ pay[r] = "PAID"
    BY DEF Debited
<1>2. amount[r] \in Fare /\ amount[r] = final[r]
    BY <1>1 DEF IInv, RowsOK, OneStory, TypeOK, None
<1> QED BY <1>1, <1>2, RidesAssumption DEF Charge

\* A trip that starts charges rides that have not been charged.
LEMMA StartTripKeepsLedger ==
    ASSUME IInv, LedgerInv, NEW t \in Tx, StartTrip(t)
    PROVE  LedgerInv'
<1> DEFINE p == req[t].pool
<1>1. /\ p \in Pools /\ poolLock[p] = t /\ pool[p] \in ActivePoolStatus
      /\ Advance(p, "STARTED")
    BY DriverHolds DEF StartTrip
<1>2. \A r \in Rides : memb[p][r] = "aboard" => pay[r] = None
  <2>1. \A r \in Rides : memb[p][r] = "aboard" => ride[r] \notin {"STARTED", "COMPLETED"}
    BY <1>1, AdvancePreserves DEF StartTrip
  <2> QED BY <2>1 DEF IInv, RowsOK, OneStory
<1>3. /\ wallet' = wallet
      /\ pay' = [r \in Rides |-> IF memb[p][r] = "aboard" THEN "PENDING" ELSE pay[r]]
      /\ \A r \in Rides : memb[p][r] # "aboard" => amount'[r] = amount[r]
    BY DEF StartTrip, Aboard
<1> HIDE DEF p
<1>4. Debited' = Debited
    BY <1>2, <1>3 DEF Debited, None
<1>5. \A r \in Debited : amount'[r] = amount[r]
    BY <1>2, <1>3, DebitedFacts DEF None
<1>6. \A u : Coins(Debited, u)' = Coins(Debited, u)
    BY <1>4, <1>5 DEF Coins, Charge
<1> QED BY <1>3, <1>6 DEF LedgerInv, Spent

\* A trip that ends debits the wallets by what it then calls paid.
LEMMA CompleteTripKeepsLedger ==
    ASSUME IInv, LedgerInv, NEW t \in Tx, CompleteTrip(t)
    PROVE  LedgerInv'
<1> DEFINE p == req[t].pool
<1>1. SettlePayments(p) /\ amount' = amount
    BY DEF CompleteTrip
<1> HIDE DEF p
<1>2. PICK D \in Debits(p) :
          /\ pay' = Receipts(p, D \cup Collected(p))
          /\ wallet' = [u \in Passengers |-> wallet[u] - Spent(D, u)]
    BY <1>1 DEF SettlePayments
<1>3. /\ D \subseteq Rides
      /\ \A r \in D : pay[r] = "PENDING" /\ Method[r] = "TESLAPAY"
      /\ \A r \in Due(p) : pay[r] = "PENDING"
      /\ D \subseteq Due(p)
      /\ \A r \in Collected(p) : Method[r] = "CASH" /\ r \in Due(p)
    BY DEF Debits, Wallets, Due, Aboard, Collected
<1>4. Debited' = Debited \cup D /\ Debited \cap D = {}
  <2>1. ASSUME NEW r \in Rides
        PROVE  pay'[r] = IF r \in D \cup Collected(p) THEN "PAID"
                         ELSE IF r \in Due(p) THEN "FAILED" ELSE pay[r]
    BY <1>2 DEF Receipts
  <2> QED BY <1>3, <2>1 DEF Debited
<1>5. /\ Debited \in SUBSET Rides /\ D \in SUBSET Rides
      /\ \A r \in Debited \cup D : Charge(r) \in Nat
  <2>1. \A r \in D : amount[r] \in Fare
    BY <1>3 DEF IInv, RowsOK, OneStory, TypeOK, None
  <2>2. \A r \in D : Charge(r) \in Nat
    BY <1>3, <2>1, RidesAssumption DEF Charge
  <2> QED BY <1>3, <2>2, DebitedFacts DEF Debited
<1>6. ASSUME NEW u \in Passengers
      PROVE  wallet'[u] + Spent(Debited, u)' = InitialBalance[u]
  <2>1. Spent(Debited, u)' = Spent(Debited \cup D, u)
    BY <1>1, <1>4 DEF Spent, Coins, Charge
  <2>2. Spent(Debited \cup D, u) = Spent(Debited, u) + Spent(D, u)
    BY <1>4, <1>5, SpentOnBoth
  <2>3. Spent(Debited, u) \in Nat /\ Spent(D, u) \in Nat /\ wallet[u] \in Nat
    BY <1>5, SpentIsNat DEF IInv, TypeOK
  <2>4. wallet'[u] = wallet[u] - Spent(D, u)
    BY <1>2
  <2>5. wallet[u] + Spent(Debited, u) = InitialBalance[u]
    BY DEF LedgerInv
  <2> QED BY <2>1, <2>2, <2>3, <2>4, <2>5
<1> QED BY <1>6 DEF LedgerInv

LEMMA LedgerStep == IInv /\ LedgerInv /\ [Next]_vars => LedgerInv'
<1> SUFFICES ASSUME IInv, LedgerInv, [Next]_vars PROVE LedgerInv'
    OBVIOUS
<1>1. ASSUME NEW t \in Tx, Ask(t) \/ WaitOrRefuse(t)
      PROVE  UNCHANGED <<pay, amount, wallet>>
    BY <1>1, AskIsQuiet, WaitIsQuiet DEF Quiet, db, rideRows
<1>2. ASSUME NEW t \in Tx,
             \/ InsertRide(t) \/ CommitCancelRide(t) \/ CommitCreatePool(t)
             \/ CommitAddMember(t) \/ MarkArrived(t) \/ CancelPool(t)
             \/ CommitOffline(t)
      PROVE  UNCHANGED <<pay, amount, wallet>>
    BY <1>2 DEF InsertRide, CommitCancelRide, CommitCreatePool, CommitAddMember,
       MarkArrived, CancelPool, CommitOffline, rideRows
<1>3. ASSUME \/ \E d \in Drivers : GoOnline(d)
             \/ \E p \in Pools : AgeOut(p)
             \/ UNCHANGED vars
      PROVE  UNCHANGED <<pay, amount, wallet>>
    BY <1>3 DEF GoOnline, AgeOut, rideRows, vars, db
<1> QED
    BY <1>1, <1>2, <1>3, ReceiptsKept, StartTripKeepsLedger, CompleteTripKeepsLedger
       DEF Next, Proceed, Acquire, WaitOrRefuse

\* No coin is lost or made: what a wallet no longer holds is on the receipts of
\* the rides it paid for (pool.payments.ts:109).
THEOREM MoneyIsConserved == Spec => []LedgerBalances
<1>1. Init => LedgerInv
  <2> SUFFICES ASSUME Init PROVE LedgerInv
    OBVIOUS
  <2>1. Debited = {}
    BY DEF Init, Debited, None
  <2>2. \A u : Coins(Debited, u) = {}
    BY <2>1 DEF Coins
  <2>3. \A u : Spent(Debited, u) = 0
    BY <2>2, FS_EmptySet DEF Spent
  <2> QED BY <2>3, FleetAssumption DEF Init, LedgerInv
<1>2. IInv /\ LedgerInv => LedgerBalances
  <2> SUFFICES ASSUME IInv, LedgerInv, NEW u \in Passengers
               PROVE  LET receipts == {r \in Rides : /\ Owner[r] = u
                                                     /\ Method[r] = "TESLAPAY"
                                                     /\ pay[r] = "PAID"}
                          coins == UNION {{r} \X (1..Price[r][final[r]]) : r \in receipts}
                      IN  wallet[u] + Cardinality(coins) = InitialBalance[u]
    BY DEF LedgerBalances
  <2> DEFINE receipts == {r \in Rides : Owner[r] = u /\ Method[r] = "TESLAPAY" /\ pay[r] = "PAID"}
             coins == UNION {{r} \X (1..Price[r][final[r]]) : r \in receipts}
  <2>1. receipts = {m \in Debited : Owner[m] = u}
    BY DEF Debited
  <2>2. \A r \in receipts : Price[r][final[r]] = Charge(r)
    BY <2>1, DebitedFacts DEF Charge
  <2> HIDE DEF receipts
  <2>3. coins = Coins(Debited, u)
    BY <2>1, <2>2 DEF Coins
  <2> QED BY <2>3 DEF LedgerInv, Spent, receipts
<1> QED BY <1>1, <1>2, LedgerStep, Invariance, PTL DEF Spec

-----------------------------------------------------------------------------
(* The order in which cancelRide takes its row locks.                      *)

CancelLabels == {"loadMembers", "lockTrip", "cancelRide"}

\* A cancel that is going for a trip it has not locked: the next one, or, when
\* its passes have run out, the one it takes its ride off.
GoesOn(t) ==
    \/ pc[t] = "lockTrip"
    \/ pc[t] = "cancelRide" /\ req[t].pool # Null /\ poolLock[req[t].pool] # t

\* Only cancels and holders hold pool rows.  A cancel that is about to look
\* again holds cancelled pools, and the one it locked last, in which its ride is
\* or was; one that goes on to another trip holds cancelled pools only.  The row of a
\* user is held by an insert or an accept about to commit.
TripLocksOK(t) ==
    /\ \A p \in Pools : poolLock[p] = t => pc[t] \in CancelLabels \cup HoldingLabels
    /\ pc[t] = "loadMembers" =>
          \A p \in Pools : poolLock[p] = t =>
              \/ pool[p] = "CANCELLED"
              \/ p = req[t].held /\ memb[p][req[t].ride] # None
    /\ pc[t] = "lockTrip" =>
          memb[req[t].pool][req[t].ride] # None
    /\ GoesOn(t) => \A p \in Pools : poolLock[p] = t => pool[p] = "CANCELLED"
    /\ \A u \in Users : userLock[u] = t => pc[t] \in {"insertRide", "createPool"}

\* No step of one request makes another hold a row, or lose one.
GivesNoLock(t) ==
    /\ \A s \in Tx \ {t} : pc'[s] = pc[s] /\ req'[s] = req[s]
    /\ \A p \in Pools, s \in Tx \ {t} : poolLock'[p] = s <=> poolLock[p] = s
    /\ \A u \in Users, s \in Tx \ {t} : userLock'[u] = s <=> userLock[u] = s

LEMMA OthersHoldDeadTrips ==
    ASSUME IInv, NEW t \in Tx, GivesNoLock(t), KeepsRows(t), NEW s \in Tx \ {t},
           TripLocksOK(s)
    PROVE  TripLocksOK(s)'
<1> USE TxAssumption
<1>1. TypeOK /\ ArgumentsOK(s)
    BY DEF IInv, RequestOK
<1>2. /\ pc'[s] = pc[s] /\ req'[s] = req[s]
      /\ \A p \in Pools : poolLock'[p] = s <=> poolLock[p] = s
      /\ \A u \in Users : userLock'[u] = s <=> userLock[u] = s
    BY DEF GivesNoLock
<1>a. GoesOn(s)' <=> GoesOn(s)
  <2>1. req[s].pool \in Pools \cup {Null}
    BY <1>1 DEF TypeOK, Request
  <2> QED BY <1>2, <2>1 DEF GoesOn
<1>3. ASSUME NEW p \in Pools, poolLock[p] = s, pool[p] = "CANCELLED"
      PROVE  pool'[p] = "CANCELLED"
    BY <1>3 DEF KeepsRows, None
<1>4. \A p \in Pools, r \in Rides : memb[p][r] # None => memb'[p][r] # None
    BY DEF KeepsRows
<1>5. /\ pc[s] \in {"loadMembers", "lockTrip"} => req[s].ride \in Rides
      /\ pc[s] = "lockTrip" => req[s].pool \in Pools
    BY <1>1 DEF ArgumentsOK, RideLabels, PoolLabels
<1> QED BY <1>a, <1>2, <1>3, <1>4, <1>5 DEF TripLocksOK

\* A slot that is freed holds nothing.
LEMMA EndHoldsNothing ==
    ASSUME IInv, NEW t \in Tx, End(t)
    PROVE  TripLocksOK(t)' /\ GivesNoLock(t)
<1> USE TxAssumption
<1>1. /\ pc'[t] = "idle" /\ \A p \in Pools : poolLock'[p] # t
      /\ \A u \in Users : userLock'[u] # t
    BY DEF IInv, TypeOK, End, Goto
<1>2. TripLocksOK(t)'
    BY <1>1 DEF TripLocksOK, GoesOn
<1>3. GivesNoLock(t)
    BY DEF GivesNoLock, IInv, TypeOK, End, Goto
<1> QED BY <1>2, <1>3

LEMMA AskHoldsNothingNew ==
    ASSUME IInv, NEW t \in Tx, TripLocksOK(t), Ask(t)
    PROVE  TripLocksOK(t)' /\ GivesNoLock(t)
<1> USE TxAssumption
<1>1. TypeOK
    BY DEF IInv
<1>2. ASSUME NEW label \in PC \ {"lockTrip"}, NEW q,
             pc[t] = "idle", Goto(t, label, q), poolLock' = poolLock,
             \/ userLock' = userLock
             \/ \E u \in Users : LockUserRow(t, u) /\ label \in {"insertRide", "createPool"}
      PROVE  TripLocksOK(t)' /\ GivesNoLock(t)
  <2>1. /\ \A p \in Pools : poolLock'[p] # t
        /\ \A u \in Users : userLock[u] # t
    BY <1>2 DEF TripLocksOK, CancelLabels, HoldingLabels
  <2>2. pc'[t] = label
    BY <1>1, <1>2 DEF Goto, TypeOK
  <2>3. /\ \A u \in Users : userLock'[u] = t => label \in {"insertRide", "createPool"}
        /\ \A u \in Users, s \in Tx \ {t} : userLock'[u] = s <=> userLock[u] = s
    BY <1>1, <1>2, <2>1 DEF LockUserRow, TypeOK
  <2>4. TripLocksOK(t)'
    BY <2>1, <2>2, <2>3 DEF TripLocksOK
  <2>5. GivesNoLock(t)
    BY <1>1, <1>2, <2>3 DEF GivesNoLock, Goto, TypeOK
  <2> QED BY <2>4, <2>5
<1>3. ASSUME NEW p \in Pools, NEW label \in HoldingLabels, LockOwnedPool(t, p, label)
      PROVE  TripLocksOK(t)' /\ GivesNoLock(t)
  <2>1. pc'[t] = label /\ label \notin {"loadMembers", "lockTrip", "cancelRide"}
    BY <1>1, <1>3 DEF LockOwnedPool, Goto, TypeOK, HoldingLabels
  <2>2. \A u \in Users : userLock'[u] # t
    BY <1>3 DEF LockOwnedPool, LockPoolRow, TripLocksOK
  <2>3. TripLocksOK(t)'
    BY <2>1, <2>2 DEF TripLocksOK, GoesOn
  <2>4. GivesNoLock(t)
    BY <1>1, <1>3 DEF GivesNoLock, LockOwnedPool, LockPoolRow, Goto, TypeOK
  <2> QED BY <2>3, <2>4
<1>4. ASSUME NEW r \in Rides, CreateRide(t, r) \/ CancelRide(t, r)
      PROVE  TripLocksOK(t)' /\ GivesNoLock(t)
  <2>1. Owner[r] \in Users
    BY RidesAssumption DEF Users
  <2> QED BY <1>2, <1>4, <2>1 DEF CreateRide, CancelRide, LockUserRow, LocksKept, PC
<1>5. ASSUME NEW d \in Drivers, NEW r \in Rides,
             BeginCreatePool(t, d, r) \/ CheckOffline(t, d)
      PROVE  TripLocksOK(t)' /\ GivesNoLock(t)
    BY <1>2, <1>5 DEF BeginCreatePool, CheckOffline, LocksKept, PC
<1>6. ASSUME NEW p \in Pools, NEW r \in Rides, BeginAddMember(t, p, r)
      PROVE  TripLocksOK(t)' /\ GivesNoLock(t)
    BY <1>2, <1>6 DEF BeginAddMember, LocksKept, PC
<1>7. ASSUME NEW p \in Pools,
             \/ BeginArrive(t, p) \/ BeginStart(t, p)
             \/ BeginComplete(t, p) \/ BeginCancelPool(t, p)
      PROVE  TripLocksOK(t)' /\ GivesNoLock(t)
    BY <1>3, <1>7 DEF BeginArrive, BeginStart, BeginComplete, BeginCancelPool, HoldingLabels
<1>8. ASSUME NEW d \in Drivers, CheckOffline(t, d)
      PROVE  TripLocksOK(t)' /\ GivesNoLock(t)
    BY <1>2, <1>8 DEF CheckOffline, LocksKept, PC
<1> QED BY <1>4, <1>5, <1>6, <1>7, <1>8 DEF Ask

LEMMA WaitHoldsDeadTrips ==
    ASSUME IInv, NEW t \in Tx, TripLocksOK(t), WaitOrRefuse(t)
    PROVE  TripLocksOK(t)' /\ GivesNoLock(t)
<1> USE TxAssumption
<1>1. TypeOK /\ RowsOK /\ ArgumentsOK(t)
    BY DEF IInv, RequestOK
<1>2. CASE LoadMembers(t)
  <2> DEFINE q      == req[t]
             target == TripOf(q.ride)
  <2>1. pc[t] = "loadMembers" /\ q \in Request /\ q.ride \in Rides
        /\ memb' = memb /\ pool' = pool
    BY <1>1, <1>2 DEF LoadMembers, TypeOK, ArgumentsOK, RideLabels, db, poolRows
  <2> DEFINE next == [q EXCEPT !.pool = target]
  <2>a. next.pool = target /\ next.ride = q.ride
    BY <2>1 DEF Request
  <2>b. \/ End(t)
        \/ /\ poolLock' = poolLock /\ userLock' = userLock
           /\ Goto(t, "cancelRide", next)
        \/ /\ poolLock' = poolLock /\ userLock' = userLock /\ target # Null
           /\ target # q.held /\ Goto(t, "lockTrip", next)
    BY <1>2 DEF LoadMembers, Settled, LocksKept
  <2> HIDE DEF next
  <2>3. target # Null => target \in Pools /\ memb[target][q.ride] = "aboard"
    BY DEF TripOf, TripsOf
  <2> HIDE DEF target
  \* Its ride is on another trip now, so the one it locked last is over.
  <2>4. ASSUME target # Null, NEW p \in Pools, poolLock[p] = t,
               p # target \/ target # q.held
        PROVE  pool[p] = "CANCELLED"
    <3>1. CASE p = q.held /\ memb[p][q.ride] # None
      <4>1. memb[p][q.ride] # "aboard"
        BY <1>1, <2>1, <2>3, <2>4, <3>1 DEF RowsOK, NoTwoTrips
      <4>2. memb[p][q.ride] = "left"
        BY <1>1, <2>1, <3>1, <4>1 DEF TypeOK
      <4> QED BY <1>1, <2>1, <2>3, <2>4, <4>2 DEF RowsOK, MembersOK
    <3> QED BY <2>1, <2>4, <3>1 DEF TripLocksOK
  <2>5. ASSUME poolLock' = poolLock, userLock' = userLock,
               NEW label \in {"cancelRide", "lockTrip"}, NEW n, Goto(t, label, n),
               n.pool = target, n.ride = q.ride,
               label = "lockTrip" => target # Null /\ target # q.held
        PROVE  TripLocksOK(t)' /\ GivesNoLock(t)
    <3>1. pc'[t] = label /\ req'[t] = n
      BY <1>1, <2>5 DEF Goto, TypeOK
    <3>2. GoesOn(t)' => \A p \in Pools : poolLock[p] = t => pool[p] = "CANCELLED"
      BY <2>3, <2>4, <2>5, <3>1 DEF GoesOn
    <3>3. label = "lockTrip" => memb[target][q.ride] # None
      BY <2>3, <2>5 DEF None
    <3>4. \A u \in Users : userLock'[u] # t
      BY <2>1, <2>5 DEF TripLocksOK
    <3>5. TripLocksOK(t)'
      BY <2>1, <2>5, <3>1, <3>2, <3>3, <3>4 DEF TripLocksOK, CancelLabels
    <3>6. GivesNoLock(t)
      BY <1>1, <2>5 DEF GivesNoLock, Goto, TypeOK
    <3> QED BY <3>5, <3>6
  <2> QED BY <2>a, <2>b, <2>5, EndHoldsNothing
<1>3. CASE LockTrip(t)
  <2> DEFINE q == req[t]
             n == [q EXCEPT !.held = q.pool, !.pool = Null, !.pass = @ + 1,
                            !.seen = ride[q.ride]]
  <2>1. pc[t] = "lockTrip" /\ q \in Request /\ q.pool \in Pools
        /\ memb' = memb /\ pool' = pool
    BY <1>1, <1>3 DEF LockTrip, TypeOK, ArgumentsOK, PoolLabels, db, poolRows
  <2>2. n.held = q.pool /\ n.ride = q.ride
    BY <2>1 DEF Request
  <2>3. LockPoolRow(t, q.pool) /\ Goto(t, "loadMembers", n)
    BY <1>3 DEF LockTrip
  <2> HIDE DEF n
  <2>4. pc'[t] = "loadMembers" /\ req'[t] = n
    BY <1>1, <2>3 DEF Goto, TypeOK
  <2>5. \A p \in Pools : poolLock'[p] = t => p = q.pool \/ poolLock[p] = t
    BY <1>1, <2>1, <2>3 DEF LockPoolRow, TypeOK
  <2>6. userLock' = userLock /\ \A u \in Users : userLock'[u] # t
    BY <2>1, <2>3 DEF LockPoolRow, TripLocksOK
  <2>7. TripLocksOK(t)'
    BY <2>1, <2>2, <2>4, <2>5, <2>6 DEF TripLocksOK, CancelLabels, GoesOn
  <2>8. GivesNoLock(t)
    BY <1>1, <2>1, <2>3, <2>6 DEF GivesNoLock, LockPoolRow, Goto, TypeOK
  <2> QED BY <2>7, <2>8
<1>4. CASE LockDriver(t)
  <2>1. /\ pc[t] = "lockDriver" /\ pc'[t] = "createPool" /\ poolLock' = poolLock
        /\ LockUserRow(t, req[t].driver) /\ Goto(t, "createPool", req[t])
    BY <1>1, <1>4 DEF LockDriver, LockUserRow, Goto, TypeOK
  <2>2. \A p \in Pools : poolLock'[p] # t
    BY <2>1 DEF TripLocksOK, CancelLabels, HoldingLabels
  <2>3. TripLocksOK(t)'
    BY <2>1, <2>2 DEF TripLocksOK, GoesOn
  <2>4. \A u \in Users, s \in Tx \ {t} : userLock'[u] = s <=> userLock[u] = s
    BY <1>1, <2>1 DEF LockUserRow, TypeOK
  <2>5. GivesNoLock(t)
    BY <1>1, <2>1, <2>4 DEF GivesNoLock, Goto, TypeOK
  <2> QED BY <2>3, <2>5
<1>5. CASE ClaimSeats(t)
  <2>1. req[t].pool \in Pools /\ LockPoolRow(t, req[t].pool) /\ Goto(t, "addMember", req[t])
    BY <1>1, <1>5 DEF ClaimSeats, ArgumentsOK, PoolLabels
  <2>2. pc'[t] = "addMember"
    BY <1>1, <2>1 DEF Goto, TypeOK
  <2>3. TripLocksOK(t)'
    BY <1>5, <2>1, <2>2 DEF ClaimSeats, LockPoolRow, TripLocksOK, HoldingLabels, GoesOn
  <2>4. GivesNoLock(t)
    BY <1>1, <2>1 DEF GivesNoLock, LockPoolRow, Goto, TypeOK
  <2> QED BY <2>3, <2>4
<1>6. CASE RollBack(t)
    BY <1>6, EndHoldsNothing DEF RollBack
<1> QED
    BY <1>2, <1>3, <1>4, <1>5, <1>6
       DEF WaitOrRefuse, RefuseCancelRide, RefuseCreatePool, RefuseClaimSeats,
           RefuseAddMember, RefuseAdvance, Abort

\* What every step of a request does to the locks.
LEMMA LocksStep ==
    ASSUME IInv, NEW t \in Tx, TripLocksOK(t), Ask(t) \/ Proceed(t) \/ Acquire(t) \/ Abort(t)
    PROVE  TripLocksOK(t)' /\ GivesNoLock(t) /\ IInv' /\ KeepsRows(t)
<1>1. CASE Ask(t)
    BY <1>1, AskIsQuiet, QuietPreserves, AskHoldsNothingNew
<1>2. CASE WaitOrRefuse(t)
    BY <1>2, WaitIsQuiet, QuietPreserves, WaitHoldsDeadTrips
<1>3. CASE \/ InsertRide(t) \/ CommitCancelRide(t)
           \/ CommitCreatePool(t) \/ CommitAddMember(t)
           \/ MarkArrived(t) \/ StartTrip(t) \/ CompleteTrip(t) \/ CancelPool(t)
           \/ CommitOffline(t)
  <2>1. End(t)
    BY <1>3 DEF InsertRide, CommitCancelRide, CommitCreatePool, CommitAddMember,
       MarkArrived, StartTrip, CompleteTrip, CancelPool, CommitOffline
  <2>2. IInv' /\ KeepsRows(t)
    BY <1>3, InsertRidePreserves, CommitCancelRidePreserves, CommitCreatePoolPreserves,
       CommitAddMemberPreserves, MarkArrivedPreserves, StartTripPreserves,
       CompleteTripPreserves, CancelPoolPreserves, CommitOfflinePreserves
  <2> QED BY <2>1, <2>2, EndHoldsNothing
<1> QED BY <1>1, <1>2, <1>3 DEF Proceed, Acquire, WaitOrRefuse

LocksInv == IInv /\ \A t \in Tx : TripLocksOK(t)

LEMMA LocksInvStep == LocksInv /\ [Next]_vars => LocksInv'
<1> SUFFICES ASSUME LocksInv, [Next]_vars PROVE LocksInv'
  BY DEF LocksInv
<1>1. ASSUME NEW t \in Tx, Ask(t) \/ Proceed(t) \/ Acquire(t) \/ Abort(t)
      PROVE  LocksInv'
  <2>1. TripLocksOK(t)' /\ GivesNoLock(t) /\ IInv' /\ KeepsRows(t)
    BY <1>1, LocksStep DEF LocksInv
  <2>2. \A s \in Tx \ {t} : TripLocksOK(s)'
    BY <2>1, OthersHoldDeadTrips DEF LocksInv
  <2> QED BY <2>1, <2>2 DEF LocksInv
<1>2. ASSUME \/ \E d \in Drivers : GoOnline(d)
             \/ \E p \in Pools : AgeOut(p)
             \/ UNCHANGED vars
      PROVE  LocksInv'
  <2>1. UNCHANGED <<pool, memb, pc, req, poolLock, userLock>>
    BY <1>2 DEF GoOnline, AgeOut, poolRows, vars, db
  <2> QED BY <1>2, <2>1, OthersPreserve DEF TripLocksOK, GoesOn, LocksInv
<1> QED BY <1>1, <1>2 DEF Next

\* The invariant of the argument, with the locks of the cancels.
THEOREM LockInvariance == Spec => []LocksInv
<1>1. Init => LocksInv
  <2>1. ASSUME Init, NEW t \in Tx PROVE TripLocksOK(t)
    BY <2>1, TxAssumption DEF Init, TripLocksOK, GoesOn
  <2> QED BY <2>1, Initially DEF LocksInv
<1> QED BY <1>1, LocksInvStep, PTL DEF Spec

\* A cancel that waits for a trip holds only trips that are over, so no trip under
\* way is locked by a request that is itself waiting for another trip.
THEOREM CancelsHoldDeadTrips == Spec => []CancelHoldsDeadTrip
<1>1. LocksInv => CancelHoldsDeadTrip
    BY DEF LocksInv, TripLocksOK, GoesOn, CancelHoldsDeadTrip
<1> QED BY <1>1, LockInvariance, PTL

-----------------------------------------------------------------------------
(* Deadlock.                                                               *)

\* Of the steps of a request, only the look-up of a cancel leads to a cancel that
\* waits for a trip.
LEMMA WaitIsBegun ==
    ASSUME TypeOK, NEW t \in Tx, Ask(t) \/ Proceed(t) \/ Acquire(t) \/ Abort(t),
           pc'[t] \in {"lockTrip", "cancelRide"}
    PROVE  LoadMembers(t) /\ UNCHANGED <<poolLock, pool, memb>>
<1>1. ~End(t)
    BY DEF End, Goto, TypeOK
<1>2. \A label \in PC \ {"lockTrip", "cancelRide"}, q \in Request : ~Goto(t, label, q)
    BY DEF Goto, TypeOK
<1>3. ~Ask(t)
    BY DEF Ask, CreateRide, CancelRide, BeginCreatePool, BeginAddMember, BeginArrive,
       BeginStart, BeginComplete, BeginCancelPool, LockOwnedPool, CheckOffline, Goto, TypeOK
<1>4. ~LockTrip(t) /\ ~LockDriver(t) /\ ~ClaimSeats(t)
    BY DEF LockTrip, LockDriver, ClaimSeats, Goto, TypeOK
<1>5. LoadMembers(t)
    BY <1>1, <1>3, <1>4
       DEF Proceed, Acquire, Abort, RollBack, InsertRide, RefuseCancelRide, CommitCreatePool,
           RefuseCreatePool, CommitAddMember, RefuseAddMember, MarkArrived, StartTrip,
           CompleteTrip, RefuseAdvance, CancelPool, CommitOffline, CommitCancelRide,
           RefuseClaimSeats
<1>6. UNCHANGED <<poolLock, pool, memb>>
    BY <1>1, <1>5 DEF LoadMembers, LocksKept, db, poolRows
<1> QED BY <1>5, <1>6

\* In a circle everyone holds what another waits for, so everyone in it is a cancel
\* that is going for another trip.
CircleOfCancels ==
    \A s, t \in Tx :
        WaitsFor(s) = t /\ WaitsFor(t) \in Tx \ {t} =>
            /\ pc[t] \in {"lockTrip", "cancelRide"}
            /\ req[t].pool \in Pools /\ WaitsFor(t) = poolLock[req[t].pool]
            /\ \A p \in Pools : poolLock[p] = t => pool[p] = "CANCELLED"

LEMMA CirclesAreOfCancels == LocksInv => CircleOfCancels
<1> SUFFICES ASSUME LocksInv, NEW s \in Tx, NEW t \in Tx,
                    WaitsFor(s) = t, WaitsFor(t) \in Tx \ {t}
             PROVE  /\ pc[t] \in {"lockTrip", "cancelRide"}
                    /\ req[t].pool \in Pools /\ WaitsFor(t) = poolLock[req[t].pool]
                    /\ \A p \in Pools : poolLock[p] = t => pool[p] = "CANCELLED"
  BY DEF CircleOfCancels
<1> USE TxAssumption DEF LocksInv
<1>1. TypeOK /\ ArgumentsOK(s) /\ ArgumentsOK(t) /\ TripLocksOK(t)
    BY DEF IInv, RequestOK
<1>2. /\ req[s].pool \in Pools \cup {Null} /\ req[t].pool \in Pools \cup {Null}
      /\ pc[s] = "lockDriver" => req[s].driver \in Users
    BY <1>1 DEF TypeOK, Request, ArgumentsOK, DriverLabels, Users
<1>3. t # Null /\ WaitsFor(t) # Null
    OBVIOUS
<1>4. (\E p \in Pools : poolLock[p] = t) \/ (\E u \in Users : userLock[u] = t)
    BY <1>2, <1>3 DEF WaitsFor
<1>5. pc[t] \in CancelLabels \cup HoldingLabels \cup {"insertRide", "createPool"}
    BY <1>1, <1>4 DEF TripLocksOK
<1>6. pc[t] \in {"lockTrip", "cancelRide", "claimSeats", "lockDriver"}
    BY <1>3 DEF WaitsFor
<1>7. pc[t] \in {"lockTrip", "cancelRide"}
    BY <1>5, <1>6 DEF CancelLabels, HoldingLabels
<1>8. /\ req[t].pool \in Pools /\ WaitsFor(t) = poolLock[req[t].pool]
      /\ poolLock[req[t].pool] # t
    BY <1>2, <1>3, <1>7 DEF WaitsFor
<1>9. req[t].pool # Null
    BY <1>3, <1>7 DEF WaitsFor
<1>10. GoesOn(t)
    BY <1>7, <1>8, <1>9 DEF GoesOn
<1> QED BY <1>1, <1>7, <1>8, <1>10 DEF TripLocksOK

\* Nobody closes a circle: whoever begins to wait looked its trip up as one that
\* carries its ride, and whoever holds that trip and waits holds cancelled ones only.
LEMMA NobodyClosesACircle ==
    ASSUME LocksInv, LocksInv', CircleOfCancels', NobodyWaitsInACircle, [Next]_vars
    PROVE  NobodyWaitsInACircle'
<1> USE TxAssumption
<1>0. TypeOK /\ TypeOK'
    BY DEF LocksInv, IInv
<1> SUFFICES ASSUME NEW S \in SUBSET Tx, S # {},
                    \A t \in S : WaitsFor(t)' \in S \ {t}
             PROVE  FALSE
  BY DEF NobodyWaitsInACircle
<1> DEFINE W(t) == WaitsFor(t)'
           R == {t \in S : \E s \in S : W(s) = t}
<1>1. R \subseteq S /\ R # {} /\ R \in SUBSET Tx /\ \A t \in R : W(t) \in R \ {t}
    OBVIOUS
<1>2. ASSUME NEW t \in R
      PROVE  /\ pc'[t] \in {"lockTrip", "cancelRide"}
             /\ req'[t].pool \in Pools /\ W(t) = poolLock'[req'[t].pool]
             /\ \A p \in Pools : poolLock'[p] = t => pool'[p] = "CANCELLED"
  <2>1. PICK s \in S : WaitsFor(s)' = t
    BY <1>2
  <2>2. s \in Tx /\ t \in Tx /\ WaitsFor(t)' \in Tx \ {t}
    BY <1>2
  <2> HIDE DEF R
  <2> QED BY <2>1, <2>2 DEF CircleOfCancels
<1>3. PICK t \in R : WaitsFor(t) \notin R \ {t}
    BY <1>1 DEF NobodyWaitsInACircle
<1> DEFINE p == req'[t].pool
           u == poolLock'[p]
<1>4. /\ t \in Tx /\ u \in R /\ u \in Tx /\ u # t /\ p \in Pools /\ u # Null
      /\ pc'[t] \in {"lockTrip", "cancelRide"} /\ pc'[u] \in {"lockTrip", "cancelRide"}
    BY <1>1, <1>2, <1>3
<1>5. pool'[p] = "CANCELLED"
    BY <1>2, <1>4
<1> HIDE DEF R, W
<1>6. ASSUME pc'[t] = pc[t], req'[t] = req[t], poolLock[p] = u PROVE FALSE
  <2>1. p = req[t].pool /\ p # Null
    BY <1>4, <1>6, TxAssumption
  <2>2. WaitsFor(t) = u
    BY <1>4, <1>6, <2>1 DEF WaitsFor
  <2> QED BY <1>3, <1>4, <2>2
<1>7. ASSUME NEW x \in Tx, Ask(x) \/ Proceed(x) \/ Acquire(x) \/ Abort(x) PROVE FALSE
  <2>1. GivesNoLock(x)
    BY <1>7, LocksStep DEF LocksInv
  <2>2. CASE x # t
    <3>1. pc'[t] = pc[t] /\ req'[t] = req[t]
      BY <1>4, <2>1, <2>2 DEF GivesNoLock
    <3>2. CASE x # u
      BY <1>4, <1>6, <2>1, <3>1, <3>2 DEF GivesNoLock
    <3>3. CASE x = u
      <4>1. poolLock' = poolLock
        BY <1>0, <1>4, <1>7, <3>3, WaitIsBegun
      <4> QED BY <1>6, <3>1, <4>1
    <3> QED BY <3>2, <3>3
  <2>3. CASE x = t
    <3>1. LoadMembers(t) /\ UNCHANGED <<poolLock, pool, memb>>
      BY <1>0, <1>4, <1>7, <2>3, WaitIsBegun
    <3>2. p = TripOf(req[t].ride)
      <4> DEFINE target == TripOf(req[t].ride)
                 next == [req[t] EXCEPT !.pool = target]
      <4>1. req[t] \in Request /\ req'[t] = next
        <5>1. ~End(t)
          BY <1>0, <1>4 DEF End, Goto, TypeOK
        <5>2. Goto(t, "lockTrip", next) \/ Goto(t, "cancelRide", next)
          BY <3>1, <5>1 DEF LoadMembers
        <5>3. req[t] \in Request
          BY <1>0, <1>4 DEF TypeOK
        <5> HIDE DEF next
        <5> QED BY <1>0, <1>4, <5>2, <5>3 DEF Goto, TypeOK
      <4>2. next.pool = target
        BY <4>1 DEF Request
      <4> QED BY <4>1, <4>2
    <3>3. memb[p][req[t].ride] = "aboard"
      <4> HIDE DEF p
      <4> QED BY <1>4, <3>2, TxAssumption DEF TripOf, TripsOf
    <3>4. req[t].ride \in Rides
      <4>1. pc[t] = "loadMembers"
        BY <3>1 DEF LoadMembers
      <4>2. ArgumentsOK(t)
        BY <1>4 DEF LocksInv, IInv, RequestOK
      <4> QED BY <4>1, <4>2 DEF ArgumentsOK, RideLabels
    <3>5. pool[p] = "CANCELLED"
      BY <1>5, <3>1
    <3> HIDE DEF p
    <3> QED BY <1>4, <3>3, <3>4, <3>5 DEF LocksInv, IInv, RowsOK, MembersOK
  <2> QED BY <2>2, <2>3
<1>8. ASSUME \/ \E d \in Drivers : GoOnline(d)
             \/ \E q \in Pools : AgeOut(q)
             \/ UNCHANGED vars
      PROVE  FALSE
  <2>1. UNCHANGED <<pc, req, poolLock>>
    BY <1>8 DEF GoOnline, AgeOut, vars
  <2> QED BY <1>6, <2>1
<1> QED BY <1>7, <1>8 DEF Next

\* Requests that lock the rows of pools and users never wait for each other in a
\* circle, however many they are (rides.service.ts:388, locks.ts:21).
THEOREM NobodyDeadlocks == Spec => []NobodyWaitsInACircle
<1>1. Init => NobodyWaitsInACircle
    BY TxAssumption DEF Init, NobodyWaitsInACircle, WaitsFor
<1>2. LocksInv' => CircleOfCancels'
    BY CirclesAreOfCancels, PTL
<1>3. LocksInv /\ LocksInv' /\ NobodyWaitsInACircle /\ [Next]_vars => NobodyWaitsInACircle'
    BY <1>2, NobodyClosesACircle
<1> QED BY <1>1, <1>3, LockInvariance, PTL DEF Spec
=============================================================================
