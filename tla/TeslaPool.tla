----------------------------- MODULE TeslaPool -----------------------------
(***************************************************************************)
(* The ride-pooling core of the backend: passengers request and cancel     *)
(* rides, drivers accept them into pools and drive the pools through       *)
(* arrive, start, complete or cancel, all as concurrent transactions       *)
(* against one MySQL (InnoDB) database.                                    *)
(*                                                                         *)
(* The database is the committed state.  A transaction runs in a slot of   *)
(* Tx, one step per point where another transaction can come between: its  *)
(* unlocked reads, each row lock it waits for, and its commit.  Its writes *)
(* become visible together at the commit.  A conditional UPDATE of a ride  *)
(* row is evaluated in the commit step: every transaction takes its ride   *)
(* row locks last and keeps them to the commit, so no other transaction    *)
(* can tell the two moments apart.                                         *)
(*                                                                         *)
(* Isolation is InnoDB's.  createPool and addMemberToPool run at the       *)
(* default REPEATABLE READ and begin with a plain read, so all their plain *)
(* reads answer from the state of that first step; locking reads and       *)
(* UPDATE ... WHERE see what is committed when they run.  The transactions *)
(* of MEMBERSHIP_TRANSACTION run at READ COMMITTED: each read sees what is *)
(* committed at that read.  Prisma loads a row and its relation by two     *)
(* SELECTs (the schema does not enable relationJoins), so outside a lock   *)
(* the two answer from different moments.                                  *)
(***************************************************************************)
EXTENDS Lifecycle, Integers, FiniteSets

CONSTANTS
    Rides,          \* ride requests that can be made
    Pools,          \* pool rows that can be inserted (bounds the model)
    Drivers,        \* drivers, each with the one vehicle it owns
    Passengers,
    Areas,
    Tx,             \* slots for concurrent requests (bounds the model)
    Owner,          \* the passenger of a ride
    Seats,          \* seats a ride asks for
    Pickup,         \* pickup area of a ride
    SameWay,        \* pairs of rides with bearings within maxBearingDiffDeg
    Method,         \* payment method of a ride
    Price,          \* what a ride costs, solo and pooled
    Capacity,       \* seats of a driver's vehicle
    InitialBalance, \* wallet balance of a passenger
    CancelLimit,    \* DRIVER_CANCEL_LIMIT
    Null

Fare == {"solo", "pooled"}

PayStatus == {"PENDING", "PAID", "FAILED"}

ASSUME TxAssumption == Null \notin Tx /\ Null \notin Pools
                       /\ Null \notin Rides /\ Null \notin Drivers

ASSUME RidesAssumption ==
    /\ IsFiniteSet(Rides)
    /\ Owner \in [Rides -> Passengers]
    /\ Seats \in [Rides -> Nat \ {0}]
    /\ Pickup \in [Rides -> Areas]
    /\ SameWay \in SUBSET (Rides \X Rides)
    /\ Method \in [Rides -> {"CASH", "TESLAPAY"}]
    /\ Price \in [Rides -> [Fare -> Nat]]

ASSUME FleetAssumption ==
    /\ Capacity \in [Drivers -> Nat \ {0}]
    /\ InitialBalance \in [Passengers -> Nat]
    /\ CancelLimit \in Nat \ {0}

ASSUME UsersAssumption == Passengers \cap Drivers = {}

VARIABLES
    \* the committed rows of ride_requests, payments and wallets
    ride, final, pay, amount, wallet,
    \* the committed rows of pools, pool_members and vehicles
    pool, poolDriver, poolArea, seatsTaken, memb, fare, online,
    \* pools whose cancellation has left the rolling window
    aged,
    \* history: rides put back in the queue after their passenger cancelled them
    revived,
    \* the running transactions and the row locks they hold
    pc, req, poolLock, userLock

rideRows == <<ride, final, pay, amount, wallet>>
poolRows == <<pool, poolDriver, poolArea, seatsTaken, memb, fare>>
db       == <<rideRows, poolRows, online, aged, revived>>
vars     == <<db, pc, req, poolLock, userLock>>

Users == Passengers \cup Drivers

PC == {"idle", "insertRide", "loadMembers", "lockTrip", "cancelRide",
       "lockDriver", "createPool", "claimSeats", "addMember",
       "arrive", "start", "complete", "cancelPool", "goOffline"}

\* What a request remembers between its steps.
Request ==
    [ride   : Rides \cup {Null},
     pool   : Pools \cup {Null},
     driver : Drivers \cup {Null},
     seen   : RideStatus \cup {None},          \* ride status it has read
     held   : Pools \cup {Null},               \* lockedPoolId in cancelRide
     pass   : Nat,                             \* pass of the loop in cancelRide
     fares  : [Rides -> Fare \cup {None}]]     \* members and fares in its view

NoFares == [r \in Rides |-> None]

NoRequest == [ride |-> Null, pool |-> Null, driver |-> Null, seen |-> None,
              held |-> Null, pass |-> 0, fares |-> NoFares]

TypeOK ==
    /\ ride \in [Rides -> RideStatus \cup {None}]
    /\ final \in [Rides -> Fare \cup {None}]
    /\ pay \in [Rides -> PayStatus \cup {None}]
    /\ amount \in [Rides -> Fare \cup {None}]
    /\ wallet \in [Passengers -> Nat]
    /\ pool \in [Pools -> PoolStatus \cup {None}]
    /\ poolDriver \in [Pools -> Drivers \cup {Null}]
    /\ poolArea \in [Pools -> Areas \cup {Null}]
    /\ seatsTaken \in [Pools -> Nat]
    /\ memb \in [Pools -> [Rides -> {None, "aboard", "left"}]]
    /\ fare \in [Pools -> [Rides -> Fare \cup {None}]]
    /\ online \in [Drivers -> BOOLEAN]
    /\ aged \in SUBSET Pools
    /\ revived \in SUBSET Rides
    /\ pc \in [Tx -> PC]
    /\ req \in [Tx -> Request]
    /\ poolLock \in [Pools -> Tx \cup {Null}]
    /\ userLock \in [Users -> Tx \cup {Null}]

Init ==
    /\ ride = [r \in Rides |-> None]
    /\ final = [r \in Rides |-> None]
    /\ pay = [r \in Rides |-> None]
    /\ amount = [r \in Rides |-> None]
    /\ wallet = InitialBalance
    /\ pool = [p \in Pools |-> None]
    /\ poolDriver = [p \in Pools |-> Null]
    /\ poolArea = [p \in Pools |-> Null]
    /\ seatsTaken = [p \in Pools |-> 0]
    /\ memb = [p \in Pools |-> [r \in Rides |-> None]]
    /\ fare = [p \in Pools |-> NoFares]
    /\ online = [d \in Drivers |-> FALSE]
    /\ aged = {}
    /\ revived = {}
    /\ pc = [t \in Tx |-> "idle"]
    /\ req = [t \in Tx |-> NoRequest]
    /\ poolLock = [p \in Pools |-> Null]
    /\ userLock = [u \in Users |-> Null]

-----------------------------------------------------------------------------
(* What a read of the committed rows answers.                              *)

\* The active members of a pool: WHERE pool_id = p AND left_at IS NULL.
Aboard(p) == {r \in Rides : memb[p][r] = "aboard"}

\* The pools that carry a ride now.
TripsOf(r) == {p \in Pools : memb[p][r] = "aboard"}

\* The pool of the first active membership of a ride, or Null.
TripOf(r) == IF TripsOf(r) = {} THEN Null ELSE CHOOSE p \in TripsOf(r) : TRUE

\* The seats a set of rides needs, counted one by one.
SeatUnits(R) == UNION {{r} \X (1..Seats[r]) : r \in R}

SeatsOf(R) == Cardinality(SeatUnits(R))

HasActiveRide(u) == \E r \in Rides : Owner[r] = u /\ ride[r] \in ActiveRideStatus

HasActivePool(d) == \E p \in Pools : poolDriver[p] = d /\ pool[p] \in ActivePoolStatus

\* getCancellationStanding: this driver's cancellations inside the window.
RecentCancels(d) ==
    {p \in Pools : poolDriver[p] = d /\ pool[p] = "CANCELLED" /\ p \notin aged}

Suspended(d) == Cardinality(RecentCancels(d)) >= CancelLimit

WasDroppedBy(d, r) ==
    \E p \in Pools : poolDriver[p] = d /\ pool[p] = "CANCELLED" /\ memb[p][r] # None

\* loadRideForMatching: the request is open and no active membership blocks it.
OpenForMatching(r) == ride[r] = "REQUESTED" /\ TripsOf(r) = {}

\* evaluatePoolability: the pool is forming, starts in the same area, has the
\* seats, and goes the way of every member.
Poolable(p, r) ==
    /\ PoolAcceptsMembers(pool[p])
    /\ poolArea[p] = Pickup[r]
    /\ Seats[r] <= Capacity[poolDriver[p]] - seatsTaken[p]
    /\ \A m \in Aboard(p) : <<m, r>> \in SameWay

\* calculateFare with isPooled: the price of each of the rides R sharing a pool.
FareAmong(R) == IF Cardinality(R) > 1 THEN "pooled" ELSE "solo"

\* recalculatePoolFares over the members R, of which the transaction reads the
\* fares `seen`: a fare it reads as unchanged is not written.
Repriced(stored, seen, R) ==
    [r \in Rides |-> IF r \in R /\ seen[r] # FareAmong(R) THEN FareAmong(R)
                                                         ELSE stored[r]]

-----------------------------------------------------------------------------
(* Transactions: where a request is, and how it ends.                      *)

Goto(t, label, q) ==
    /\ pc' = [pc EXCEPT ![t] = label]
    /\ req' = [req EXCEPT ![t] = q]

LocksKept == UNCHANGED <<poolLock, userLock>>

\* Mutant of LockPoolRow: a SELECT without FOR UPDATE.
ReadPoolRow(t, p) == LocksKept

\* An exclusive row lock, granted when no other transaction holds it.
LockPoolRow(t, p) ==
    /\ poolLock[p] \in {Null, t}
    /\ poolLock' = [poolLock EXCEPT ![p] = t]
    /\ UNCHANGED userLock

\* Mutant of LockUserRow: a SELECT without FOR UPDATE.
ReadUserRow(t, u) == LocksKept

LockUserRow(t, u) ==
    /\ userLock[u] = Null
    /\ userLock' = [userLock EXCEPT ![u] = t]
    /\ UNCHANGED poolLock

\* The transaction of slot t ends, committed or rolled back: its locks are
\* released and the slot is free.
End(t) ==
    /\ Goto(t, "idle", NoRequest)
    /\ poolLock' = [p \in Pools |-> IF poolLock[p] = t THEN Null ELSE poolLock[p]]
    /\ userLock' = [u \in Users |-> IF userLock[u] = t THEN Null ELSE userLock[u]]

\* Mutant of RollBack: the error path forgets to end the transaction.
ForgetToRollBack(t) == Goto(t, "idle", NoRequest) /\ LocksKept /\ UNCHANGED db

RollBack(t) == End(t) /\ UNCHANGED db

\* A transaction can end without effect at any point: the 5 s timeout of
\* Prisma's interactive transactions, a lost connection, InnoDB's deadlock
\* detector, a crash of the API process.
Abort(t) == pc[t] # "idle" /\ RollBack(t)

-----------------------------------------------------------------------------
(* createRide: lock the passenger's row, count, insert.                    *)

CreateRide(t, r) ==
    /\ pc[t] = "idle"
    /\ ride[r] = None
    /\ Drivers = {} \/ \E d \in Drivers : Seats[r] <= Capacity[d]  \* assertSeatsFitFleet
    /\ LockUserRow(t, Owner[r])
    /\ ~HasActiveRide(Owner[r])
    /\ Goto(t, "insertRide", [NoRequest EXCEPT !.ride = r])
    /\ UNCHANGED db

InsertRide(t) ==
    LET r == req[t].ride
    IN  /\ pc[t] = "insertRide"
        /\ ride' = [ride EXCEPT ![r] = "REQUESTED"]
        /\ End(t)
        /\ UNCHANGED <<final, pay, amount, wallet, poolRows, online, aged, revived>>

-----------------------------------------------------------------------------
(* cancelRide: find the trip the ride is on, lock it, look again until the *)
(* ride is on the trip that is locked, then cancel conditionally.          *)

MaxPass == 3

CancelRide(t, r) ==
    /\ pc[t] = "idle"
    /\ ride[r] # None
    /\ Goto(t, "loadMembers",
            [NoRequest EXCEPT !.ride = r, !.seen = ride[r]])
    /\ LocksKept
    /\ UNCHANGED db

\* The loop ends with the ride on no trip, or on the one it holds; or it gives up.
Settled(q, target) == target \in {Null, q.held} \/ q.pass = MaxPass

\* The second SELECT of loadRide, and the tests of the loop and after it.  The
\* status is the one the first SELECT returned.
LoadMembers(t) ==
    LET q       == req[t]
        target  == TripOf(q.ride)
        settled == Settled(q, target)
        next    == [q EXCEPT !.pool = target]
    IN  /\ pc[t] = "loadMembers"
        /\ \/ ~settled /\ Goto(t, "lockTrip", next) /\ LocksKept
           \/ /\ settled
              /\ CanTransitionRide(q.seen, "CANCELLED", "PASSENGER")
              /\ Goto(t, "cancelRide", next)
              /\ LocksKept
           \/ /\ settled
              /\ ~CanTransitionRide(q.seen, "CANCELLED", "PASSENGER")
              /\ End(t)
        /\ UNCHANGED db

\* lockPool, and the first SELECT of the loadRide that follows it.
LockTrip(t) ==
    LET q == req[t]
    IN  /\ pc[t] = "lockTrip"
        /\ LockPoolRow(t, q.pool)
        /\ Goto(t, "loadMembers",
                [q EXCEPT !.held = q.pool, !.pool = Null, !.pass = @ + 1,
                          !.seen = ride[q.ride]])
        /\ UNCHANGED db

\* Mutant of SeatsAfterLeaving: the cancel forgets the pool's counter.
SeatsForgotten(p, r) == seatsTaken[p]

SeatsAfterLeaving(p, r) ==
    IF seatsTaken[p] >= Seats[r] THEN seatsTaken[p] - Seats[r] ELSE seatsTaken[p]

\* The member row leaves its pool, gives its seats back and the rest is
\* repriced.
LeavePool(p, r) ==
    /\ memb' = [memb EXCEPT ![p][r] = "left"]
    /\ seatsTaken' = [seatsTaken EXCEPT ![p] = SeatsAfterLeaving(p, r)]
    /\ fare' = [fare EXCEPT ![p] = Repriced(@, @, Aboard(p) \ {r})]
    /\ UNCHANGED <<pool, poolDriver, poolArea>>

\* Mutant of RideAsSeen: an UPDATE by id alone.
CancelBlindly(t) == TRUE

\* UPDATE ... WHERE id = ride.id AND status = ride.status.
RideAsSeen(t) == ride[req[t].ride] = req[t].seen

CommitCancelRide(t) ==
    LET q == req[t]
    IN  /\ pc[t] = "cancelRide"
        /\ RideAsSeen(t)
        /\ ride' = [ride EXCEPT ![q.ride] = "CANCELLED"]
        /\ \/ q.pool = Null /\ UNCHANGED poolRows
           \/ /\ q.pool # Null
              /\ poolLock[q.pool] \in {Null, t}
              /\ LeavePool(q.pool, q.ride)
        /\ End(t)
        /\ UNCHANGED <<final, pay, amount, wallet, online, aged, revived>>

RefuseCancelRide(t) ==
    /\ pc[t] = "cancelRide"
    /\ ~RideAsSeen(t)
    /\ RollBack(t)

-----------------------------------------------------------------------------
(* tryClaimRide: UPDATE ... WHERE status = 'REQUESTED'.                    *)

\* Mutant of RideUnclaimed: an UPDATE by id alone, after the earlier read.
ClaimedBlindly(r) == TRUE

RideUnclaimed(r) == ride[r] = "REQUESTED"

-----------------------------------------------------------------------------
(* createPool, at REPEATABLE READ.  Its first statement reads the vehicle, *)
(* so the counts it makes after locking the driver's row, the request, the *)
(* cancellations and the memberships are all read from the state of that   *)
(* first step: a request they refuse has no effect and is not modelled.    *)
(* Only the two conditional UPDATEs see what was committed since.          *)

BeginCreatePool(t, d, r) ==
    /\ pc[t] = "idle"
    /\ online[d]
    /\ ~HasActivePool(d)
    /\ ~Suspended(d)
    /\ OpenForMatching(r)
    /\ ~WasDroppedBy(d, r)
    /\ Seats[r] <= Capacity[d]
    /\ Goto(t, "lockDriver", [NoRequest EXCEPT !.ride = r, !.driver = d])
    /\ LocksKept
    /\ UNCHANGED db

LockDriver(t) ==
    /\ pc[t] = "lockDriver"
    /\ LockUserRow(t, req[t].driver)
    /\ Goto(t, "createPool", req[t])
    /\ UNCHANGED db

\* The insert of the pool, both claims, the membership and its price.
CommitCreatePool(t) ==
    LET d == req[t].driver
        r == req[t].ride
    IN  /\ pc[t] = "createPool"
        /\ RideUnclaimed(r)
        /\ ride' = [ride EXCEPT ![r] = "MATCHED"]
        /\ \E p \in Pools :
              /\ pool[p] = None
              /\ pool' = [pool EXCEPT ![p] = "FORMING"]
              /\ poolDriver' = [poolDriver EXCEPT ![p] = d]
              /\ poolArea' = [poolArea EXCEPT ![p] = Pickup[r]]
              /\ seatsTaken' = [seatsTaken EXCEPT ![p] = Seats[r]]
              /\ memb' = [memb EXCEPT ![p][r] = "aboard"]
              /\ fare' = [fare EXCEPT ![p] = Repriced(@, NoFares, {r})]
        /\ End(t)
        /\ UNCHANGED <<final, pay, amount, wallet, online, aged, revived>>

\* Another driver was first; or the model has no pool row left to insert.
RefuseCreatePool(t) ==
    /\ pc[t] = "createPool"
    /\ ~RideUnclaimed(req[t].ride) \/ \A p \in Pools : pool[p] # None
    /\ RollBack(t)

-----------------------------------------------------------------------------
(* addMemberToPool, at REPEATABLE READ.  The preflight reads, the re-check *)
(* of the route after the seat claim and the repricing all answer from the *)
(* state of the first step; the seat claim and the ride claim do not.      *)

FaresOf(p) == [r \in Rides |-> IF r \in Aboard(p) THEN fare[p][r] ELSE None]

BeginAddMember(t, p, r) ==
    /\ pc[t] = "idle"
    /\ pool[p] # None
    /\ online[poolDriver[p]]
    /\ OpenForMatching(r)
    /\ ~WasDroppedBy(poolDriver[p], r)
    /\ Poolable(p, r)
    /\ Goto(t, "claimSeats",
            [NoRequest EXCEPT !.ride = r, !.pool = p, !.fares = FaresOf(p)])
    /\ LocksKept
    /\ UNCHANGED db

\* Mutants of SeatsFit: the UPDATE without one of its two conditions.
RoomOnly(p, r) == seatsTaken[p] + Seats[r] <= Capacity[poolDriver[p]]
FormingOnly(p, r) == PoolAcceptsMembers(pool[p])

\* tryClaimSeats: UPDATE ... WHERE status = 'FORMING' AND there is room.
SeatsFit(p, r) ==
    /\ PoolAcceptsMembers(pool[p])
    /\ seatsTaken[p] + Seats[r] <= Capacity[poolDriver[p]]

ClaimSeats(t) ==
    LET p == req[t].pool
    IN  /\ pc[t] = "claimSeats"
        /\ LockPoolRow(t, p)
        /\ SeatsFit(p, req[t].ride)
        /\ Goto(t, "addMember", req[t])
        /\ UNCHANGED db

RefuseClaimSeats(t) ==
    /\ pc[t] = "claimSeats"
    /\ poolLock[req[t].pool] = Null
    /\ ~SeatsFit(req[t].pool, req[t].ride)
    /\ RollBack(t)

\* The members the transaction sees are those of its view and the new one.
CommitAddMember(t) ==
    LET p       == req[t].pool
        r       == req[t].ride
        seen    == req[t].fares
        members == {m \in Rides : seen[m] # None} \cup {r}
    IN  /\ pc[t] = "addMember"
        /\ RideUnclaimed(r)
        /\ memb[p][r] = None                              \* UNIQUE (pool, ride)
        /\ ride' = [ride EXCEPT ![r] = "MATCHED"]
        /\ seatsTaken' = [seatsTaken EXCEPT ![p] = @ + Seats[r]]
        /\ memb' = [memb EXCEPT ![p][r] = "aboard"]
        /\ fare' = [fare EXCEPT ![p] = Repriced(@, seen, members)]
        /\ End(t)
        /\ UNCHANGED <<final, pay, amount, wallet, pool, poolDriver, poolArea,
                       online, aged, revived>>

RefuseAddMember(t) ==
    /\ pc[t] = "addMember"
    /\ ~RideUnclaimed(req[t].ride) \/ memb[req[t].pool][req[t].ride] # None
    /\ RollBack(t)

-----------------------------------------------------------------------------
(* The driver's controls.  loadOwnedPool locks the pool row before it      *)
(* reads, so the membership read is the one acted on; the rides' statuses  *)
(* are read in that step and written conditionally in the last.            *)

LockOwnedPool(t, p, label) ==
    /\ pc[t] = "idle"
    /\ LockPoolRow(t, p)
    /\ Goto(t, label, [NoRequest EXCEPT !.pool = p])
    /\ UNCHANGED db

MayAdvance(p, to) ==
    /\ pool[p] # None
    /\ CanTransitionPool(pool[p], to, "DRIVER")
    /\ \A m \in Aboard(p) : CanTransitionRide(ride[m], to, "DRIVER")

BeginArrive(t, p) ==
    MayAdvance(p, "DRIVER_ARRIVED") /\ LockOwnedPool(t, p, "arrive")

BeginStart(t, p) ==
    /\ MayAdvance(p, "STARTED")
    /\ Aboard(p) # {}                                     \* POOL_EMPTY
    /\ LockOwnedPool(t, p, "start")

BeginComplete(t, p) ==
    MayAdvance(p, "COMPLETED") /\ LockOwnedPool(t, p, "complete")

BeginCancelPool(t, p) ==
    /\ pool[p] # None
    /\ CanTransitionPool(pool[p], "CANCELLED", "DRIVER")
    /\ \A m \in Aboard(p) : CanRequeue(ride[m])
    /\ LockOwnedPool(t, p, "cancelPool")

\* advanceMembers: every member's conditional UPDATE finds the status read
\* before.  Each status a driver moves members to has one status it can be
\* reached from, so "still the status read" is "can still make this move".
MembersUnmoved(p, to) == \A m \in Aboard(p) : CanTransitionRide(ride[m], to, "DRIVER")

Advance(p, to) ==
    /\ MembersUnmoved(p, to)
    /\ pool' = [pool EXCEPT ![p] = to]
    /\ ride' = [r \in Rides |-> IF r \in Aboard(p) THEN to ELSE ride[r]]
    /\ UNCHANGED <<poolDriver, poolArea, seatsTaken, memb, fare, online, aged,
                   revived>>

MarkArrived(t) ==
    /\ pc[t] = "arrive"
    /\ Advance(req[t].pool, "DRIVER_ARRIVED")
    /\ End(t)
    /\ UNCHANGED <<final, pay, amount, wallet>>

\* lockPoolFares and createPendingPayments: the member fares become final and
\* each is copied into a pending payment.
StartTrip(t) ==
    LET p == req[t].pool
    IN  /\ pc[t] = "start"
        /\ Advance(p, "STARTED")
        /\ final' = [r \in Rides |-> IF r \in Aboard(p) THEN fare[p][r] ELSE final[r]]
        /\ amount' = [r \in Rides |-> IF r \in Aboard(p) THEN fare[p][r] ELSE amount[r]]
        /\ pay' = [r \in Rides |-> IF r \in Aboard(p) THEN "PENDING" ELSE pay[r]]
        /\ End(t)
        /\ UNCHANGED wallet

-----------------------------------------------------------------------------
(* settlePoolPayments: cash is recorded as collected, a wallet is debited  *)
(* if it holds the amount, and a shortfall fails that payment only.        *)

Due(p) == {r \in Aboard(p) : pay[r] = "PENDING"}

Charge(r) == Price[r][amount[r]]

\* What the payments of R take from the wallet of u, counted coin by coin.
Coins(R, u) == UNION {{r} \X (1..Charge(r)) : r \in {m \in R : Owner[m] = u}}

Spent(R, u) == Cardinality(Coins(R, u))

Collected(p) == {r \in Due(p) : Method[r] = "CASH"}

Wallets(p) == {r \in Due(p) : Method[r] = "TESLAPAY"}

\* Mutant of Debits: the debit without the balance in its WHERE clause.
DebitAll(p) == {Wallets(p)}

\* The sets of payments that the debits, one after the other in the order the
\* payments were found in, can pay: whichever is left out found too little.
Debits(p) ==
    {D \in SUBSET Wallets(p) :
        /\ \A u \in Passengers : Spent(D, u) <= wallet[u]
        /\ \A r \in Wallets(p) \ D : wallet[Owner[r]] - Spent(D, Owner[r]) < Charge(r)}

Receipts(p, paid) ==
    [r \in Rides |-> IF r \in paid THEN "PAID" ELSE IF r \in Due(p) THEN "FAILED" ELSE pay[r]]

\* Mutant of SettlePayments: a payment that fails empties the wallet all the
\* same.
SettleRegardless(p) ==
    \E D \in Debits(p) :
        /\ pay' = Receipts(p, D \cup Collected(p))
        /\ wallet' = [u \in Passengers |->
                         IF \E r \in Wallets(p) : Owner[r] = u THEN 0 ELSE wallet[u]]

SettlePayments(p) ==
    \E D \in Debits(p) :
        /\ pay' = Receipts(p, D \cup Collected(p))
        /\ wallet' = [u \in Passengers |-> wallet[u] - Spent(D, u)]

CompleteTrip(t) ==
    LET p == req[t].pool
    IN  /\ pc[t] = "complete"
        /\ Advance(p, "COMPLETED")
        /\ SettlePayments(p)
        /\ End(t)
        /\ UNCHANGED <<final, amount>>

RefuseAdvance(t) ==
    /\ \/ pc[t] = "arrive" /\ ~MembersUnmoved(req[t].pool, "DRIVER_ARRIVED")
       \/ pc[t] = "start" /\ ~MembersUnmoved(req[t].pool, "STARTED")
       \/ pc[t] = "complete" /\ ~MembersUnmoved(req[t].pool, "COMPLETED")
    /\ RollBack(t)

\* Members go back to the queue; this UPDATE of the rides is unconditional.
CancelPool(t) ==
    LET p == req[t].pool
    IN  /\ pc[t] = "cancelPool"
        /\ pool' = [pool EXCEPT ![p] = "CANCELLED"]
        /\ seatsTaken' = [seatsTaken EXCEPT ![p] = 0]
        /\ memb' = [memb EXCEPT ![p] =
                       [r \in Rides |-> IF @[r] = "aboard" THEN "left" ELSE @[r]]]
        /\ ride' = [r \in Rides |-> IF r \in Aboard(p) THEN "REQUESTED" ELSE ride[r]]
        /\ final' = [r \in Rides |-> IF r \in Aboard(p) THEN None ELSE final[r]]
        /\ revived' = revived \cup {r \in Aboard(p) : ride[r] = "CANCELLED"}
        /\ End(t)
        /\ UNCHANGED <<pay, amount, wallet, poolDriver, poolArea, fare, online, aged>>

\* A cancellation leaves DRIVER_CANCEL_WINDOW_HOURS.
AgeOut(p) ==
    /\ pool[p] = "CANCELLED"
    /\ p \notin aged
    /\ aged' = aged \cup {p}
    /\ UNCHANGED <<rideRows, poolRows, online, revived, pc, req, poolLock, userLock>>

-----------------------------------------------------------------------------
(* setOnlineStatus: no transaction; going offline counts the driver's      *)
(* pools in one statement and updates the vehicle in another.              *)

GoOnline(d) ==
    /\ online' = [online EXCEPT ![d] = TRUE]
    /\ UNCHANGED <<rideRows, poolRows, aged, revived, pc, req, poolLock, userLock>>

CheckOffline(t, d) ==
    /\ pc[t] = "idle"
    /\ ~HasActivePool(d)
    /\ Goto(t, "goOffline", [NoRequest EXCEPT !.driver = d])
    /\ LocksKept
    /\ UNCHANGED db

CommitOffline(t) ==
    /\ pc[t] = "goOffline"
    /\ online' = [online EXCEPT ![req[t].driver] = FALSE]
    /\ End(t)
    /\ UNCHANGED <<rideRows, poolRows, aged, revived>>

-----------------------------------------------------------------------------
(* The specification.                                                      *)

\* What users ask for, and the passing of time.
Ask(t) ==
    \/ \E r \in Rides : CreateRide(t, r) \/ CancelRide(t, r)
    \/ \E d \in Drivers, r \in Rides : BeginCreatePool(t, d, r)
    \/ \E p \in Pools, r \in Rides : BeginAddMember(t, p, r)
    \/ \E p \in Pools : \/ BeginArrive(t, p) \/ BeginStart(t, p)
                        \/ BeginComplete(t, p) \/ BeginCancelPool(t, p)
    \/ \E d \in Drivers : CheckOffline(t, d)

\* The next statement of a running request that waits for no lock.
Proceed(t) ==
    \/ InsertRide(t)
    \/ LoadMembers(t) \/ RefuseCancelRide(t)
    \/ CommitCreatePool(t) \/ RefuseCreatePool(t)
    \/ CommitAddMember(t) \/ RefuseAddMember(t)
    \/ MarkArrived(t) \/ StartTrip(t) \/ CompleteTrip(t) \/ RefuseAdvance(t)
    \/ CancelPool(t)
    \/ CommitOffline(t)

\* The statements that may have to wait for a pool or user row lock.
Acquire(t) ==
    \/ LockTrip(t) \/ CommitCancelRide(t)
    \/ LockDriver(t)
    \/ ClaimSeats(t) \/ RefuseClaimSeats(t)

Next ==
    \/ \E t \in Tx : Ask(t) \/ Proceed(t) \/ Acquire(t) \/ Abort(t)
    \/ \E d \in Drivers : GoOnline(d)
    \/ \E p \in Pools : AgeOut(p)

Spec == Init /\ [][Next]_vars

\* A request that has begun is driven on by its handler, and InnoDB grants a
\* row lock to the waiters in turn.  Nothing makes users ask or time pass.
Fairness == \A t \in Tx : WF_vars(Proceed(t)) /\ SF_vars(Acquire(t))

FairSpec == Spec /\ Fairness

-----------------------------------------------------------------------------
(* Safety.                                                                 *)

\* The reconciliation of the schema: a pool's seats_taken is the sum of the
\* seats of its active members, though joins, cancels and the driver's cancel
\* each maintain it by their own increment.
SeatsReconcile == \A p \in Pools : seatsTaken[p] = SeatsOf(Aboard(p))

\* No seat is sold twice: whoever joins at the same moment, the members of a
\* pool fit the vehicle.
NoOversell ==
    \A p \in Pools : pool[p] # None => SeatsOf(Aboard(p)) <= Capacity[poolDriver[p]]

\* The claim REQUESTED -> MATCHED keeps a ride in one pool, through requeues,
\* two drivers accepting at once and memberships that stay as history.
OneTrip == \A r \in Rides : \A p, q \in TripsOf(r) : p = q

\* The status a member's ride has while its pool has the given status.
StatusAboard(status) == IF status = "FORMING" THEN "MATCHED" ELSE status

\* The two state machines stay in step but for one thing: a cancel that lost
\* sight of its trip leaves a cancelled ride aboard (rides.service.ts:359), and
\* then that trip never departs with it.  Every other member's ride is where its
\* pool is, a ride in no pool is waiting or cancelled, and a cancelled pool is
\* empty.
InStepUnlessLeftBehind ==
    \A r \in Rides :
        /\ \A p \in TripsOf(r) :
              \/ ride[r] = StatusAboard(pool[p]) /\ pool[p] # "CANCELLED"
              \/ ride[r] = "CANCELLED" /\ pool[p] \in {"FORMING", "DRIVER_ARRIVED"}
        /\ TripsOf(r) = {} => ride[r] \in {None, "REQUESTED", "CANCELLED"}

Rivals(r, s) ==
    r # s /\ Owner[r] = Owner[s] /\ {ride[r], ride[s]} \subseteq ActiveRideStatus

\* However often a passenger asks at once, they get a second active ride only if
\* one of the two is a ride they had cancelled and a driver's cancel has put back
\* in the queue (rides.service.ts:124, pool.lifecycle.ts:270).
OneActiveRideUnlessRevived ==
    \A r, s \in Rides : Rivals(r, s) => r \in revived \/ s \in revived

\* Status, fare and charge tell one story: a ride is charged if and only if
\* its trip started, the receipt is for the locked fare, it is settled when
\* and only when the trip is complete, and a cancelled ride owes nothing.
OneStory ==
    \A r \in Rides :
        /\ pay[r] # None <=> ride[r] \in {"STARTED", "COMPLETED"}
        /\ final[r] # None <=> ride[r] \in {"STARTED", "COMPLETED"}
        /\ amount[r] = final[r]
        /\ ride[r] = "STARTED" => pay[r] = "PENDING"
        /\ ride[r] = "COMPLETED" => pay[r] \in {"PAID", "FAILED"}

\* Money is conserved, coin by coin: what a wallet has lost is what the receipts
\* of its paid trips say, at the fares that the rides were locked at (the DEBIT
\* rows of wallet_transactions).
LedgerBalances ==
    \A u \in Passengers :
        LET receipts == {r \in Rides : Owner[r] = u /\ Method[r] = "TESLAPAY" /\ pay[r] = "PAID"}
            coins    == UNION {{r} \X (1..Price[r][final[r]]) : r \in receipts}
        IN  wallet[u] + Cardinality(coins) = InitialBalance[u]

\* A cancel that holds one trip while it waits for another holds a trip that
\* is over, so cancels that queue for each other's trips cannot form a cycle.
CancelHoldsDeadTrip ==
    \A t \in Tx : \A p \in Pools :
        pc[t] = "lockTrip" /\ poolLock[p] = t => pool[p] = "CANCELLED"

\* A cancel gives up its search (rides.service.ts:385) for a ride that changes
\* trips faster than it can lock them, and for no other: by then the ride has
\* been on more trips than the loop has passes.
GivesUpOnRestlessRides ==
    \A t \in Tx :
        pc[t] = "cancelRide" /\ req[t].pool \notin {Null, req[t].held} =>
            Cardinality({p \in Pools : memb[p][req[t].ride] # None}) > MaxPass

\* The request that holds the row which the next statement of t needs, if any
\* does: the pool's for a cancel or a join, the driver's user row for an accept.
WaitsFor(t) ==
    IF pc[t] \in {"lockTrip", "cancelRide", "claimSeats"} /\ req[t].pool # Null
    THEN poolLock[req[t].pool]
    ELSE IF pc[t] = "lockDriver" THEN userLock[req[t].driver] ELSE Null

\* No requests ever wait for each other in a circle, though a cancel keeps the
\* rows of trips that its ride has left while it waits for the next
\* (rides.service.ts:388, locks.ts:21): the rows of pools and users that requests
\* lock, and claims update, never make InnoDB pick a victim.  The locks that the
\* statements of one commit take on other rows are not in the model.
NobodyWaitsInACircle ==
    \A S \in SUBSET Tx : S # {} => \E t \in S : WaitsFor(t) \notin S \ {t}

\* The change of a ride's status is one of the lifecycle table.
LegalStep(r) ==
    IF ride[r] = None THEN ride'[r] = "REQUESTED"
    ELSE \E a \in ActorRole : CanTransitionRide(ride[r], ride'[r], a)

\* Every change of a ride's status is a transition of the state machine, except
\* that the driver's cancel, which writes without a condition, puts a cancelled
\* ride that is still aboard back in the queue (pool.lifecycle.ts:270).  Nothing
\* else ever revives a ride, and nothing revives one that was completed.
LegalUnlessRevived ==
    [][\A r \in Rides : ride'[r] # ride[r] =>
          \/ LegalStep(r)
          \/ /\ ride[r] = "CANCELLED" /\ ride'[r] = "REQUESTED"
             /\ \E p \in TripsOf(r) : pool'[p] = "CANCELLED"]_vars

\* Once a trip has started the fare of a ride never moves again.
FareIsFinal == [][\A r \in Rides : final[r] # None => final'[r] = final[r]]_vars

-----------------------------------------------------------------------------
(* Refinement: a ride is on the pool it has an active membership in.       *)

Promise == INSTANCE TripBoard
    WITH Trips <- Pools, Nowhere <- Null, journey <- ride, board <- pool,
         at <- poolDriver, trip <- [r \in Rides |-> TripOf(r)], revived <- revived

\* The transactions implement the atomic promise: every commit is one step of
\* the board, everything else is invisible.
ImplementsPromise == Promise!Spec

-----------------------------------------------------------------------------
(* Liveness.                                                               *)

\* Every request gets an answer: no cycle of row locks, no endless loop.
EveryRequestEnds == \A t \in Tx : pc[t] # "idle" ~> pc[t] = "idle"

-----------------------------------------------------------------------------
(* What the documents promise and the code does not keep.                  *)

\* "One active pool per driver".
OnePoolPerDriver ==
    \A p, q \in Pools :
        /\ poolDriver[p] # Null /\ poolDriver[p] = poolDriver[q]
        /\ {pool[p], pool[q]} \subseteq ActivePoolStatus
        => p = q

\* "One active ride per passenger".
OneActiveRide == \A r, s \in Rides : ~Rivals(r, s)

=============================================================================
