-------------------------- MODULE TripBoard_proofs --------------------------
(***************************************************************************)
(* TeslaPool implements TripBoard: every commit of the concurrent          *)
(* transactions is one atomic step of the board, and every other step is   *)
(* invisible.  The commit of a cancel is the board's Leave, or its         *)
(* LeaveBehind when the ride is still aboard a pool that the cancel did    *)
(* not see.                                                                *)
(***************************************************************************)
EXTENDS InStep_proofs

-----------------------------------------------------------------------------
(* What a driver's request knows of the pool whose row it holds.           *)

DriverKnows(t) ==
    /\ pc[t] = "arrive" => pool[req[t].pool] = "FORMING"
    /\ pc[t] = "start" => /\ pool[req[t].pool] = "DRIVER_ARRIVED"
                          /\ \E m \in Rides : memb[req[t].pool][m] = "aboard"
    /\ pc[t] = "complete" => pool[req[t].pool] = "STARTED"
    /\ pc[t] = "cancelPool" => pool[req[t].pool] \in {"FORMING", "DRIVER_ARRIVED"}

DriverLabel == {"arrive", "start", "complete", "cancelPool"}

\* While the row is held nobody else moves the pool or its members.
LEMMA OthersDrive ==
    ASSUME IInv, NEW t \in Tx, KeepsOthers(t), KeepsRows(t), NEW s \in Tx \ {t},
           DriverKnows(s)
    PROVE  DriverKnows(s)'
<1> USE TxAssumption
<1>1. pc'[s] = pc[s] /\ req'[s] = req[s]
    BY DEF KeepsOthers
<1>2. ASSUME pc[s] \in DriverLabel
      PROVE  pool'[req[s].pool] = pool[req[s].pool] /\ memb'[req[s].pool] = memb[req[s].pool]
  <2>1. /\ req[s].pool \in Pools /\ poolLock[req[s].pool] = s
        /\ pool[req[s].pool] \in ActivePoolStatus
    BY <1>2, DriverHolds DEF DriverLabel
  <2>2. pool[req[s].pool] # None
    BY <2>1 DEF ActivePoolStatus, PoolStatus, None
  <2> QED BY <2>1, <2>2 DEF KeepsRows
<1> QED BY <1>1, <1>2 DEF DriverKnows, DriverLabel

\* A request at any other label knows nothing of that kind.
LEMMA ElsewhereKnowsNothing ==
    ASSUME TypeOK, NEW t \in Tx, NEW label \in PC \ DriverLabel, NEW q, Goto(t, label, q)
    PROVE  DriverKnows(t)'
<1>1. pc'[t] = label
    BY DEF Goto, TypeOK
<1> QED BY <1>1 DEF DriverKnows, DriverLabel

\* The driver's controls look at the pool when they lock its row.
LEMMA AskDrives ==
    ASSUME IInv, NEW t \in Tx, Ask(t)
    PROVE  DriverKnows(t)'
<1>1. TypeOK
    BY DEF IInv
<1>2. ASSUME NEW p \in Pools, NEW label \in DriverLabel, LockOwnedPool(t, p, label)
      PROVE  pc'[t] = label /\ req'[t].pool = p /\ pool' = pool /\ memb' = memb
  <2>1. pc'[t] = label /\ req'[t].pool = p
    BY <1>1, <1>2, LockedPoolIsQuiet DEF DriverLabel, PC
  <2> QED BY <1>2, <2>1 DEF LockOwnedPool, db, poolRows
<1>3. ASSUME NEW p \in Pools, NEW to, CanTransitionPool(pool[p], to, "DRIVER"), pool[p] # None
      PROVE  /\ to = "DRIVER_ARRIVED" => pool[p] = "FORMING"
             /\ to = "STARTED" => pool[p] = "DRIVER_ARRIVED"
             /\ to = "COMPLETED" => pool[p] = "STARTED"
             /\ to = "CANCELLED" => pool[p] \in {"FORMING", "DRIVER_ARRIVED"}
  <2>1. pool[p] \in PoolStatus
    BY <1>1, <1>3 DEF TypeOK
  <2> QED BY <1>3, <2>1, PoolRules DEF PoolStatus
<1>4. ASSUME NEW p \in Pools, BeginArrive(t, p) PROVE DriverKnows(t)'
  <2>1. pc'[t] = "arrive" /\ req'[t].pool = p /\ pool' = pool
    BY <1>2, <1>4 DEF BeginArrive, DriverLabel
  <2> QED BY <1>3, <1>4, <2>1 DEF BeginArrive, MayAdvance, DriverKnows
<1>5. ASSUME NEW p \in Pools, BeginStart(t, p) PROVE DriverKnows(t)'
  <2>1. pc'[t] = "start" /\ req'[t].pool = p /\ pool' = pool /\ memb' = memb
    BY <1>2, <1>5 DEF BeginStart, DriverLabel
  <2>2. \E m \in Rides : memb[p][m] = "aboard"
    BY <1>5 DEF BeginStart, Aboard
  <2> QED BY <1>3, <1>5, <2>1, <2>2 DEF BeginStart, MayAdvance, DriverKnows
<1>6. ASSUME NEW p \in Pools, BeginComplete(t, p) PROVE DriverKnows(t)'
  <2>1. pc'[t] = "complete" /\ req'[t].pool = p /\ pool' = pool
    BY <1>2, <1>6 DEF BeginComplete, DriverLabel
  <2> QED BY <1>3, <1>6, <2>1 DEF BeginComplete, MayAdvance, DriverKnows
<1>7. ASSUME NEW p \in Pools, BeginCancelPool(t, p) PROVE DriverKnows(t)'
  <2>1. pc'[t] = "cancelPool" /\ req'[t].pool = p /\ pool' = pool
    BY <1>2, <1>7 DEF BeginCancelPool, DriverLabel
  <2> QED BY <1>3, <1>7, <2>1 DEF BeginCancelPool, DriverKnows
<1>8. ASSUME NEW r \in Rides, CreateRide(t, r) \/ CancelRide(t, r) PROVE DriverKnows(t)'
    BY <1>1, <1>8, ElsewhereKnowsNothing DEF CreateRide, CancelRide, PC, DriverLabel
<1>9. ASSUME NEW d \in Drivers, NEW r \in Rides, BeginCreatePool(t, d, r)
      PROVE  DriverKnows(t)'
    BY <1>1, <1>9, ElsewhereKnowsNothing DEF BeginCreatePool, PC, DriverLabel
<1>10. ASSUME NEW p \in Pools, NEW r \in Rides, BeginAddMember(t, p, r)
       PROVE  DriverKnows(t)'
    BY <1>1, <1>10, ElsewhereKnowsNothing DEF BeginAddMember, PC, DriverLabel
<1>11. ASSUME NEW d \in Drivers, CheckOffline(t, d) PROVE DriverKnows(t)'
    BY <1>1, <1>11, ElsewhereKnowsNothing DEF CheckOffline, PC, DriverLabel
<1> QED BY <1>4, <1>5, <1>6, <1>7, <1>8, <1>9, <1>10, <1>11 DEF Ask

LEMMA WaitDrives ==
    ASSUME TypeOK, NEW t \in Tx, WaitOrRefuse(t)
    PROVE  DriverKnows(t)'
<1>1. CASE LoadMembers(t)
    BY <1>1, ElsewhereKnowsNothing DEF LoadMembers, End, PC, DriverLabel
<1>2. CASE LockTrip(t)
    BY <1>2, ElsewhereKnowsNothing DEF LockTrip, PC, DriverLabel
<1>3. CASE LockDriver(t)
    BY <1>3, ElsewhereKnowsNothing DEF LockDriver, PC, DriverLabel
<1>4. CASE ClaimSeats(t)
    BY <1>4, ElsewhereKnowsNothing DEF ClaimSeats, PC, DriverLabel
<1>5. CASE RollBack(t)
    BY <1>5, ElsewhereKnowsNothing DEF RollBack, End, PC, DriverLabel
<1> QED
    BY <1>1, <1>2, <1>3, <1>4, <1>5
       DEF WaitOrRefuse, RefuseCancelRide, RefuseCreatePool, RefuseClaimSeats,
           RefuseAddMember, RefuseAdvance, Abort

-----------------------------------------------------------------------------
(* The refinement mapping: the trip of a ride.                             *)

\* A ride is on the pool it has an active membership in, before and after a step.
LEMMA OnBoard ==
    ASSUME NEW r \in Rides
    PROVE  /\ \A p \in Pools : NoTwoTrips /\ memb[p][r] = "aboard" => TripOf(r) = p
           /\ (\A p \in Pools : memb[p][r] # "aboard") => TripOf(r) = Null
           /\ \A p \in Pools : NoTwoTrips' /\ memb'[p][r] = "aboard" => TripOf(r)' = p
           /\ (\A p \in Pools : memb'[p][r] # "aboard") => TripOf(r)' = Null
<1>1. ASSUME NEW S, NEW p, S = {p} PROVE S # {} /\ (CHOOSE q \in S : TRUE) = p
    BY <1>1
<1>2. ASSUME NEW p \in Pools, NoTwoTrips, memb[p][r] = "aboard" PROVE TripOf(r) = p
  <2>1. TripsOf(r) = {p}
    BY <1>2 DEF TripsOf, NoTwoTrips
  <2> QED BY <1>1, <2>1 DEF TripOf
<1>3. ASSUME NEW p \in Pools, NoTwoTrips', memb'[p][r] = "aboard" PROVE TripOf(r)' = p
  <2>1. TripsOf(r)' = {p}
    BY <1>3 DEF TripsOf, NoTwoTrips
  <2> QED BY <1>1, <2>1 DEF TripOf
<1>4. /\ (\A p \in Pools : memb[p][r] # "aboard") => TripsOf(r) = {}
      /\ (\A p \in Pools : memb'[p][r] # "aboard") => TripsOf(r)' = {}
    BY DEF TripsOf
<1> QED BY <1>2, <1>3, <1>4 DEF TripOf

\* A ride whose memberships do not change stays where it is.
LEMMA StaysOnBoard ==
    ASSUME NEW r \in Rides,
           \A p \in Pools : memb'[p][r] = "aboard" <=> memb[p][r] = "aboard"
    PROVE  TripOf(r)' = TripOf(r)
<1>1. TripsOf(r)' = TripsOf(r)
    BY DEF TripsOf
<1> QED BY <1>1 DEF TripOf

\* The people on a trip are its active members, and they need the seats that the
\* pool counts.
LEMMA OnAndLoad ==
    ASSUME RowsOK, NEW p \in Pools
    PROVE  /\ Promise!On(p) = Aboard(p)
           /\ \A R : Promise!Load(R) = SeatsOf(R)
<1> USE TxAssumption
<1>1. ASSUME NEW r \in Rides PROVE TripOf(r) = p <=> memb[p][r] = "aboard"
  <2>1. \A q \in Pools : memb[q][r] = "aboard" => TripOf(r) = q
    BY OnBoard DEF RowsOK
  <2>2. (\A q \in Pools : memb[q][r] # "aboard") => TripOf(r) = Null
    BY OnBoard
  <2> QED BY <2>1, <2>2
<1>2. Promise!On(p) = {r \in Rides : TripOf(r) = p}
    BY DEF Promise!On
<1>3. \A R : Promise!Load(R) = SeatsOf(R)
  <2>1. \A S : Promise!Cardinality(S) = Cardinality(S)
    BY DEF Promise!Cardinality, Cardinality
  <2> QED BY <2>1 DEF Promise!Load, SeatsOf, SeatUnits
<1> QED BY <1>1, <1>2, <1>3 DEF Aboard

\* A step that changes no ride, no pool and no membership is invisible.
LEMMA Invisible ==
    ASSUME UNCHANGED <<ride, pool, poolDriver, memb, revived>>
    PROVE  UNCHANGED Promise!vars
<1>1. \A r \in Rides : TripOf(r)' = TripOf(r)
    BY StaysOnBoard
<1> QED BY <1>1 DEF Promise!vars

-----------------------------------------------------------------------------
(* The commits, each one step of the board.                                *)

LEMMA InsertRideRequests ==
    ASSUME StepInv, NEW t \in Tx, InsertRide(t)
    PROVE  Promise!Next
<1> DEFINE r == req[t].ride
<1>1. IInv /\ InsertAlone(t)
    BY DEF StepInv
<1>2. /\ r \in Rides /\ ride[r] = None
      /\ \A s \in Rides : Owner[s] = Owner[r] /\ ride[s] \in ActiveRideStatus => s \in revived
    BY <1>1 DEF IInv, RequestOK, ArgumentsOK, InsertOK, InsertAlone, InsertRide, RideLabels
<1>3. /\ ride' = [ride EXCEPT ![r] = "REQUESTED"]
      /\ UNCHANGED <<pool, poolDriver, memb, revived>>
    BY DEF InsertRide, poolRows
<1> HIDE DEF r
<1>4. \A s \in Rides : TripOf(s)' = TripOf(s)
    BY <1>3, StaysOnBoard
<1>5. Promise!UnderWay = ActiveRideStatus /\ None = "none"
    BY DEF Promise!UnderWay, ActiveRideStatus, RideStatus, TerminalRideStatus, None
<1>6. \A s \in Rides \ revived : Owner[s] = Owner[r] => ride[s] \notin Promise!UnderWay
    BY <1>2, <1>5
<1>7. Promise!Request(r)
    BY <1>2, <1>3, <1>4, <1>5, <1>6 DEF Promise!Request
<1> QED BY <1>2, <1>7 DEF Promise!Next

LEMMA CommitCancelRideLeaves ==
    ASSUME IInv, IInv', NEW t \in Tx, CommitCancelRide(t)
    PROVE  Promise!Next
<1>1. /\ TypeOK /\ NoTwoTrips /\ NoTwoTrips' /\ req[t].pool \in Pools \cup {Null}
      /\ req[t].ride \in Rides
      /\ ride[req[t].ride] \in {"REQUESTED", "MATCHED", "DRIVER_ARRIVED"}
    BY DEF IInv, RowsOK, RequestOK, ArgumentsOK, CancelOK, RideLabels, CommitCancelRide,
       RideAsSeen, TypeOK, Request
<1>2. PICK r \in Rides : r = req[t].ride
    BY <1>1
<1>3. PICK p \in Pools \cup {Null} : p = req[t].pool
    BY <1>1
<1>4. /\ ride' = [ride EXCEPT ![r] = "CANCELLED"]
      /\ pool' = pool /\ poolDriver' = poolDriver /\ revived' = revived
      /\ \/ memb' = memb
         \/ p \in Pools /\ memb' = [memb EXCEPT ![p][r] = "left"]
    BY <1>2, <1>3 DEF CommitCancelRide, LeavePool, poolRows
<1>5. /\ \A q \in Pools, s \in Rides : s # r => memb'[q][s] = memb[q][s]
      /\ \A q \in Pools : memb'[q][r] = "aboard" => memb[q][r] = "aboard"
  <2>1. CASE memb' = memb
    BY <2>1
  <2>2. CASE p \in Pools /\ memb' = [memb EXCEPT ![p][r] = "left"]
    BY <1>1, <2>2 DEF TypeOK
  <2> QED BY <1>4, <2>1, <2>2
<1>6. \A s \in Rides : s # r => TripOf(s)' = TripOf(s)
    BY <1>5, StaysOnBoard
<1>7. ride[r] \in Promise!UnderWay \ {"STARTED"}
    BY <1>1, <1>2 DEF Promise!UnderWay
<1>8. Promise!Cancel(r)
    BY <1>4, <1>7 DEF Promise!Cancel
<1>9. CASE \A q \in Pools : memb'[q][r] # "aboard"
  <2>1. TripOf(r)' = Null
    BY <1>9, OnBoard
  <2>2. [s \in Rides |-> TripOf(s)]' = [[s \in Rides |-> TripOf(s)] EXCEPT ![r] = Null]
    BY <1>6, <2>1
  <2>3. Promise!Leave(r)
    BY <1>8, <2>2 DEF Promise!Leave
  <2> QED BY <2>3 DEF Promise!Next
<1>10. CASE \E q \in Pools : memb'[q][r] = "aboard"
  <2>1. PICK q \in Pools : memb'[q][r] = "aboard"
    BY <1>10
  <2>2. TripOf(r)' = q /\ TripOf(r) = q
    BY <1>1, <1>5, <2>1, OnBoard
  <2>3. [s \in Rides |-> TripOf(s)]' = [s \in Rides |-> TripOf(s)]
    BY <1>6, <2>2
  <2>4. Promise!LeaveBehind(r)
    BY <1>8, <2>3 DEF Promise!LeaveBehind
  <2> QED BY <2>4 DEF Promise!Next
<1> QED BY <1>9, <1>10

\* What both accepts do to the trips.
LEMMA Boards ==
    ASSUME TypeOK, RowsOK, RowsOK', NEW r \in Rides, NEW p \in Pools, NEW d,
           ride[r] = "REQUESTED", ride' = [ride EXCEPT ![r] = "MATCHED"],
           memb' = [memb EXCEPT ![p][r] = "aboard"],
           SeatsOf(Aboard(p) \cup {r}) <= Capacity[d], revived' = revived
    PROVE  Promise!Board(r, p, d)
<1>1. \A q \in Pools, s \in Rides :
          memb'[q][s] = IF q = p /\ s = r THEN "aboard" ELSE memb[q][s]
    BY DEF TypeOK
<1>2. ASSUME NEW s \in Rides, s # r PROVE TripOf(s)' = TripOf(s)
    BY <1>1, <1>2, StaysOnBoard
<1>3. TripOf(r)' = p
    BY <1>1, OnBoard DEF RowsOK
<1>4. [s \in Rides |-> TripOf(s)]' = [[s \in Rides |-> TripOf(s)] EXCEPT ![r] = p]
    BY <1>2, <1>3
<1>5. Promise!Load(Promise!On(p) \cup {r}) <= Capacity[d]
    BY OnAndLoad
<1> QED BY <1>4, <1>5 DEF Promise!Board

LEMMA CommitCreatePoolAccepts ==
    ASSUME StepInv, IInv', NEW t \in Tx, CommitCreatePool(t)
    PROVE  Promise!Next
<1> DEFINE r == req[t].ride
           d == req[t].driver
<1>1. /\ TypeOK /\ RowsOK /\ RowsOK' /\ r \in Rides /\ d \in Drivers
      /\ ride[r] = "REQUESTED" /\ Seats[r] <= Capacity[d]
    BY DEF StepInv, IInv, RequestOK, ArgumentsOK, RideLabels, DriverLabels,
       CommitCreatePool, RideUnclaimed
<1>2. PICK p \in Pools :
          /\ pool[p] = None
          /\ pool' = [pool EXCEPT ![p] = "FORMING"]
          /\ poolDriver' = [poolDriver EXCEPT ![p] = d]
          /\ memb' = [memb EXCEPT ![p][r] = "aboard"]
    BY DEF CommitCreatePool
<1>3. ride' = [ride EXCEPT ![r] = "MATCHED"] /\ revived' = revived
    BY DEF CommitCreatePool
<1> HIDE DEF r, d
<1>4. Aboard(p) = {}
    BY <1>1, <1>2 DEF RowsOK, MembersOK, Aboard, None
<1>5. SeatsOf(Aboard(p) \cup {r}) = Seats[r]
  <2>1. SeatsOf({} \cup {r}) = 0 + Seats[r]
    BY <1>1, SeatsOfMore, SeatsOfNobody
  <2> QED BY <1>1, <1>4, <2>1, RidesAssumption
<1>6. Promise!Board(r, p, d)
    BY <1>1, <1>2, <1>3, <1>5, Boards
<1>7. Promise!Accept(r, p, d)
    BY <1>2, <1>6 DEF Promise!Accept, None
<1> QED BY <1>1, <1>7 DEF Promise!Next

LEMMA CommitAddMemberJoins ==
    ASSUME StepInv, IInv', NEW t \in Tx, CommitAddMember(t)
    PROVE  Promise!Next
<1> DEFINE r == req[t].ride
           p == req[t].pool
<1>1. /\ TypeOK /\ RowsOK /\ RowsOK' /\ r \in Rides /\ p \in Pools
      /\ ride[r] = "REQUESTED" /\ pool[p] = "FORMING"
      /\ seatsTaken[p] + Seats[r] <= Capacity[poolDriver[p]]
    BY DEF StepInv, IInv, RequestOK, ArgumentsOK, ClaimOK, RideLabels, PoolLabels,
       CommitAddMember, RideUnclaimed
<1>2. /\ ride' = [ride EXCEPT ![r] = "MATCHED"] /\ UNCHANGED <<pool, poolDriver, revived>>
      /\ memb' = [memb EXCEPT ![p][r] = "aboard"]
    BY DEF CommitAddMember
<1> HIDE DEF r, p
<1>3. SeatsOf(Aboard(p) \cup {r}) = seatsTaken[p] + Seats[r]
  <2>1. r \notin Aboard(p) /\ Aboard(p) \in SUBSET Rides
    BY <1>1 DEF RowsOK, WaitingOK, Aboard
  <2>2. SeatsOf(Aboard(p) \cup {r}) = SeatsOf(Aboard(p)) + Seats[r]
    BY <1>1, <2>1, SeatsOfMore
  <2> QED BY <1>1, <2>2 DEF RowsOK, SeatsReconcile
<1>4. Promise!Board(r, p, poolDriver[p])
    BY <1>1, <1>2, <1>3, Boards
<1>5. Promise!Join(r, p)
    BY <1>1, <1>2, <1>4 DEF Promise!Join
<1> QED BY <1>1, <1>5 DEF Promise!Next

LEMMA AdvanceMoves ==
    ASSUME StepInv, NEW t \in Tx, DriverKnows(t),
           MarkArrived(t) \/ StartTrip(t) \/ CompleteTrip(t)
    PROVE  Promise!Next
<1> DEFINE p == req[t].pool
<1>1. TypeOK /\ RowsOK /\ IInv
    BY DEF StepInv, IInv
<1>2. p \in Pools
    BY <1>1, DriverHolds DEF MarkArrived, StartTrip, CompleteTrip
<1>3. ASSUME NEW from, NEW to, pool[p] = from, Advance(p, to),
             to = "STARTED" => \E m \in Rides : memb[p][m] = "aboard"
      PROVE  Promise!Move(p, from, to)
  <2>1. /\ pool' = [pool EXCEPT ![p] = to]
        /\ ride' = [r \in Rides |-> IF r \in Aboard(p) THEN to ELSE ride[r]]
        /\ memb' = memb /\ poolDriver' = poolDriver /\ revived' = revived
    BY <1>3 DEF Advance
  <2>2. \A r \in Rides : TripOf(r)' = TripOf(r)
    BY <2>1, StaysOnBoard
  <2>3. Promise!On(p) = Aboard(p)
    BY <1>1, <1>2, OnAndLoad
  <2>4. to = "STARTED" => Promise!On(p) # {}
    BY <1>3, <2>3 DEF Aboard
  <2>5. \A r \in Promise!On(p) : ride[r] # "CANCELLED"
    BY <1>3, <2>3, RideRules DEF Advance, MembersUnmoved
  <2> HIDE DEF p
  <2> QED BY <1>3, <2>1, <2>2, <2>3, <2>4, <2>5 DEF Promise!Move
<1>4. CASE MarkArrived(t)
  <2>1. Promise!Move(p, "FORMING", "DRIVER_ARRIVED")
    BY <1>3, <1>4 DEF MarkArrived, DriverKnows
  <2> QED BY <1>2, <2>1 DEF Promise!Next
<1>5. CASE StartTrip(t)
  <2>1. Promise!Move(p, "DRIVER_ARRIVED", "STARTED")
    BY <1>3, <1>5 DEF StartTrip, DriverKnows
  <2> QED BY <1>2, <2>1 DEF Promise!Next
<1>6. CASE CompleteTrip(t)
  <2>1. Promise!Move(p, "STARTED", "COMPLETED")
    BY <1>3, <1>6 DEF CompleteTrip, DriverKnows
  <2> QED BY <1>2, <2>1 DEF Promise!Next
<1> QED BY <1>4, <1>5, <1>6

LEMMA CancelPoolCallsOff ==
    ASSUME StepInv, NEW t \in Tx, DriverKnows(t), CancelPool(t)
    PROVE  Promise!Next
<1> DEFINE p == req[t].pool
<1>1. /\ TypeOK /\ RowsOK /\ p \in Pools /\ pool[p] \in {"FORMING", "DRIVER_ARRIVED"}
    BY DriverHolds DEF StepInv, IInv, CancelPool, DriverKnows
<1>2. /\ pool' = [pool EXCEPT ![p] = "CANCELLED"] /\ poolDriver' = poolDriver
      /\ memb' = [memb EXCEPT ![p] =
                     [r \in Rides |-> IF memb[p][r] = "aboard" THEN "left" ELSE memb[p][r]]]
      /\ ride' = [r \in Rides |-> IF r \in Aboard(p) THEN "REQUESTED" ELSE ride[r]]
      /\ revived' = revived \cup {r \in Aboard(p) : ride[r] = "CANCELLED"}
    BY DEF CancelPool
<1> HIDE DEF p
<1>3. /\ \A q \in Pools : q # p => memb'[q] = memb[q]
      /\ \A r \in Rides : memb'[p][r] # "aboard"
    BY <1>1, <1>2 DEF TypeOK
<1>4. ASSUME NEW r \in Rides
      PROVE  TripOf(r)' = IF r \in Aboard(p) THEN Null ELSE TripOf(r)
  <2>1. CASE memb[p][r] = "aboard"
    <3>1. \A q \in Pools : memb'[q][r] # "aboard"
      BY <1>1, <1>3, <2>1 DEF RowsOK, NoTwoTrips
    <3> QED BY <2>1, <3>1, OnBoard DEF Aboard
  <2>2. CASE memb[p][r] # "aboard"
    <3>1. \A q \in Pools : memb'[q][r] = "aboard" <=> memb[q][r] = "aboard"
      BY <1>3, <2>2
    <3> QED BY <2>2, <3>1, StaysOnBoard DEF Aboard
  <2> QED BY <2>1, <2>2
<1>5. Promise!On(p) = Aboard(p)
    BY <1>1, OnAndLoad
<1>6. Promise!CallOff(p)
    BY <1>1, <1>2, <1>4, <1>5 DEF Promise!CallOff
<1> QED BY <1>1, <1>6 DEF Promise!Next

-----------------------------------------------------------------------------
(* The theorems.                                                           *)

\* A driver's request knows the status of the pool it is about to move.
THEOREM DriversKnow == Spec => [](\A t \in Tx : DriverKnows(t))
<1> DEFINE Known == \A t \in Tx : DriverKnows(t)
<1>1. Init => Known
    BY DEF Init, DriverKnows
<1>2. IInv /\ Known /\ [Next]_vars => Known'
  <2> SUFFICES ASSUME IInv, Known, [Next]_vars PROVE Known'
    OBVIOUS
  <2>1. TypeOK
    BY DEF IInv
  <2>2. ASSUME NEW t \in Tx, Quiet(t) \/ End(t), KeepsRows(t), DriverKnows(t)' PROVE Known'
    <3>1. KeepsOthers(t)
      BY <2>1, <2>2, OthersAreKept
    <3>2. \A s \in Tx \ {t} : DriverKnows(s)'
      BY <2>2, <3>1, OthersDrive
    <3> QED BY <2>2, <3>2
  <2>3. ASSUME NEW t \in Tx, Ask(t) PROVE Known'
    BY <2>2, <2>3, AskIsQuiet, QuietPreserves, AskDrives
  <2>4. ASSUME NEW t \in Tx, WaitOrRefuse(t) PROVE Known'
    BY <2>1, <2>2, <2>4, WaitIsQuiet, QuietPreserves, WaitDrives
  <2>5. ASSUME NEW t \in Tx,
               \/ InsertRide(t) \/ CommitCancelRide(t)
               \/ CommitCreatePool(t) \/ CommitAddMember(t)
               \/ MarkArrived(t) \/ StartTrip(t) \/ CompleteTrip(t) \/ CancelPool(t)
               \/ CommitOffline(t)
        PROVE  Known'
    <3>1. End(t)
      BY <2>5 DEF InsertRide, CommitCancelRide, CommitCreatePool, CommitAddMember,
         MarkArrived, StartTrip, CompleteTrip, CancelPool, CommitOffline
    <3>2. KeepsRows(t)
      BY <2>5, InsertRidePreserves, CommitCancelRidePreserves, CommitCreatePoolPreserves,
         CommitAddMemberPreserves, MarkArrivedPreserves, StartTripPreserves,
         CompleteTripPreserves, CancelPoolPreserves, CommitOfflinePreserves
    <3>3. DriverKnows(t)'
      BY <2>1, <3>1, ElsewhereKnowsNothing DEF End, PC, DriverLabel
    <3> QED BY <2>2, <3>1, <3>2, <3>3
  <2>6. ASSUME \/ \E d \in Drivers : GoOnline(d)
               \/ \E p \in Pools : AgeOut(p)
               \/ UNCHANGED vars
        PROVE  Known'
    <3>1. UNCHANGED <<pool, memb, pc, req>>
      BY <2>6 DEF GoOnline, AgeOut, poolRows, vars, db
    <3> QED BY <3>1 DEF DriverKnows
  <2> QED BY <2>3, <2>4, <2>5, <2>6 DEF Next, Proceed, Acquire, WaitOrRefuse
<1> QED BY <1>1, <1>2, Invariance, PTL DEF Spec

\* Whatever the interleaving, every commit is a step of the board and nothing else
\* shows: rides and trips move as the atomic promise says, with the cancelled ride
\* left aboard as its one blemish.
THEOREM PoolsKeepThePromise == Spec => ImplementsPromise
<1>1. Init => Promise!Init
  <2> SUFFICES ASSUME Init PROVE Promise!Init
    OBVIOUS
  <2>1. \A r \in Rides : TripOf(r) = Null
    BY OnBoard DEF Init, None
  <2> QED BY <2>1 DEF Init, Promise!Init, None
<1>2. StepInv /\ StepInv' /\ (\A t \in Tx : DriverKnows(t)) /\ [Next]_vars
      => [Promise!Next]_(Promise!vars)
  <2> SUFFICES ASSUME StepInv, StepInv', \A t \in Tx : DriverKnows(t), [Next]_vars
               PROVE  Promise!Next \/ UNCHANGED Promise!vars
    OBVIOUS
  <2>1. IInv /\ IInv'
    BY DEF StepInv
  <2>2. ASSUME NEW t \in Tx, Ask(t) \/ WaitOrRefuse(t) PROVE UNCHANGED Promise!vars
    <3>1. UNCHANGED <<ride, pool, poolDriver, memb, revived>>
      BY <2>1, <2>2, AskIsQuiet, WaitIsQuiet DEF Quiet, db, rideRows, poolRows
    <3> QED BY <3>1, Invisible
  <2>3. ASSUME NEW t \in Tx,
               \/ InsertRide(t) \/ CommitCancelRide(t)
               \/ CommitCreatePool(t) \/ CommitAddMember(t)
        PROVE  Promise!Next
    BY <2>1, <2>3, InsertRideRequests, CommitCancelRideLeaves, CommitCreatePoolAccepts,
       CommitAddMemberJoins
  <2>4. ASSUME NEW t \in Tx,
               MarkArrived(t) \/ StartTrip(t) \/ CompleteTrip(t) \/ CancelPool(t)
        PROVE  Promise!Next
    BY <2>4, AdvanceMoves, CancelPoolCallsOff
  <2>5. ASSUME \/ \E t \in Tx : CommitOffline(t)
               \/ \E d \in Drivers : GoOnline(d)
               \/ \E p \in Pools : AgeOut(p)
               \/ UNCHANGED vars
        PROVE  UNCHANGED Promise!vars
    <3>1. UNCHANGED <<ride, pool, poolDriver, memb, revived>>
      BY <2>5 DEF CommitOffline, GoOnline, AgeOut, rideRows, poolRows, vars, db
    <3> QED BY <3>1, Invisible
  <2> QED
    BY <2>2, <2>3, <2>4, <2>5 DEF Next, Proceed, Acquire, WaitOrRefuse
<1> QED BY <1>1, <1>2, StepInvariance, DriversKnow, PTL DEF Spec, ImplementsPromise, Promise!Spec
=============================================================================
