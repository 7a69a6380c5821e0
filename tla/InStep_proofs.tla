--------------------------- MODULE InStep_proofs ---------------------------
(***************************************************************************)
(* Theorems about TeslaPool that relate a ride to the trip it is on: how   *)
(* far the two state machines stay in step, how many active rides a        *)
(* passenger can have, which moves the rides make, and when a cancel gives *)
(* up looking for the trip of its ride.                                    *)
(*                                                                         *)
(* A cancel looks its ride up by two SELECTs without a lock, so it may     *)
(* leave a cancelled ride aboard, and the driver's cancel then puts that   *)
(* ride back in the queue.  The theorems say that this is all that goes    *)
(* wrong: the update of the status read earlier keeps the ride out of a    *)
(* trip that departs, and nothing but the driver's cancel revives it.      *)
(***************************************************************************)
EXTENDS TeslaPool_proofs

\* Whoever's row an insert holds has no active ride but revived ones.
InsertAlone(t) ==
    pc[t] = "insertRide" =>
        \A r \in Rides :
            Owner[r] = Owner[req[t].ride] /\ ride[r] \in ActiveRideStatus => r \in revived

StepInv ==
    /\ IInv
    /\ InStepUnlessLeftBehind
    /\ OneActiveRideUnlessRevived
    /\ \A t \in Tx : InsertAlone(t)

\* What a step may do to the rides (LegalUnlessRevived, as a predicate of a step).
LegalMoves ==
    \A r \in Rides : ride'[r] # ride[r] =>
        \/ LegalStep(r)
        \/ /\ ride[r] = "CANCELLED" /\ ride'[r] = "REQUESTED"
           /\ \E p \in TripsOf(r) : pool'[p] = "CANCELLED"

\* Moves of the lifecycle table, none of them an insert.
TableMoves ==
    \A r \in Rides : ride'[r] # ride[r] =>
        ride[r] # None /\ \E a \in ActorRole : CanTransitionRide(ride[r], ride'[r], a)

\* A ride that comes back to life is on record.
Recorded ==
    /\ revived \subseteq revived'
    /\ \A r \in Rides : ride[r] # None /\ ride'[r] \in ActiveRideStatus =>
          ride[r] \in ActiveRideStatus \/ r \in revived'

\* What each step is shown to do.
StepKept ==
    InStepUnlessLeftBehind' /\ OneActiveRideUnlessRevived' /\ LegalMoves /\ Recorded

-----------------------------------------------------------------------------
(* What a step guarantees to the other requests.                           *)

\* Neither a step that writes no row nor a commit touches another request.
LEMMA OthersAreKept ==
    ASSUME TypeOK, NEW t \in Tx, Quiet(t) \/ End(t)
    PROVE  KeepsOthers(t)
<1> USE TxAssumption
<1>1. ASSUME NEW s \in Tx \ {t}
      PROVE  /\ \A p \in Pools : poolLock[p] = s => poolLock'[p] = s
             /\ \A u \in Users : userLock[u] = s => userLock'[u] = s
  <2>1. CASE LocksKept
    BY <1>1, <2>1 DEF LocksKept
  <2>2. ASSUME NEW p \in Pools, LockPoolRow(t, p) PROVE <1>1!2
    BY <1>1, <2>2 DEF LockPoolRow, TypeOK
  <2>3. ASSUME NEW u \in Users, LockUserRow(t, u) PROVE <1>1!2
    BY <1>1, <2>3 DEF LockUserRow, TypeOK
  <2>4. CASE /\ poolLock' = [p \in Pools |-> IF poolLock[p] = t THEN Null ELSE poolLock[p]]
             /\ userLock' = [u \in Users |-> IF userLock[u] = t THEN Null ELSE userLock[u]]
    BY <1>1, <2>4
  <2> QED BY <2>1, <2>2, <2>3, <2>4 DEF Quiet, LocksMove, End
<1>2. \A s \in Tx \ {t} : pc'[s] = pc[s] /\ req'[s] = req[s]
    BY DEF Quiet, End, Goto, TypeOK
<1> QED BY <1>1, <1>2 DEF KeepsOthers

\* A ride of the passenger whose row an insert holds can neither be inserted by
\* another request nor come back to life off the record.
LEMMA OthersAreAlone ==
    ASSUME IInv, NEW t \in Tx, KeepsOthers(t), KeepsRows(t), Recorded,
           NEW s \in Tx \ {t}, InsertAlone(s)
    PROVE  InsertAlone(s)'
<1>1. /\ TypeOK /\ ArgumentsOK(s) /\ InsertOK(s)
      /\ pc'[s] = pc[s] /\ req'[s] = req[s]
    BY DEF IInv, RequestOK, KeepsOthers
<1> SUFFICES ASSUME pc[s] = "insertRide", NEW r \in Rides,
                    Owner[r] = Owner[req[s].ride], ride'[r] \in ActiveRideStatus
             PROVE  r \in revived'
    BY <1>1 DEF InsertAlone
<1>2. req[s].ride \in Rides /\ userLock[Owner[r]] = s
    BY <1>1 DEF ArgumentsOK, InsertOK, RideLabels
<1>3. ride[r] # None
    BY <1>2 DEF KeepsRows, ActiveRideStatus, RideStatus, None
<1>4. CASE ride[r] \in ActiveRideStatus
    BY <1>4 DEF InsertAlone, Recorded
<1> QED BY <1>3, <1>4 DEF Recorded

\* A request at any other label holds no passenger's row.
LEMMA NotInserting ==
    ASSUME TypeOK, NEW t \in Tx, NEW label \in PC \ {"insertRide"}, NEW q, Goto(t, label, q)
    PROVE  InsertAlone(t)'
<1>1. pc'[t] = label
    BY DEF Goto, TypeOK
<1> QED BY <1>1 DEF InsertAlone

\* A step that inserts nothing, with revivals on record, gives no passenger a
\* second active ride off the record.
LEMMA NoneGained ==
    ASSUME OneActiveRideUnlessRevived, Recorded,
           \A r \in Rides : ride[r] = None => ride'[r] = None
    PROVE  OneActiveRideUnlessRevived'
<1> SUFFICES ASSUME NEW r \in Rides, NEW s \in Rides, Rivals(r, s)'
             PROVE  r \in revived' \/ s \in revived'
    BY DEF OneActiveRideUnlessRevived
<1>1. /\ r # s /\ Owner[r] = Owner[s]
      /\ ride'[r] \in ActiveRideStatus /\ ride'[s] \in ActiveRideStatus
    BY DEF Rivals
<1>2. ride[r] # None /\ ride[s] # None
    BY <1>1 DEF ActiveRideStatus, RideStatus, None
<1>3. CASE ride[r] \in ActiveRideStatus /\ ride[s] \in ActiveRideStatus
    BY <1>1, <1>3 DEF OneActiveRideUnlessRevived, Rivals, Recorded
<1> QED BY <1>1, <1>2, <1>3 DEF Recorded

\* Moves of the table bring no ride back to life.
LEMMA TableMovesAreKept ==
    ASSUME TypeOK, OneActiveRideUnlessRevived, TableMoves, revived' = revived
    PROVE  OneActiveRideUnlessRevived' /\ LegalMoves /\ Recorded
<1>1. ASSUME NEW r \in Rides, ride[r] # None, ride'[r] \in ActiveRideStatus
      PROVE  ride[r] \in ActiveRideStatus
  <2>1. CASE ride'[r] = ride[r]
    BY <1>1, <2>1
  <2>2. CASE ride'[r] # ride[r]
    <3>1. PICK a \in ActorRole : CanTransitionRide(ride[r], ride'[r], a)
      BY <2>2 DEF TableMoves
    <3>2. ride[r] \in RideStatus
      BY <1>1 DEF TypeOK
    <3>3. ride[r] # "COMPLETED" /\ ride[r] # "CANCELLED"
      BY <3>1, RideRules
    <3> QED BY <3>2, <3>3 DEF ActiveRideStatus, TerminalRideStatus
  <2> QED BY <2>1, <2>2
<1>2. Recorded
    BY <1>1 DEF Recorded
<1>3. \A r \in Rides : ride[r] = None => ride'[r] = None
    BY DEF TableMoves
<1>4. LegalMoves
    BY DEF TableMoves, LegalMoves, LegalStep
<1> QED BY <1>2, <1>3, <1>4, NoneGained

-----------------------------------------------------------------------------
(* The steps of a request that write no row.                               *)

\* A step that writes no row changes no ride and no trip.
LEMMA UnchangedIsKept ==
    ASSUME InStepUnlessLeftBehind, OneActiveRideUnlessRevived,
           UNCHANGED <<ride, pool, memb, revived>>
    PROVE  StepKept
BY DEF StepKept, InStepUnlessLeftBehind, TripsOf, OneActiveRideUnlessRevived, Rivals,
   LegalMoves, Recorded

LEMMA QuietKeepsStep ==
    ASSUME InStepUnlessLeftBehind, OneActiveRideUnlessRevived, NEW t \in Tx, Quiet(t)
    PROVE  StepKept
<1>1. UNCHANGED <<ride, pool, memb, revived>>
    BY DEF Quiet, db, rideRows, poolRows
<1> QED BY <1>1, UnchangedIsKept

\* An insert begins after the check under the lock.
LEMMA AskKnows ==
    ASSUME IInv, NEW t \in Tx, Ask(t)
    PROVE  InsertAlone(t)'
<1>1. TypeOK
    BY DEF IInv
<1>2. ASSUME NEW r \in Rides, CreateRide(t, r) PROVE InsertAlone(t)'
  <2>1. pc'[t] = "insertRide" /\ req'[t].ride = r
    BY <1>1, <1>2 DEF CreateRide, Goto, TypeOK, NoRequest
  <2>2. ride' = ride /\ ~HasActiveRide(Owner[r])
    BY <1>2 DEF CreateRide, db, rideRows
  <2> QED BY <2>1, <2>2 DEF InsertAlone, HasActiveRide
<1>3. ASSUME NEW r \in Rides, CancelRide(t, r) PROVE InsertAlone(t)'
    BY <1>1, <1>3, NotInserting DEF CancelRide, PC
<1>4. ASSUME NEW p \in Pools, \/ BeginArrive(t, p) \/ BeginStart(t, p)
                              \/ BeginComplete(t, p) \/ BeginCancelPool(t, p)
      PROVE  InsertAlone(t)'
    BY <1>1, <1>4, NotInserting DEF BeginArrive, BeginStart, BeginComplete,
       BeginCancelPool, LockOwnedPool, PC
<1>5. ASSUME NEW p \in Pools, NEW r \in Rides, BeginAddMember(t, p, r)
      PROVE  InsertAlone(t)'
    BY <1>1, <1>5, NotInserting DEF BeginAddMember, PC
<1>6. ASSUME NEW d \in Drivers, NEW r \in Rides, BeginCreatePool(t, d, r)
      PROVE  InsertAlone(t)'
    BY <1>1, <1>6, NotInserting DEF BeginCreatePool, PC
<1>7. ASSUME NEW d \in Drivers, CheckOffline(t, d) PROVE InsertAlone(t)'
    BY <1>1, <1>7, NotInserting DEF CheckOffline, PC
<1> QED BY <1>2, <1>3, <1>4, <1>5, <1>6, <1>7 DEF Ask

LEMMA WaitKnows ==
    ASSUME TypeOK, NEW t \in Tx, WaitOrRefuse(t)
    PROVE  InsertAlone(t)'
<1>1. CASE LoadMembers(t)
    BY <1>1, NotInserting DEF LoadMembers, End, PC
<1>2. CASE LockTrip(t)
    BY <1>2, NotInserting DEF LockTrip, PC
<1>3. CASE LockDriver(t)
    BY <1>3, NotInserting DEF LockDriver, PC
<1>4. CASE ClaimSeats(t)
    BY <1>4, NotInserting DEF ClaimSeats, PC
<1>5. CASE RollBack(t)
    BY <1>5, NotInserting DEF RollBack, End, PC
<1> QED
    BY <1>1, <1>2, <1>3, <1>4, <1>5
       DEF WaitOrRefuse, RefuseCancelRide, RefuseCreatePool, RefuseClaimSeats,
           RefuseAddMember, RefuseAdvance, Abort

-----------------------------------------------------------------------------
(* The commits.                                                            *)

\* InStepUnlessLeftBehind for one ride, without the set of its trips.
RideInStep(r) ==
    /\ \A p \in Pools : memb[p][r] = "aboard" =>
          \/ ride[r] = StatusAboard(pool[p]) /\ pool[p] # "CANCELLED"
          \/ ride[r] = "CANCELLED" /\ pool[p] \in {"FORMING", "DRIVER_ARRIVED"}
    /\ (\A p \in Pools : memb[p][r] # "aboard") => ride[r] \in {None, "REQUESTED", "CANCELLED"}

\* InStepUnlessLeftBehind, ride by ride, before and after a step.
LEMMA RideByRide ==
    /\ InStepUnlessLeftBehind <=> \A r \in Rides : RideInStep(r)
    /\ InStepUnlessLeftBehind' <=> \A r \in Rides : RideInStep(r)'
<1>1. InStepUnlessLeftBehind <=> \A r \in Rides : RideInStep(r)
    BY DEF InStepUnlessLeftBehind, TripsOf, RideInStep
<1>2. InStepUnlessLeftBehind' <=> \A r \in Rides : RideInStep(r)'
    BY DEF InStepUnlessLeftBehind, TripsOf, RideInStep
<1> QED BY <1>1, <1>2

\* createRide's insert.
LEMMA InsertRideSteps ==
    ASSUME IInv, InStepUnlessLeftBehind, OneActiveRideUnlessRevived,
           NEW t \in Tx, InsertAlone(t), InsertRide(t)
    PROVE  StepKept
<1> DEFINE r == req[t].ride
<1>1. /\ TypeOK /\ RowsOK /\ r \in Rides /\ ride[r] = None
      /\ \A s \in Rides : Owner[s] = Owner[r] /\ ride[s] \in ActiveRideStatus => s \in revived
    BY DEF IInv, RequestOK, ArgumentsOK, InsertOK, InsertAlone, InsertRide, RideLabels
<1>2. /\ ride' = [ride EXCEPT ![r] = "REQUESTED"] /\ pool' = pool /\ memb' = memb
      /\ revived' = revived
    BY DEF InsertRide, poolRows
<1> HIDE DEF r
<1>3. ride'[r] = "REQUESTED" /\ \A s \in Rides : s # r => ride'[s] = ride[s]
    BY <1>1, <1>2 DEF TypeOK
<1>4. \A p \in Pools : memb[p][r] # "aboard"
    BY <1>1 DEF RowsOK, WaitingOK
<1>5. InStepUnlessLeftBehind'
    BY <1>2, <1>3, <1>4, RideByRide DEF RideInStep
<1>6. OneActiveRideUnlessRevived'
  <2> SUFFICES ASSUME NEW a \in Rides, NEW b \in Rides, Rivals(a, b)'
               PROVE  a \in revived \/ b \in revived
    BY <1>2 DEF OneActiveRideUnlessRevived
  <2>1. /\ a # b /\ Owner[a] = Owner[b]
        /\ ride'[a] \in ActiveRideStatus /\ ride'[b] \in ActiveRideStatus
    BY DEF Rivals
  <2>2. CASE a = r
    BY <1>1, <1>3, <2>1, <2>2
  <2>3. CASE b = r
    BY <1>1, <1>3, <2>1, <2>3
  <2>4. CASE a # r /\ b # r
    BY <1>3, <2>1, <2>4 DEF OneActiveRideUnlessRevived, Rivals
  <2> QED BY <2>2, <2>3, <2>4
<1>7. LegalMoves
    BY <1>1, <1>3 DEF LegalMoves, LegalStep
<1>8. Recorded
    BY <1>1, <1>2, <1>3 DEF Recorded
<1> QED BY <1>5, <1>6, <1>7, <1>8 DEF StepKept

\* cancelRide's commit: the update is of a status that can still be cancelled, so
\* a ride it leaves behind is on a trip that has not started.
LEMMA CommitCancelRideSteps ==
    ASSUME IInv, InStepUnlessLeftBehind, NEW t \in Tx, CommitCancelRide(t)
    PROVE  InStepUnlessLeftBehind' /\ TableMoves
<1> DEFINE r == req[t].ride
           p == req[t].pool
<1>1. /\ TypeOK /\ r \in Rides /\ p \in Pools \cup {Null}
      /\ ride[r] \in {"REQUESTED", "MATCHED", "DRIVER_ARRIVED"}
    BY DEF IInv, RequestOK, ArgumentsOK, CancelOK, RideLabels, CommitCancelRide, RideAsSeen,
       TypeOK, Request
<1>2. /\ ride' = [ride EXCEPT ![r] = "CANCELLED"] /\ pool' = pool
      /\ \/ memb' = memb
         \/ p # Null /\ memb' = [memb EXCEPT ![p][r] = "left"]
    BY DEF CommitCancelRide, LeavePool, poolRows
<1> HIDE DEF r, p
<1>3. ride'[r] = "CANCELLED" /\ \A s \in Rides : s # r => ride'[s] = ride[s]
    BY <1>1, <1>2 DEF TypeOK
<1>4. /\ \A q \in Pools, s \in Rides : s # r => memb'[q][s] = memb[q][s]
      /\ \A q \in Pools : memb'[q][r] = "aboard" => memb[q][r] = "aboard"
  <2>1. CASE memb' = memb
    BY <2>1
  <2>2. CASE p \in Pools /\ memb' = [memb EXCEPT ![p][r] = "left"]
    BY <1>1, <2>2 DEF TypeOK
  <2> QED BY <1>1, <1>2, <2>1, <2>2
<1>5. ASSUME NEW q \in Pools, memb[q][r] = "aboard"
      PROVE  pool[q] \in {"FORMING", "DRIVER_ARRIVED"}
  <2>1. ride[r] = StatusAboard(pool[q]) /\ pool[q] \in PoolStatus \cup {None}
    BY <1>1, <1>5, RideByRide DEF RideInStep, TypeOK
  <2> QED BY <1>1, <2>1 DEF StatusAboard, PoolStatus, None
<1>6. ASSUME NEW s \in Rides, s = r PROVE RideInStep(s)'
    BY <1>2, <1>3, <1>4, <1>5, <1>6 DEF RideInStep
<1>7. ASSUME NEW s \in Rides, s # r PROVE RideInStep(s)'
  <2>1. RideInStep(s)
    BY RideByRide
  <2> QED BY <1>2, <1>3, <1>4, <1>7, <2>1 DEF RideInStep
<1>8. TableMoves
  <2>1. CanTransitionRide(ride[r], "CANCELLED", "PASSENGER") /\ ride[r] # None
    BY <1>1, RideMoves DEF RideStatus, None
  <2> QED BY <1>3, <2>1 DEF TableMoves, ActorRole
<1> QED BY <1>6, <1>7, <1>8, RideByRide

\* Both accepts match a waiting ride and take it aboard a pool that is forming.
LEMMA BoardingSteps ==
    ASSUME TypeOK, WaitingOK, InStepUnlessLeftBehind,
           NEW r \in Rides, NEW p \in Pools,
           ride[r] = "REQUESTED", ride' = [ride EXCEPT ![r] = "MATCHED"],
           memb' = [memb EXCEPT ![p][r] = "aboard"], pool'[p] = "FORMING",
           \A q \in Pools : q # p => pool'[q] = pool[q],
           \/ pool[p] = "FORMING"
           \/ \A s \in Rides : memb[p][s] # "aboard"
    PROVE  InStepUnlessLeftBehind' /\ TableMoves
<1>1. ride'[r] = "MATCHED" /\ \A s \in Rides : s # r => ride'[s] = ride[s]
    BY DEF TypeOK
<1>2. \A q \in Pools, s \in Rides :
          memb'[q][s] = IF q = p /\ s = r THEN "aboard" ELSE memb[q][s]
    BY DEF TypeOK
<1>3. \A q \in Pools : memb[q][r] # "aboard"
    BY DEF WaitingOK
<1>4. RideInStep(r)'
    BY <1>1, <1>2, <1>3 DEF RideInStep, StatusAboard
<1>5. ASSUME NEW s \in Rides, s # r PROVE RideInStep(s)'
  <2>1. RideInStep(s)
    BY RideByRide
  <2>2. /\ ride'[s] = ride[s]
        /\ \A q \in Pools : memb'[q][s] = memb[q][s]
        /\ \A q \in Pools : memb[q][s] = "aboard" => pool'[q] = pool[q]
    BY <1>1, <1>2, <1>5
  <2> QED BY <2>1, <2>2 DEF RideInStep
<1>6. InStepUnlessLeftBehind'
    BY <1>4, <1>5, RideByRide
<1>7. TableMoves
  <2>1. CanTransitionRide("REQUESTED", "MATCHED", "DRIVER")
    BY RideRules
  <2> QED BY <1>1, <2>1 DEF TableMoves, ActorRole, None
<1> QED BY <1>6, <1>7

\* createPool's commit inserts an empty pool for the ride.
LEMMA CommitCreatePoolSteps ==
    ASSUME IInv, InStepUnlessLeftBehind, NEW t \in Tx, CommitCreatePool(t)
    PROVE  InStepUnlessLeftBehind' /\ TableMoves
<1> DEFINE r == req[t].ride
<1>1. TypeOK /\ MembersOK /\ WaitingOK /\ r \in Rides /\ ride[r] = "REQUESTED"
    BY DEF IInv, RowsOK, RequestOK, ArgumentsOK, RideLabels, CommitCreatePool, RideUnclaimed
<1>2. PICK p \in Pools :
          /\ pool[p] = None
          /\ pool' = [pool EXCEPT ![p] = "FORMING"]
          /\ memb' = [memb EXCEPT ![p][r] = "aboard"]
    BY DEF CommitCreatePool
<1>3. ride' = [ride EXCEPT ![r] = "MATCHED"]
    BY DEF CommitCreatePool
<1> HIDE DEF r
<1>4. \A s \in Rides : memb[p][s] # "aboard"
    BY <1>1, <1>2 DEF MembersOK, None
<1>5. pool'[p] = "FORMING" /\ \A q \in Pools : q # p => pool'[q] = pool[q]
    BY <1>1, <1>2 DEF TypeOK
<1> QED BY <1>1, <1>2, <1>3, <1>4, <1>5, BoardingSteps

\* addMemberToPool's commit: the pool whose row it holds is still forming.
LEMMA CommitAddMemberSteps ==
    ASSUME IInv, InStepUnlessLeftBehind, NEW t \in Tx, CommitAddMember(t)
    PROVE  InStepUnlessLeftBehind' /\ TableMoves
<1> DEFINE r == req[t].ride
           p == req[t].pool
<1>1. /\ TypeOK /\ WaitingOK /\ r \in Rides /\ p \in Pools /\ ride[r] = "REQUESTED"
      /\ pool[p] = "FORMING"
    BY DEF IInv, RowsOK, RequestOK, ArgumentsOK, ClaimOK, RideLabels, PoolLabels,
       CommitAddMember, RideUnclaimed
<1>2. /\ ride' = [ride EXCEPT ![r] = "MATCHED"] /\ pool' = pool
      /\ memb' = [memb EXCEPT ![p][r] = "aboard"]
    BY DEF CommitAddMember
<1> HIDE DEF r, p
<1> QED BY <1>1, <1>2, BoardingSteps

\* The driver moves a pool and the rides aboard it to one status.
LEMMA AdvanceSteps ==
    ASSUME TypeOK, RowsOK, InStepUnlessLeftBehind, NEW p \in Pools,
           NEW to \in {"DRIVER_ARRIVED", "STARTED", "COMPLETED"}, Advance(p, to)
    PROVE  InStepUnlessLeftBehind' /\ TableMoves
<1>1. /\ pool'[p] = to /\ \A q \in Pools : q # p => pool'[q] = pool[q]
      /\ memb' = memb
      /\ \A r \in Rides : ride'[r] = IF memb[p][r] = "aboard" THEN to ELSE ride[r]
    BY DEF Advance, Aboard, TypeOK
<1>2. ASSUME NEW r \in Rides, memb[p][r] = "aboard"
      PROVE  RideInStep(r)' /\ ride[r] # None /\ CanTransitionRide(ride[r], to, "DRIVER")
  <2>1. \A q \in Pools : memb[q][r] = "aboard" => q = p
    BY <1>2 DEF RowsOK, NoTwoTrips
  <2>2. RideInStep(r)'
    BY <1>1, <1>2, <2>1 DEF RideInStep, StatusAboard
  <2>3. ride[r] # None
    BY <1>2 DEF RowsOK, WaitingOK
  <2>4. CanTransitionRide(ride[r], to, "DRIVER")
    BY <1>2 DEF Advance, MembersUnmoved, Aboard
  <2> QED BY <2>2, <2>3, <2>4
<1>3. ASSUME NEW r \in Rides, memb[p][r] # "aboard"
      PROVE  RideInStep(r)' /\ ride'[r] = ride[r]
  <2>1. RideInStep(r)
    BY RideByRide
  <2>2. \A q \in Pools : memb[q][r] = "aboard" => pool'[q] = pool[q]
    BY <1>1, <1>3
  <2> QED BY <1>1, <1>3, <2>1, <2>2 DEF RideInStep
<1>4. InStepUnlessLeftBehind'
    BY <1>2, <1>3, RideByRide
<1>5. TableMoves
    BY <1>1, <1>2, <1>3 DEF TableMoves, ActorRole
<1> QED BY <1>4, <1>5

\* cancelPool's update of the rides has no condition: it requeues the members
\* that are in step with the pool, and revives those that were left behind.
LEMMA CancelPoolSteps ==
    ASSUME IInv, InStepUnlessLeftBehind, OneActiveRideUnlessRevived,
           NEW t \in Tx, CancelPool(t)
    PROVE  StepKept
<1> DEFINE p == req[t].pool
<1>1. /\ TypeOK /\ RowsOK /\ p \in Pools
      /\ \A r \in Rides : memb[p][r] = "aboard" =>
            ride[r] \in {"MATCHED", "DRIVER_ARRIVED", "CANCELLED"}
    BY DriverHolds DEF IInv, RequestOK, CallOffOK, CancelPool
<1>2. /\ pool' = [pool EXCEPT ![p] = "CANCELLED"]
      /\ memb' = [memb EXCEPT ![p] =
                     [r \in Rides |-> IF memb[p][r] = "aboard" THEN "left" ELSE memb[p][r]]]
      /\ ride' = [r \in Rides |-> IF r \in Aboard(p) THEN "REQUESTED" ELSE ride[r]]
      /\ revived' = revived \cup {r \in Aboard(p) : ride[r] = "CANCELLED"}
    BY DEF CancelPool
<1> HIDE DEF p
<1>3. /\ pool'[p] = "CANCELLED"
      /\ \A q \in Pools : q # p => pool'[q] = pool[q] /\ memb'[q] = memb[q]
      /\ \A r \in Rides : memb'[p][r] # "aboard"
      /\ \A r \in Rides : ride'[r] = IF memb[p][r] = "aboard" THEN "REQUESTED" ELSE ride[r]
    BY <1>1, <1>2 DEF TypeOK, Aboard
<1>4. ASSUME NEW r \in Rides, memb[p][r] = "aboard"
      PROVE  /\ RideInStep(r)' /\ ride[r] # None
             /\ \/ ride[r] \in {"MATCHED", "DRIVER_ARRIVED"} /\ LegalStep(r)
                \/ ride[r] = "CANCELLED" /\ r \in revived'
  <2>1. \A q \in Pools : memb'[q][r] # "aboard"
    BY <1>1, <1>3, <1>4 DEF RowsOK, NoTwoTrips
  <2>2. RideInStep(r)'
    BY <1>3, <1>4, <2>1 DEF RideInStep
  <2>3. ride[r] = "CANCELLED" => r \in revived'
    BY <1>2, <1>4 DEF Aboard
  <2>4. ASSUME ride[r] \in {"MATCHED", "DRIVER_ARRIVED"} PROVE LegalStep(r)
    <3>1. CanTransitionRide(ride[r], "REQUESTED", "SYSTEM")
      BY <2>4, RideRules
    <3> QED BY <1>3, <1>4, <2>4, <3>1 DEF LegalStep, ActorRole, None
  <2> QED BY <1>1, <1>4, <2>2, <2>3, <2>4 DEF None
<1>5. ASSUME NEW r \in Rides, memb[p][r] # "aboard"
      PROVE  RideInStep(r)' /\ ride'[r] = ride[r]
  <2>1. RideInStep(r)
    BY RideByRide
  <2>2. /\ \A q \in Pools : memb'[q][r] = "aboard" <=> memb[q][r] = "aboard"
        /\ \A q \in Pools : memb[q][r] = "aboard" => pool'[q] = pool[q]
    BY <1>3, <1>5
  <2> QED BY <1>3, <1>5, <2>1, <2>2 DEF RideInStep
<1>6. InStepUnlessLeftBehind'
    BY <1>4, <1>5, RideByRide
<1>7. LegalMoves
    BY <1>1, <1>3, <1>4, <1>5 DEF LegalMoves, TripsOf
<1>8. Recorded
  <2>1. \A r \in Rides : memb[p][r] = "aboard" =>
            ride[r] \in ActiveRideStatus \/ r \in revived'
    BY <1>4 DEF ActiveRideStatus, RideStatus, TerminalRideStatus
  <2> QED BY <1>2, <1>5, <2>1 DEF Recorded
<1>9. OneActiveRideUnlessRevived'
    BY <1>4, <1>5, <1>8, NoneGained
<1> QED BY <1>6, <1>7, <1>8, <1>9 DEF StepKept

-----------------------------------------------------------------------------
(* The theorems.                                                           *)

LEMMA EveryStepKeepsStep ==
    ASSUME StepInv, [Next]_vars
    PROVE  StepInv' /\ LegalMoves
<1>1. IInv /\ TypeOK /\ InStepUnlessLeftBehind /\ OneActiveRideUnlessRevived
    BY DEF StepInv, IInv
<1>2. ASSUME NEW t \in Tx, IInv' /\ KeepsRows(t), Quiet(t) \/ End(t), StepKept,
             InsertAlone(t)'
      PROVE  StepInv' /\ LegalMoves
  <2>1. ASSUME NEW s \in Tx \ {t} PROVE InsertAlone(s)'
    BY <1>1, <1>2, OthersAreKept, OthersAreAlone DEF StepInv, StepKept
  <2> QED BY <1>2, <2>1 DEF StepInv, StepKept
<1>3. ASSUME NEW t \in Tx, Ask(t) PROVE StepInv' /\ LegalMoves
    BY <1>1, <1>2, <1>3, AskIsQuiet, QuietPreserves, QuietKeepsStep, AskKnows
<1>4. ASSUME NEW t \in Tx, WaitOrRefuse(t) PROVE StepInv' /\ LegalMoves
    BY <1>1, <1>2, <1>4, WaitIsQuiet, QuietPreserves, QuietKeepsStep, WaitKnows
<1>5. ASSUME NEW t \in Tx, IInv' /\ KeepsRows(t), End(t), StepKept
      PROVE  StepInv' /\ LegalMoves
  <2>1. InsertAlone(t)'
    BY <1>1, <1>5, NotInserting DEF End, PC
  <2> QED BY <1>2, <1>5, <2>1
<1>6. ASSUME NEW t \in Tx, InsertRide(t) PROVE StepInv' /\ LegalMoves
  <2>1. End(t)
    BY <1>6 DEF InsertRide
  <2>2. InsertAlone(t)
    BY DEF StepInv
  <2> QED BY <1>1, <1>5, <1>6, <2>1, <2>2, InsertRidePreserves, InsertRideSteps
<1>7. ASSUME NEW t \in Tx, IInv' /\ KeepsRows(t), End(t), revived' = revived,
             InStepUnlessLeftBehind' /\ TableMoves
      PROVE  StepInv' /\ LegalMoves
  <2>1. StepKept
    BY <1>1, <1>7, TableMovesAreKept DEF StepKept
  <2> QED BY <1>5, <1>7, <2>1
<1>8. ASSUME NEW t \in Tx, CommitCancelRide(t) PROVE StepInv' /\ LegalMoves
  <2>1. End(t) /\ revived' = revived
    BY <1>8 DEF CommitCancelRide
  <2> QED BY <1>1, <1>7, <1>8, <2>1, CommitCancelRidePreserves, CommitCancelRideSteps
<1>9. ASSUME NEW t \in Tx, CommitCreatePool(t) \/ CommitAddMember(t)
      PROVE  StepInv' /\ LegalMoves
  <2>1. End(t) /\ revived' = revived
    BY <1>9 DEF CommitCreatePool, CommitAddMember
  <2> QED BY <1>1, <1>7, <1>9, <2>1, CommitCreatePoolPreserves, CommitAddMemberPreserves,
          CommitCreatePoolSteps, CommitAddMemberSteps
<1>10. ASSUME NEW t \in Tx, MarkArrived(t) \/ StartTrip(t) \/ CompleteTrip(t)
       PROVE  StepInv' /\ LegalMoves
  <2>1. End(t) /\ pc[t] \in {"arrive", "start", "complete"}
    BY <1>10 DEF MarkArrived, StartTrip, CompleteTrip
  <2>2. req[t].pool \in Pools
    BY <1>1, <2>1, DriverHolds
  <2>3. \E to \in {"DRIVER_ARRIVED", "STARTED", "COMPLETED"} : Advance(req[t].pool, to)
    BY <1>10 DEF MarkArrived, StartTrip, CompleteTrip
  <2>4. InStepUnlessLeftBehind' /\ TableMoves
    BY <1>1, <2>2, <2>3, AdvanceSteps DEF IInv
  <2>5. revived' = revived
    BY <2>3 DEF Advance
  <2> QED BY <1>1, <1>7, <1>10, <2>1, <2>4, <2>5, MarkArrivedPreserves, StartTripPreserves,
          CompleteTripPreserves
<1>11. ASSUME NEW t \in Tx, CancelPool(t) PROVE StepInv' /\ LegalMoves
  <2>1. End(t)
    BY <1>11 DEF CancelPool
  <2> QED BY <1>1, <1>5, <1>11, <2>1, CancelPoolPreserves, CancelPoolSteps
<1>12. ASSUME NEW t \in Tx, CommitOffline(t) PROVE StepInv' /\ LegalMoves
  <2>1. End(t) /\ UNCHANGED <<ride, pool, memb, revived>>
    BY <1>12 DEF CommitOffline, rideRows, poolRows
  <2> QED BY <1>1, <1>5, <1>12, <2>1, UnchangedIsKept, CommitOfflinePreserves
<1>13. ASSUME \/ \E d \in Drivers : GoOnline(d)
              \/ \E p \in Pools : AgeOut(p)
              \/ UNCHANGED vars
       PROVE  StepInv' /\ LegalMoves
  <2>1. UNCHANGED <<ride, pool, memb, revived, pc, req>>
    BY <1>13 DEF GoOnline, AgeOut, rideRows, poolRows, vars, db
  <2>2. IInv'
    BY <1>1, <1>13, OthersPreserve
  <2>3. StepKept
    BY <1>1, <2>1, UnchangedIsKept
  <2>4. ASSUME NEW t \in Tx PROVE InsertAlone(t)'
    BY <2>1 DEF StepInv, InsertAlone
  <2> QED BY <2>2, <2>3, <2>4 DEF StepInv, StepKept
<1> QED
    BY <1>3, <1>4, <1>6, <1>8, <1>9, <1>10, <1>11, <1>12, <1>13
       DEF Next, Proceed, Acquire, WaitOrRefuse

\* The invariant of the argument.
THEOREM StepInvariance == Spec => []StepInv
<1>1. Init => StepInv
  <2> SUFFICES ASSUME Init PROVE StepInv
    OBVIOUS
  <2>1. InStepUnlessLeftBehind /\ OneActiveRideUnlessRevived
    BY DEF Init, InStepUnlessLeftBehind, TripsOf, OneActiveRideUnlessRevived, Rivals,
       ActiveRideStatus, RideStatus, None
  <2>2. \A t \in Tx : InsertAlone(t)
    BY DEF Init, InsertAlone
  <2> QED BY <2>1, <2>2, Initially DEF StepInv
<1>2. StepInv /\ [Next]_vars => StepInv'
    BY EveryStepKeepsStep
<1> QED BY <1>1, <1>2, PTL DEF Spec

\* A ride is where its pool is, unless a cancel left it behind: then it is
\* cancelled, and on a trip that has not started.
THEOREM RidesStayInStep == Spec => []InStepUnlessLeftBehind
<1>1. StepInv => InStepUnlessLeftBehind
    BY DEF StepInv
<1> QED BY <1>1, StepInvariance, PTL

\* Of two active rides of one passenger, one had been cancelled and was put back
\* in the queue by a driver's cancel: the check and the insert of createRide,
\* two statements, let no second ride through.
THEOREM OneRideAtATime == Spec => []OneActiveRideUnlessRevived
<1>1. StepInv => OneActiveRideUnlessRevived
    BY DEF StepInv
<1> QED BY <1>1, StepInvariance, PTL

\* Every change of a ride's status is in the lifecycle table, but the one from
\* CANCELLED to REQUESTED that cancelPool writes for a ride left behind.
THEOREM RidesMoveLegally == Spec => LegalUnlessRevived
<1>1. ASSUME StepInv, [Next]_vars PROVE LegalMoves
    BY <1>1, EveryStepKeepsStep
<1>2. StepInv /\ [Next]_vars =>
          [\A r \in Rides : ride'[r] # ride[r] =>
              \/ LegalStep(r)
              \/ /\ ride[r] = "CANCELLED" /\ ride'[r] = "REQUESTED"
                 /\ \E p \in TripsOf(r) : pool'[p] = "CANCELLED"]_vars
    BY <1>1 DEF LegalMoves
<1> QED BY <1>2, StepInvariance, PTL DEF Spec, LegalUnlessRevived

-----------------------------------------------------------------------------
(* When a cancel settles.                                                  *)

PoolsHeld(t) == {p \in Pools : poolLock[p] = t}

TripsSoFar(r) == {p \in Pools : memb[p][r] # None}

\* A cancel has locked a trip of its ride in every pass, and goes to lock one it
\* has not locked before.
PassOK(t) ==
    /\ pc[t] \in {"loadMembers", "lockTrip"} =>
          /\ req[t].pass <= Cardinality(PoolsHeld(t))
          /\ PoolsHeld(t) \subseteq TripsSoFar(req[t].ride)
    /\ pc[t] = "lockTrip" => req[t].pool \notin PoolsHeld(t)
    /\ pc[t] = "cancelRide" /\ req[t].pool \notin {Null, req[t].held} =>
          Cardinality(TripsSoFar(req[t].ride)) > MaxPass

\* The trips that a cancel holds, apart from the last, are over; so the trip it
\* finds the ride on is that one, or one it does not hold.
LEMMA NextTripIsFree ==
    ASSUME IInv, NEW t \in Tx, TripLocksOK(t), pc[t] = "loadMembers",
           NEW p \in Pools, memb[p][req[t].ride] = "aboard", p # req[t].held
    PROVE  p \notin PoolsHeld(t)
<1>1. req[t].ride \in Rides /\ pool[p] # "CANCELLED"
    BY DEF IInv, RequestOK, ArgumentsOK, RideLabels, RowsOK, MembersOK
<1> QED BY <1>1 DEF TripLocksOK, PoolsHeld

\* What the others hold, and where they are, does not change, and no membership
\* is ever forgotten.
LEMMA OthersPass ==
    ASSUME IInv, IsFiniteSet(Pools), NEW t \in Tx, KeepsOthers(t), KeepsRows(t),
           GivesNoLock(t), NEW s \in Tx \ {t}, PassOK(s)
    PROVE  PassOK(s)'
<1>1. PoolsHeld(s)' = PoolsHeld(s)
    BY DEF PoolsHeld, KeepsOthers, GivesNoLock
<1>2. pc'[s] = pc[s] /\ req'[s] = req[s]
    BY DEF GivesNoLock
<1>3. ASSUME pc[s] \in {"loadMembers", "lockTrip", "cancelRide"}
      PROVE  TripsSoFar(req[s].ride) \subseteq TripsSoFar(req[s].ride)'
  <2>1. req[s].ride \in Rides
    BY <1>3 DEF IInv, RequestOK, ArgumentsOK, RideLabels
  <2> QED BY <1>2, <2>1 DEF TripsSoFar, KeepsRows
<1>4. ASSUME pc[s] = "cancelRide"
      PROVE  /\ Cardinality(TripsSoFar(req[s].ride)) \in Nat
             /\ Cardinality(TripsSoFar(req[s].ride)') \in Nat
             /\ Cardinality(TripsSoFar(req[s].ride)) <= Cardinality(TripsSoFar(req[s].ride)')
  <2>1. /\ IsFiniteSet(TripsSoFar(req[s].ride)')
        /\ IsFiniteSet(TripsSoFar(req[s].ride))
    BY FS_Subset DEF TripsSoFar
  <2> QED BY <1>3, <1>4, <2>1, FS_Subset, FS_CardinalityType
<1> QED BY <1>1, <1>2, <1>3, <1>4 DEF PassOK, MaxPass

\* A cancel starts with no pass done and no trip locked.
LEMMA AskPasses ==
    ASSUME IInv, IsFiniteSet(Pools), NEW t \in Tx, TripLocksOK(t), Ask(t)
    PROVE  PassOK(t)'
<1>0. \A p \in Pools : poolLock[p] = t => pc[t] \in CancelLabels \cup HoldingLabels
    BY DEF TripLocksOK
<1>1. TypeOK
    BY DEF IInv
<1>2. IsFiniteSet(PoolsHeld(t)') /\ Cardinality(PoolsHeld(t)') \in Nat
    BY FS_Subset, FS_CardinalityType DEF PoolsHeld
<1>3. ASSUME NEW label \in PC \ {"loadMembers", "lockTrip", "cancelRide"}, NEW q,
             Goto(t, label, q)
      PROVE  PassOK(t)'
  <2>1. pc'[t] = label
    BY <1>1, <1>3 DEF Goto, TypeOK
  <2> QED BY <2>1 DEF PassOK
<1>4. ASSUME NEW r \in Rides, CancelRide(t, r) PROVE PassOK(t)'
  <2>1. pc'[t] = "loadMembers" /\ req'[t].pass = 0
    BY <1>1, <1>4 DEF CancelRide, Goto, TypeOK, NoRequest
  <2>2. PoolsHeld(t)' = {}
    BY <1>0, <1>4 DEF CancelRide, LocksKept, PoolsHeld, TripLocksOK, CancelLabels, HoldingLabels
  <2> QED BY <1>2, <2>1, <2>2 DEF PassOK
<1>5. ASSUME NEW r \in Rides, CreateRide(t, r) PROVE PassOK(t)'
    BY <1>3, <1>5 DEF CreateRide, PC
<1>6. ASSUME NEW p \in Pools, \/ BeginArrive(t, p) \/ BeginStart(t, p)
                              \/ BeginComplete(t, p) \/ BeginCancelPool(t, p)
      PROVE  PassOK(t)'
    BY <1>3, <1>6 DEF BeginArrive, BeginStart, BeginComplete, BeginCancelPool,
       LockOwnedPool, PC
<1>7. ASSUME NEW p \in Pools, NEW r \in Rides, BeginAddMember(t, p, r)
      PROVE  PassOK(t)'
    BY <1>3, <1>7 DEF BeginAddMember, PC
<1>8. ASSUME NEW d \in Drivers, NEW r \in Rides, BeginCreatePool(t, d, r)
      PROVE  PassOK(t)'
    BY <1>3, <1>8 DEF BeginCreatePool, PC
<1>9. ASSUME NEW d \in Drivers, CheckOffline(t, d) PROVE PassOK(t)'
    BY <1>3, <1>9 DEF CheckOffline, PC
<1> QED BY <1>4, <1>5, <1>6, <1>7, <1>8, <1>9 DEF Ask

\* Each pass adds a trip of the ride to those the cancel holds, so when it gives
\* up on a trip that it does not hold, the ride has been on one more than that.
LEMMA WaitPasses ==
    ASSUME IInv, IsFiniteSet(Pools),
           NEW t \in Tx, TripLocksOK(t), PassOK(t), WaitOrRefuse(t)
    PROVE  PassOK(t)'
<1> USE TxAssumption
<1>1. TypeOK /\ ArgumentsOK(t) /\ req[t] \in Request
    BY DEF IInv, RequestOK, TypeOK
<1>2. IsFiniteSet(PoolsHeld(t)) /\ Cardinality(PoolsHeld(t)) \in Nat
    BY FS_Subset, FS_CardinalityType DEF PoolsHeld
<1>3. ASSUME NEW label \in PC \ {"loadMembers", "lockTrip", "cancelRide"}, NEW q,
             Goto(t, label, q)
      PROVE  PassOK(t)'
  <2>1. pc'[t] = label
    BY <1>1, <1>3 DEF Goto, TypeOK
  <2> QED BY <2>1 DEF PassOK
<1>4. CASE LoadMembers(t)
  <2> DEFINE q      == req[t]
             target == TripOf(q.ride)
             next   == [q EXCEPT !.pool = target]
  <2>1. /\ next.pool = target /\ next.held = q.held /\ next.pass = q.pass
        /\ next.ride = q.ride
    BY <1>1 DEF Request
  <2>2. /\ pc[t] = "loadMembers"
        /\ \/ target \notin {Null, q.held} /\ Goto(t, "lockTrip", next) /\ LocksKept
           \/ /\ target \in {Null, q.held} \/ q.pass = MaxPass
              /\ Goto(t, "cancelRide", next)
           \/ End(t)
        /\ memb' = memb
    BY <1>4 DEF LoadMembers, Settled, db, poolRows
  <2>3. target # Null => target \in Pools /\ memb[target][q.ride] = "aboard"
    BY DEF TripOf, TripsOf
  <2> HIDE DEF next, target
  <2>4. target \notin {Null, q.held} => target \in Pools /\ target \notin PoolsHeld(t)
    BY <2>2, <2>3, NextTripIsFree
  <2>5. CASE target \notin {Null, q.held} /\ Goto(t, "lockTrip", next) /\ LocksKept
    <3>1. pc'[t] = "lockTrip" /\ req'[t] = next /\ PoolsHeld(t)' = PoolsHeld(t)
      BY <1>1, <2>5 DEF Goto, TypeOK, LocksKept, PoolsHeld
    <3>2. TripsSoFar(req[t].ride)' = TripsSoFar(q.ride)
      BY <2>1, <2>2, <3>1 DEF TripsSoFar
    <3> QED BY <2>1, <2>2, <2>4, <2>5, <3>1, <3>2 DEF PassOK
  <2>6. CASE /\ target \in {Null, q.held} \/ q.pass = MaxPass
             /\ Goto(t, "cancelRide", next)
    <3>1. pc'[t] = "cancelRide" /\ req'[t] = next
      BY <1>1, <2>6 DEF Goto, TypeOK
    <3>2. TripsSoFar(req[t].ride)' = TripsSoFar(q.ride)
      BY <2>1, <2>2, <3>1 DEF TripsSoFar
    <3>3. ASSUME target \notin {Null, q.held} PROVE Cardinality(TripsSoFar(q.ride)) > MaxPass
      <4>1. MaxPass <= Cardinality(PoolsHeld(t)) /\ PoolsHeld(t) \subseteq TripsSoFar(q.ride)
        BY <2>2, <2>6, <3>3 DEF PassOK
      <4>2. Cardinality(PoolsHeld(t) \cup {target}) = Cardinality(PoolsHeld(t)) + 1
        BY <1>2, <2>4, <3>3, FS_AddElement
      <4>3. PoolsHeld(t) \cup {target} \subseteq TripsSoFar(q.ride)
        BY <2>3, <3>3, <4>1 DEF TripsSoFar, None
      <4>4. IsFiniteSet(TripsSoFar(q.ride))
        BY FS_Subset DEF TripsSoFar
      <4>5. /\ Cardinality(PoolsHeld(t) \cup {target}) <= Cardinality(TripsSoFar(q.ride))
            /\ Cardinality(TripsSoFar(q.ride)) \in Nat
        BY <4>3, <4>4, FS_Subset, FS_CardinalityType
      <4> QED BY <1>2, <4>1, <4>2, <4>5 DEF MaxPass
    <3>4. req'[t].pool = target /\ req'[t].held = q.held
      BY <2>1, <3>1
    <3> QED BY <3>1, <3>2, <3>3, <3>4 DEF PassOK
  <2>7. CASE End(t)
    BY <1>3, <2>7 DEF End, PC
  <2> QED BY <2>2, <2>5, <2>6, <2>7
<1>5. CASE LockTrip(t)
  <2> DEFINE q    == req[t]
             next == [q EXCEPT !.held = q.pool, !.pool = Null, !.pass = @ + 1,
                               !.seen = ride[q.ride]]
  <2>1. /\ pc[t] = "lockTrip" /\ q.pool \in Pools
        /\ LockPoolRow(t, q.pool) /\ Goto(t, "loadMembers", next) /\ memb' = memb
    BY <1>1, <1>5 DEF LockTrip, ArgumentsOK, PoolLabels, db, poolRows
  <2>2. next.pass = q.pass + 1 /\ q.pass \in Nat /\ next.ride = q.ride
    BY <1>1 DEF Request
  <2> HIDE DEF next
  <2>3. pc'[t] = "loadMembers" /\ req'[t] = next
    BY <1>1, <2>1 DEF Goto, TypeOK
  <2>4. PoolsHeld(t)' = PoolsHeld(t) \cup {q.pool}
    BY <1>1, <2>1 DEF PoolsHeld, LockPoolRow, TypeOK
  <2>5. /\ q.pool \notin PoolsHeld(t) /\ q.pass <= Cardinality(PoolsHeld(t))
        /\ PoolsHeld(t) \subseteq TripsSoFar(q.ride)
    BY <2>1 DEF PassOK
  <2>6. Cardinality(PoolsHeld(t) \cup {q.pool}) = Cardinality(PoolsHeld(t)) + 1
    BY <1>2, <2>5, FS_AddElement
  <2>7. q.pool \in TripsSoFar(q.ride)
    BY <2>1 DEF TripLocksOK, TripsSoFar
  <2>8. TripsSoFar(req[t].ride)' = TripsSoFar(q.ride)
    BY <2>1, <2>2, <2>3 DEF TripsSoFar
  <2> QED BY <1>2, <2>2, <2>3, <2>4, <2>5, <2>6, <2>7, <2>8 DEF PassOK
<1>6. CASE LockDriver(t)
    BY <1>3, <1>6 DEF LockDriver, PC
<1>7. CASE ClaimSeats(t)
    BY <1>3, <1>7 DEF ClaimSeats, PC
<1>8. CASE RollBack(t)
    BY <1>3, <1>8 DEF RollBack, End, PC
<1> QED
    BY <1>4, <1>5, <1>6, <1>7, <1>8
       DEF WaitOrRefuse, RefuseCancelRide, RefuseCreatePool, RefuseClaimSeats,
           RefuseAddMember, RefuseAdvance, Abort

\* The bound on the loop of cancelRide, there "so a bug cannot spin forever", is
\* only ever reached by a cancel whose ride has been on more trips than it allows
\* passes: any other cancel ends up with the trip that it has locked, or none.
THEOREM CancelsSettleInTime ==
    ASSUME IsFiniteSet(Pools)
    PROVE  Spec => []GivesUpOnRestlessRides
<1> DEFINE Passes == \A t \in Tx : PassOK(t)
<1>1. Init => Passes
    BY DEF Init, PassOK
<1>2. LocksInv /\ Passes /\ [Next]_vars => Passes'
  <2> USE DEF LocksInv
  <2> SUFFICES ASSUME LocksInv, Passes, [Next]_vars PROVE Passes'
    OBVIOUS
  <2>1. TypeOK
    BY DEF IInv
  <2>2. ASSUME NEW t \in Tx, Quiet(t) \/ End(t), KeepsRows(t), GivesNoLock(t), PassOK(t)'
        PROVE  Passes'
    <3>1. KeepsOthers(t)
      BY <2>1, <2>2, OthersAreKept
    <3>2. \A s \in Tx \ {t} : PassOK(s)'
      BY <2>2, <3>1, OthersPass
    <3> QED BY <2>2, <3>2
  <2>3. ASSUME NEW t \in Tx, Ask(t) PROVE Passes'
    BY <2>2, <2>3, AskIsQuiet, QuietPreserves, AskHoldsNothingNew, AskPasses
  <2>4. ASSUME NEW t \in Tx, WaitOrRefuse(t) PROVE Passes'
    BY <2>2, <2>4, WaitIsQuiet, QuietPreserves, WaitHoldsDeadTrips, WaitPasses
  <2>5. ASSUME NEW t \in Tx,
               \/ InsertRide(t) \/ CommitCancelRide(t)
               \/ CommitCreatePool(t) \/ CommitAddMember(t)
               \/ MarkArrived(t) \/ StartTrip(t) \/ CompleteTrip(t) \/ CancelPool(t)
               \/ CommitOffline(t)
        PROVE  Passes'
    <3>1. End(t)
      BY <2>5 DEF InsertRide, CommitCancelRide, CommitCreatePool, CommitAddMember,
         MarkArrived, StartTrip, CompleteTrip, CancelPool, CommitOffline
    <3>2. KeepsRows(t)
      BY <2>5, InsertRidePreserves, CommitCancelRidePreserves, CommitCreatePoolPreserves,
         CommitAddMemberPreserves, MarkArrivedPreserves, StartTripPreserves,
         CompleteTripPreserves, CancelPoolPreserves, CommitOfflinePreserves
    <3>3. pc'[t] = "idle"
      BY <2>1, <3>1 DEF End, Goto, TypeOK
    <3>4. PassOK(t)'
      BY <3>3 DEF PassOK
    <3> QED BY <2>2, <3>1, <3>2, <3>4, EndHoldsNothing
  <2>6. ASSUME \/ \E d \in Drivers : GoOnline(d)
               \/ \E p \in Pools : AgeOut(p)
               \/ UNCHANGED vars
        PROVE  Passes'
    <3>1. UNCHANGED <<pc, req, poolLock, memb>>
      BY <2>6 DEF GoOnline, AgeOut, vars, db, poolRows
    <3> QED BY <3>1 DEF PassOK, PoolsHeld, TripsSoFar
  <2> QED BY <2>3, <2>4, <2>5, <2>6 DEF Next, Proceed, Acquire, WaitOrRefuse
<1>3. Passes => GivesUpOnRestlessRides
    BY DEF PassOK, GivesUpOnRestlessRides, TripsSoFar
<1> QED BY <1>1, <1>2, <1>3, LockInvariance, PTL DEF Spec
=============================================================================
