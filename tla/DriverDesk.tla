----------------------------- MODULE DriverDesk -----------------------------
(***************************************************************************)
(* A driver at work: the board of open requests that driver.service.ts     *)
(* lists and the browser shows, the trip in progress, and the standing     *)
(* that suspends a driver who cancels too often (cancellations.ts).  The   *)
(* fares are those of PoolFares, whose actions are parts of these.         *)
(*                                                                         *)
(* Every request of the API is one step; how they interleave is            *)
(* TeslaPool's.  What the browser keeps from its last poll grows old while *)
(* passengers come and go, other clients of the driver act and time        *)
(* passes.                                                                 *)
(***************************************************************************)
EXTENDS PoolFares, Matching

CONSTANTS Pickup, Bearing, Capacity,
          FeedLimit,    \* how many requests a poll lists
          CancelLimit,  \* DRIVER_CANCEL_LIMIT
          Window,       \* DRIVER_CANCEL_WINDOW_HOURS, in ticks
          MaxClock      \* bound: the last tick

ASSUME DeskAssumption ==
    /\ Rides \subseteq Nat         \* in the order of requested_at
    /\ Bearing \in [Rides -> Degrees]
    /\ Capacity \in Nat /\ FeedLimit \in Nat \ {0} /\ CancelLimit \in Nat \ {0}
    /\ Window \in Nat \ {0} /\ MaxClock \in Nat

VARIABLES status,       \* the driver's active pool: its status, or none
          area,         \* its pickup area
          dropped,      \* rides in a pool that this driver cancelled
          calledOff,    \* the cancelled_at of those pools, oldest first
          clock,
          online,       \* vehicles.is_online
          notice        \* what the browser last heard of its standing

trip == <<status, area, dropped, calledOff>>
deskVars == <<vars, trip, clock, online, notice>>

None == "none"
Never == -1
NoNotice == [known |-> FALSE, used |-> 0, until |-> Never, counted |-> 0]

DeskTypeOK ==
    /\ at \in [Rides -> {"none", "waiting", "aboard", "left", "done"}]
    /\ status \in {None, "FORMING", "DRIVER_ARRIVED", "STARTED"}
    /\ started <=> status = "STARTED"
    /\ area \in {None} \cup {Pickup[r] : r \in Rides}
    /\ dropped \in SUBSET Rides
    /\ calledOff \in Seq(0..MaxClock)
    /\ clock \in 0..MaxClock
    /\ online \in BOOLEAN
    /\ notice \in [known : BOOLEAN, used : Nat, until : {Never} \cup Nat, counted : Nat]

DeskInit ==
    /\ Init
    /\ status = None /\ area = None
    /\ dropped = {} /\ calledOff = <<>>
    /\ clock = 0 /\ online = FALSE
    /\ notice = NoNotice

-----------------------------------------------------------------------------
\* The standing of the driver.

\* Mutant of InWindow: the boundary is left out.
InsideWindow(c, t) == c > t - Window

InWindow(c, t) == c >= t - Window

\* getCancellationStanding at time t: how many cancellations are in the window,
\* and once they reach the limit, when the limit-th newest leaves it.  Cancellations
\* are recorded in order of time, so the newest are the last.
StandingOf(cancelled, t) ==
    LET recent == {i \in DOMAIN cancelled : InWindow(cancelled[i], t)}
        used == Cardinality(recent)
        pivot == cancelled[Len(cancelled) - CancelLimit + 1]
    IN  [used  |-> used,
         until |-> IF used >= CancelLimit THEN pivot + Window ELSE Never]

Standing == StandingOf(calledOff, clock)

Suspended == Standing.until # Never

-----------------------------------------------------------------------------
\* What the API answers and allows.

SeatsTaken == MapThenSumSet(LAMBDA r : Seats[r], Aboard)

\* The query of the board: REQUESTED, and in no pool that carries it now or that
\* this driver cancelled.
OnOffer(r) == at[r] = "waiting" /\ r \notin dropped

Oldest(requests) ==
    {r \in requests : Cardinality({s \in requests : s < r}) < FeedLimit}

\* Mutant of Listed: the requests the driver dropped come back to the board.
ListedAgain == Oldest({r \in Rides : at[r] = "waiting"})

\* The oldest FeedLimit of the open requests.
Listed == Oldest({r \in Rides : OnOffer(r)})

Trip == [status |-> status, area |-> area, free |-> Capacity - SeatsTaken,
         bearings |-> {Bearing[m] : m \in Aboard}]

Candidate(r) == [area |-> Pickup[r], seats |-> Seats[r], bearing |-> Bearing[r]]

\* The poolable verdict of a listed request: against the trip in progress, or
\* against an empty vehicle.
CardVerdict(r) ==
    IF status # None THEN Verdict(Trip, Candidate(r))
    ELSE [eligible |-> Seats[r] <= Capacity,
          reason   |-> IF Seats[r] <= Capacity THEN "none" ELSE "NOT_ENOUGH_SEATS",
          diff     |-> {}]

\* A card of the board: can its button be pressed, does the button start a trip
\* or add to it, the degrees off the route, the shared price from the stored
\* distance, and the price alone.
Card(r) ==
    [button |-> CardVerdict(r).eligible /\ ~Suspended,
     starts |-> status = None,
     off    |-> CardVerdict(r).diff,
     pooled |-> CalculateFare(KmToMilliKm(ToFixed3(distanceKm[r])), Seats[r], TRUE),
     alone  |-> estimated[r]]

\* loadRideForMatching, and assertNotDroppedByDriver.
Matchable(r) == at[r] = "waiting"
NotDropped(r) == r \notin dropped

\* The checks of createPool and addMemberToPool.
MayCreatePool(r) ==
    online /\ status = None /\ ~Suspended /\ Matchable(r) /\ NotDropped(r)
    /\ Seats[r] <= Capacity

MayAddMember(r) ==
    online /\ status # None /\ Matchable(r) /\ NotDropped(r)
    /\ Verdict(Trip, Candidate(r)).eligible

-----------------------------------------------------------------------------
\* Passengers, and other drivers.

RequestRide(r) ==
    /\ \A s \in Rides : s < r => at[s] # "none"
    /\ CreateRide(r)
    /\ UNCHANGED <<trip, clock, online, notice>>

GoElsewhere(r) ==
    /\ Withdraw(r) \/ Leave(r)
    /\ UNCHANGED <<trip, clock, online, notice>>

-----------------------------------------------------------------------------
\* The driver.

CreatePool(r) ==
    /\ MayCreatePool(r)
    /\ Join(r)
    /\ status' = "FORMING" /\ area' = Pickup[r]
    /\ UNCHANGED <<dropped, calledOff, clock, online, notice>>

AddMember(r) ==
    /\ MayAddMember(r)
    /\ Join(r)
    /\ UNCHANGED <<trip, clock, online, notice>>

MarkArrived ==
    /\ status = "FORMING"
    /\ status' = "DRIVER_ARRIVED"
    /\ UNCHANGED <<vars, area, dropped, calledOff, clock, online, notice>>

StartTrip ==
    /\ status = "DRIVER_ARRIVED"
    /\ Start
    /\ status' = "STARTED"
    /\ UNCHANGED <<area, dropped, calledOff, clock, online, notice>>

\* Mutant of CompleteTrip: the pool row keeps its status.
CompleteRidesOnly ==
    /\ status = "STARTED"
    /\ Complete
    /\ UNCHANGED <<trip, clock, online, notice>>

CompleteTrip ==
    /\ status = "STARTED"
    /\ Complete
    /\ status' = None /\ area' = None
    /\ UNCHANGED <<dropped, calledOff, clock, online, notice>>

CancelPool ==
    /\ status \in {"FORMING", "DRIVER_ARRIVED"}
    /\ CallOff
    /\ status' = None /\ area' = None
    /\ dropped' = dropped \cup Aboard
    /\ calledOff' = Append(calledOff, clock)
    /\ UNCHANGED <<clock, online, notice>>

\* setOnlineStatus, taken in one step.
SetOnline(to) ==
    /\ to \/ status = None
    /\ online' = to
    /\ UNCHANGED <<vars, trip, clock, notice>>

\* The browser polls the board while the vehicle is online and keeps the answer,
\* also when polling stops.
Poll ==
    /\ online
    /\ notice' = [known |-> TRUE, used |-> Standing.used, until |-> Standing.until,
                  counted |-> Len(calledOff)]
    /\ UNCHANGED <<vars, trip, clock, online>>

Tick ==
    /\ clock < MaxClock
    /\ clock' = clock + 1
    /\ UNCHANGED <<vars, trip, online, notice>>

DeskNext ==
    \/ \E r \in Rides : RequestRide(r) \/ GoElsewhere(r) \/ CreatePool(r) \/ AddMember(r)
    \/ MarkArrived \/ StartTrip \/ CompleteTrip \/ CancelPool
    \/ \E to \in BOOLEAN : SetOnline(to)
    \/ Poll \/ Tick

DeskSpec == DeskInit /\ [][DeskNext]_deskVars

-----------------------------------------------------------------------------
\* What the screen says.

\* Mutant of CancelHintWarns: this cancellation itself is not counted.
HintTooLate == notice.used >= CancelLimit

\* The question before a cancellation says that it will suspend the driver.
CancelHintWarns == notice.used + 1 >= CancelLimit

\* CancellationNotice: accepting comes back at the announced instant.
SaysSuspended(t) == t <= notice.until

\* Two bearings are the same way when turning from one by at most the threshold,
\* left or right, reaches the other.
SameWay(a, b) == \E turn \in -MaxBearingDiff..MaxBearingDiff : (a + turn + 360) % 360 = b

\* Everyone aboard was picked up in one area and goes the same way as everyone
\* else, however the pool was put together and whoever left it again, also
\* across north (matching.ts:101, geo.ts:77); and nobody is refused for a route
\* that is the same way as everyone's.
Corridor ==
    /\ \A r, s \in Aboard : Pickup[r] = area /\ SameWay(Bearing[r], Bearing[s])
    /\ \A r \in Rides :
          status # None /\ CardVerdict(r).reason = "ROUTE_NOT_COMPATIBLE"
              => \E m \in Aboard : ~SameWay(Bearing[m], Bearing[r])

\* The board and the API agree: the button of a card that has just been listed
\* can be pressed exactly if the API accepts the request, the degrees it shows
\* are then within the threshold, and it names the prices the passenger was
\* quoted.  A request the API would accept is missing
\* only if the list is full of older ones (driver.service.ts:130).  In
\* particular a suspended driver has no trip to add to, whose buttons the board
\* disables though addMemberToPool does not ask (request-board.tsx:62).
BoardAgrees ==
    \A r \in Rides :
        LET accepted == IF Card(r).starts THEN MayCreatePool(r) ELSE MayAddMember(r) IN
        /\ online /\ r \in Listed =>
              /\ Card(r).button <=> accepted
              /\ Card(r).button => \A d \in Card(r).off : d <= MaxBearingDiff
              /\ Card(r).pooled = quoted[r].pooled /\ Card(r).alone = quoted[r].solo
        /\ accepted /\ r \notin Listed => Cardinality(Listed) = FeedLimit

\* What the notice says of the suspension remains true until the driver cancels
\* again, however old it gets: accepting is refused up to the announced instant
\* and possible after it, and not refused at all if none was announced
\* (cancellations.ts:61, driver/page.tsx:101).
NoticeHolds ==
    notice.known /\ notice.counted = Len(calledOff)
        => (Suspended <=> SaysSuspended(clock))

\* The last cancellation before a suspension does not come as a surprise: with a
\* notice that has counted every cancellation, if cancelling now would suspend
\* the driver then the question says so, although some of what the notice
\* counted may have left the window (active-trip.tsx:310).
Warned ==
    notice.known /\ notice.counted = Len(calledOff) /\ status \in {"FORMING", "DRIVER_ARRIVED"}
    /\ StandingOf(Append(calledOff, clock), clock).until # Never
        => CancelHintWarns
=============================================================================
