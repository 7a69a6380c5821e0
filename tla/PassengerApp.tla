---------------------------- MODULE PassengerApp ----------------------------
(***************************************************************************)
(* One passenger's screen (frontend/src/app/passenger/page.tsx) against    *)
(* the rides of that passenger in the database: what the query cache       *)
(* keeps, the fetches and mutations in flight, and everything that moves   *)
(* the rides meanwhile: drivers, companions and the passenger's other      *)
(* devices.  An answer is put into the cache when it arrives, however old  *)
(* it is by then.                                                          *)
(*                                                                         *)
(* The requests of drivers are atomic here; how they interleave with       *)
(* creating and cancelling is TeslaPool's.  The page of a hidden tab is    *)
(* one that does not take its polls.                                       *)
(***************************************************************************)
EXTENDS Lifecycle, Integers, Sequences, FiniteSetsExt

CONSTANTS
    PageSize,   \* /rides/mine?limit=
    Past,       \* how many rides the passenger has behind them
    MaxRides,   \* bound: how many rides there ever are
    MaxFaults   \* bound: how many requests fail

ASSUME AppAssumption ==
    /\ MaxRides \in Nat /\ Past \in 0..MaxRides
    /\ PageSize \in Nat \ {0} /\ MaxFaults \in Nat

VARIABLES
    rides,      \* the passenger's rows, by id: status, and is the pool shared
    mine,       \* the cache of useMyRides
    listing,    \* its fetch
    detail,     \* the cache of useRide, by id
    look,       \* the fetch of the ride on the screen
    calls,      \* the mutation in flight of each kind
    open,       \* is the passenger's page open
    justCreated,
    faults

vars == <<rides, mine, listing, detail, look, calls, open, justCreated, faults>>

RideIds == 1..MaxRides
NoRide == 0
Fares == {None, "solo", "pooled"}
View == [status : RideStatus \cup {None}, fare : Fares, shared : BOOLEAN]
NoView == [status |-> None, fare |-> None, shared |-> FALSE]
Row == [status : RideStatus \cup {None}, final : Fares]
NoRow == [status |-> None, final |-> None]
Entry == [id : RideIds, live : BOOLEAN]

\* Fetches: not running, sent, half way, when the first SELECT has been answered.
Idle == [pc |-> "idle", row |-> NoRow]
Sent == [Idle EXCEPT !.pc = "sent"]
ListIdle == [pc |-> "idle", rows |-> <<>>]
ListSent == [ListIdle EXCEPT !.pc = "sent"]

Kinds == {"create", "cancel"}
NoCall == [pc |-> None, ride |-> NoRide, view |-> NoView, own |-> FALSE, heard |-> FALSE]

Init ==
    /\ rides = [r \in 1..Past |-> [status |-> "CANCELLED", shared |-> FALSE]]
    /\ mine = [loaded |-> FALSE, err |-> FALSE, rows |-> <<>>]
    /\ listing = ListIdle
    /\ detail = [r \in RideIds |-> [view |-> NoView, err |-> FALSE]]
    /\ look = Idle
    /\ calls = [k \in Kinds |-> NoCall]
    /\ open = FALSE
    /\ justCreated = NoRide
    /\ faults = 0

-----------------------------------------------------------------------------
\* What the API answers.

Over(status) == status \in TerminalRideStatus

Ongoing == {r \in DOMAIN rides : rides[r].status \in ActiveRideStatus}

\* Mutant of LiveStatus: a ride that has started is not polled.
UntilDeparture == {"REQUESTED", "MATCHED", "DRIVER_ARRIVED"}

\* isLiveRide, of the browser.
LiveStatus == {"REQUESTED", "MATCHED", "DRIVER_ARRIVED", "STARTED"}

Listed(r) == [id |-> r, live |-> rides[r].status \in LiveStatus]

\* Mutant of ListRides: oldest first.
ListOldestFirst == [i \in 1..Min({PageSize, Len(rides)}) |-> Listed(i)]

\* The newest PageSize of the rides, newest first; of their statuses, what the page
\* makes of them.
ListRides == [i \in 1..Min({PageSize, Len(rides)}) |-> Listed(Len(rides) + 1 - i)]

FareOf(shared) == IF shared THEN "pooled" ELSE "solo"

\* The row of a ride: the fare it starts at stays its fare.
RideRow(r) ==
    [status |-> rides[r].status,
     final  |-> IF rides[r].status = "COMPLETED" THEN FareOf(rides[r].shared)
                ELSE None]

\* getRideForPassenger: a row and memberships that may have been read at different
\* times.  Of a live ride only the status is kept here.
Detail(row, shared) ==
    IF row.status \in ActiveRideStatus THEN [NoView EXCEPT !.status = row.status]
    ELSE [status |-> row.status,
          fare   |-> IF row.final # None THEN row.final ELSE FareOf(shared),
          shared |-> shared]

Truth(r) == Detail(RideRow(r), rides[r].shared)

-----------------------------------------------------------------------------
\* What the page shows.

\* Mutant of CANCELLABLE: cancelling is offered for as long as the ride is live.
CancellableWhileLive == LiveStatus

CANCELLABLE == {"REQUESTED", "MATCHED", "DRIVER_ARRIVED"}

\* The first live ride of the cached list.
ActiveRide ==
    LET live == {i \in DOMAIN mine.rows : mine.rows[i].live}
    IN  IF live = {} THEN NoRide ELSE mine.rows[Min(live)].id

\* The ride on the screen, in place of the form or of an error.
Shown ==
    IF ~open \/ mine.err THEN NoRide
    ELSE IF ActiveRide # NoRide THEN ActiveRide ELSE justCreated

FormShown == open /\ mine.loaded /\ ~mine.err /\ Shown = NoRide

ViewShown ==
    Shown # NoRide /\ detail[Shown].view # NoView /\ ~detail[Shown].err

\* useRide polls until it has seen the ride end.
Polled(r) == detail[r].view = NoView \/ detail[r].view.status \in LiveStatus

-----------------------------------------------------------------------------
\* Rendering after a change of state.

\* Mutant of Rendered: a fetch goes on when its ride has left the screen.
NeverAborted(l) == IF Shown' \notin {Shown, NoRide} THEN Sent ELSE l

\* The fetch of the ride on the screen: aborted when its ride is not shown any
\* more, sent when another comes on.
Rendered(l) ==
    IF Shown' = NoRide THEN Idle ELSE IF Shown' # Shown THEN Sent ELSE l

\* The components that started the mutations c, if they are still there: the
\* form of a create, the view of a cancel.
Owned(c) ==
    [k \in Kinds |->
        [c[k] EXCEPT !.own = @ /\ IF k = "create" THEN FormShown' ELSE ViewShown']]

\* Mutant of Refetch: a fetch in flight is left to arrive.
LeaveInFlight(pc, loaded) == pc = "idle"

\* invalidateQueries fetches again what is mounted; it cancels a fetch in flight
\* unless that is the first.
Refetch(pc, loaded) == pc = "idle" \/ loaded

Invalidated ==
    /\ listing' = IF open /\ Refetch(listing.pc, mine.loaded) THEN ListSent ELSE listing
    /\ look' = Rendered(IF Shown # NoRide /\ Refetch(look.pc, detail'[Shown].view # NoView)
                        THEN Sent ELSE look)

-----------------------------------------------------------------------------
\* Coming and going.

Open ==
    /\ ~open
    /\ open' = TRUE
    /\ listing' = ListSent
    /\ UNCHANGED <<rides, mine, detail, calls, justCreated, faults>>
    /\ look' = Rendered(look)

\* refetchOnWindowFocus, when the tab has been hidden and is shown again.
Focus ==
    /\ open
    /\ listing' = IF listing.pc = "idle" THEN ListSent ELSE listing
    /\ look' = IF Shown # NoRide /\ look.pc = "idle" THEN Sent ELSE look
    /\ UNCHANGED <<rides, mine, detail, calls, open, justCreated, faults>>

\* To another page of the application: fetches are aborted, the state of the page
\* is lost, the cache and the mutations stay.
Close ==
    /\ open
    /\ open' = FALSE
    /\ justCreated' = NoRide
    /\ listing' = ListIdle
    /\ UNCHANGED <<rides, mine, detail, faults>>
    /\ look' = Rendered(look)
    /\ calls' = Owned(calls)

-----------------------------------------------------------------------------
\* useMyRides.

ReadList ==
    /\ listing.pc = "sent"
    /\ listing' = [pc |-> "read", rows |-> ListRides]
    /\ UNCHANGED <<rides, mine, detail, look, calls, open, justCreated, faults>>

DeliverList ==
    /\ listing.pc = "read"
    /\ mine' = [loaded |-> TRUE, err |-> FALSE, rows |-> listing.rows]
    /\ UNCHANGED <<rides, detail, open, justCreated, faults>>
    /\ listing' = ListIdle
    /\ look' = Rendered(look)
    /\ calls' = Owned(calls)

\* The last retry has failed too.
GiveUpList ==
    /\ listing.pc = "sent" /\ faults < MaxFaults
    /\ mine' = [mine EXCEPT !.err = TRUE]
    /\ faults' = faults + 1
    /\ UNCHANGED <<rides, detail, open, justCreated>>
    /\ listing' = ListIdle
    /\ look' = Rendered(look)
    /\ calls' = Owned(calls)

-----------------------------------------------------------------------------
\* useRide.

Poll ==
    /\ Shown # NoRide /\ look.pc = "idle"
    /\ Polled(Shown)
    /\ look' = Sent
    /\ UNCHANGED <<rides, mine, listing, detail, calls, open, justCreated, faults>>

ReadRow ==
    /\ look.pc = "sent"
    /\ look' = [pc |-> "row", row |-> RideRow(Shown)]
    /\ UNCHANGED <<rides, mine, listing, detail, calls, open, justCreated, faults>>

\* The memberships are read and the answer arrives.
Deliver ==
    /\ look.pc = "row"
    /\ detail' = [detail EXCEPT ![Shown] =
                    [view |-> Detail(look.row, rides[Shown].shared), err |-> FALSE]]
    /\ look' = Idle
    /\ UNCHANGED <<rides, mine, listing, calls, open, justCreated, faults>>

GiveUp ==
    /\ look.pc = "sent" /\ faults < MaxFaults
    /\ detail' = [detail EXCEPT ![Shown].err = TRUE]
    /\ look' = Idle
    /\ faults' = faults + 1
    /\ UNCHANGED <<rides, mine, listing, open, justCreated>>
    /\ calls' = Owned(calls)

-----------------------------------------------------------------------------
\* Asking for a ride and cancelling it.  A button does nothing while its own
\* mutation is pending.

Send(kind, r, view) ==
    /\ calls[kind] = NoCall
    /\ calls' = [calls EXCEPT ![kind] = [pc |-> "sent", ride |-> r, view |-> view,
                                        own |-> TRUE, heard |-> TRUE]]
    /\ UNCHANGED <<rides, mine, listing, detail, look, open, justCreated, faults>>

AskForRide == FormShown /\ Send("create", NoRide, NoView)

AskToCancel ==
    /\ ViewShown /\ detail[Shown].view.status \in CANCELLABLE
    /\ Send("cancel", Shown, detail[Shown].view)

NewRide == [status |-> "REQUESTED", shared |-> FALSE]

\* createRide up to its commit.
CreateRide ==
    /\ calls.create.pc = "sent"
    /\ IF Ongoing # {}
       THEN /\ calls' = [calls EXCEPT !.create.pc = "refused"]
            /\ UNCHANGED rides
       ELSE /\ Len(rides) < MaxRides
            /\ rides' = Append(rides, NewRide)
            /\ calls' = [calls EXCEPT !.create.pc = "made", !.create.ride = Len(rides) + 1]
    /\ UNCHANGED <<mine, listing, detail, look, open, justCreated, faults>>

\* ... and its last read.
ReadCreated ==
    /\ calls.create.pc = "made"
    /\ calls' = [calls EXCEPT !.create.pc = "ok", !.create.view = Truth(calls.create.ride)]
    /\ UNCHANGED <<rides, mine, listing, detail, look, open, justCreated, faults>>

Cancelled == [status |-> "CANCELLED", shared |-> FALSE]

\* Mutant of CancelledView: the ride as it was found, with its new status.
FoundView(r) == [Truth(r) EXCEPT !.status = "CANCELLED"]

\* cancelRide answers what it reads after its commit.
CancelledView(r) == Detail([status |-> "CANCELLED", final |-> None], FALSE)

CancelRide ==
    /\ calls.cancel.pc = "sent"
    /\ LET r == calls.cancel.ride IN
       IF CanTransitionRide(rides[r].status, "CANCELLED", "PASSENGER")
       THEN /\ rides' = [rides EXCEPT ![r] = Cancelled]
            /\ calls' = [calls EXCEPT !.cancel.pc = "ok", !.cancel.view = CancelledView(r)]
       ELSE /\ calls' = [calls EXCEPT !.cancel.pc = "refused"]
            /\ UNCHANGED rides
    /\ UNCHANGED <<mine, listing, detail, look, open, justCreated, faults>>

\* onSuccess: the answer goes into the cache of the ride, all caches of rides are
\* invalidated, and the form that asked hands the new ride to the page.
Succeed(k) ==
    /\ calls[k].pc = "ok" /\ calls[k].heard
    /\ detail' = [detail EXCEPT ![calls[k].ride] = [view |-> calls[k].view, err |-> FALSE]]
    /\ justCreated' = IF k = "create" /\ calls[k].own THEN calls[k].ride
                      ELSE justCreated
    /\ UNCHANGED <<rides, mine, open, faults>>
    /\ Invalidated
    /\ calls' = Owned([calls EXCEPT ![k] = NoCall])

\* An error is shown by the component that asked; nothing is fetched again.
Fail(k) ==
    /\ calls[k].pc = "refused" /\ calls[k].heard
    /\ calls' = [calls EXCEPT ![k] = NoCall]
    /\ UNCHANGED <<rides, mine, listing, detail, look, open, justCreated, faults>>

\* The connection or the proxy fails: an error for the page, while the API may
\* still be at work on the request.
LoseAnswer(k) ==
    /\ calls[k].heard /\ faults < MaxFaults
    /\ calls' = [calls EXCEPT ![k].heard = FALSE, ![k].own = FALSE]
    /\ faults' = faults + 1
    /\ UNCHANGED <<rides, mine, listing, detail, look, open, justCreated>>

\* A lost request never reached the API, or it is done.
Forget(k) ==
    /\ calls[k] # NoCall /\ ~calls[k].heard
    /\ calls' = [calls EXCEPT ![k] = NoCall]
    /\ UNCHANGED <<rides, mine, listing, detail, look, open, justCreated, faults>>

-----------------------------------------------------------------------------
\* What others do to the rides.

Becomes(r, row) ==
    /\ rides' = [rides EXCEPT ![r] = row]
    /\ UNCHANGED <<mine, listing, detail, look, calls, open, justCreated, faults>>

\* The driver of the ride.
Drive(r) ==
    \E to \in RideStatus \ {"CANCELLED"} :
        /\ \E actor \in {"DRIVER", "SYSTEM"} : CanTransitionRide(rides[r].status, to, actor)
        /\ \E shared \in BOOLEAN :
              /\ to = "REQUESTED" => ~shared
              /\ to \notin {"REQUESTED", "MATCHED"} => shared = rides[r].shared
              /\ Becomes(r, [status |-> to, shared |-> shared])

\* Another passenger joins, or the last one leaves.
Company(r) ==
    /\ \/ rides[r].status = "MATCHED" /\ ~rides[r].shared
       \/ rides[r].status \in {"MATCHED", "DRIVER_ARRIVED"} /\ rides[r].shared
    /\ Becomes(r, [rides[r] EXCEPT !.shared = ~@])

\* The passenger's other devices.
Elsewhere ==
    \/ /\ Ongoing = {} /\ Len(rides) < MaxRides
       /\ rides' = Append(rides, NewRide)
       /\ UNCHANGED <<mine, listing, detail, look, calls, open, justCreated, faults>>
    \/ \E r \in Ongoing :
          /\ CanTransitionRide(rides[r].status, "CANCELLED", "PASSENGER")
          /\ Becomes(r, Cancelled)

Next ==
    \/ Open \/ Focus \/ Close
    \/ ReadList \/ DeliverList \/ GiveUpList
    \/ Poll \/ ReadRow \/ Deliver \/ GiveUp
    \/ AskForRide \/ CreateRide \/ ReadCreated
    \/ AskToCancel \/ CancelRide
    \/ \E k \in Kinds : Succeed(k) \/ Fail(k) \/ LoseAnswer(k) \/ Forget(k)
    \/ \E r \in Ongoing : Drive(r) \/ Company(r)
    \/ Elsewhere

Spec == Init /\ [][Next]_vars

\* The browser's timers fire while the page is visible, and a fetch is answered.
FairSpec == Spec /\ WF_vars(Poll) /\ WF_vars(ReadRow) /\ WF_vars(Deliver)

-----------------------------------------------------------------------------
AppTypeOK ==
    /\ rides \in Seq([status : RideStatus, shared : BOOLEAN]) /\ Len(rides) <= MaxRides
    /\ mine \in [loaded : BOOLEAN, err : BOOLEAN, rows : Seq(Entry)]
    /\ listing \in [pc : {"idle", "sent", "read"}, rows : Seq(Entry)]
    /\ listing.pc # "idle" => open
    /\ detail \in [RideIds -> [view : View, err : BOOLEAN]]
    /\ look \in [pc : {"idle", "sent", "row"}, row : Row]
    /\ look.pc # "idle" => Shown # NoRide
    /\ calls \in [Kinds -> [pc : {None, "sent", "made", "ok", "refused"},
                            ride : RideIds \cup {NoRide}, view : View,
                            own : BOOLEAN, heard : BOOLEAN]]
    /\ open \in BOOLEAN
    /\ justCreated \in RideIds \cup {NoRide}
    /\ faults \in 0..MaxFaults

\* A ride that the cache has seen ended is never fetched again by itself, so what
\* it then says must be true for good: the status, the fare and the company, read
\* by several statements, are those of the database (rides.service.ts:226,
\* use-rides.ts:68).
ReceiptIsFinal ==
    \A r \in RideIds : Over(detail[r].view.status) => detail[r].view = Truth(r)

\* A ride that the page has shown as over does not come back to life, whatever
\* answer is still in flight, except by the late answer of its own creation,
\* which then is fetched again at once (use-rides.ts:96, 111).
OverStaysOver ==
    [][\A r \in RideIds :
          Over(detail[r].view.status) /\ ~Over(detail'[r].view.status)
              => /\ calls.create.pc = "ok" /\ calls.create.ride = r
                 /\ Shown' = r => look' = Sent]_vars

\* Cancelling is only refused if the ride has moved on since the page offered it
\* (active-ride.tsx:12).
RefusedOnlyIfMoved ==
    [][calls.cancel.pc = "sent" /\ calls'.cancel.pc = "refused"
          => rides[calls.cancel.ride].status # calls.cancel.view.status]_vars

\* A list as the API answers it now leads the page to the live ride, however many
\* rides came before it (use-rides.ts:121, rides.service.ts:175).
LiveRideIsFound ==
    \A r \in Ongoing :
        (open /\ mine.loaded /\ ~mine.err /\ mine.rows = ListRides) => Shown = r

\* A page that shows a ride which has ended comes to see that it has ended, as
\* long as it stays visible (use-rides.ts:76).
EndIsShown ==
    (Shown \in DOMAIN rides /\ Over(rides[Shown].status))
        ~> (Shown = NoRide \/ Over(detail[Shown].view.status))

\* "Which of those is showing is decided by whether a live ride exists, not by
\* navigation" (passenger/page.tsx:17): a page that knows everything and waits for
\* nothing shows the form when no ride is live.
FormComesBack ==
    (/\ open /\ mine.loaded /\ ~mine.err /\ mine.rows = ListRides
     /\ listing.pc = "idle" /\ look.pc = "idle"
     /\ \A k \in Kinds : calls[k] = NoCall
     /\ Ongoing = {})
        => FormShown
=============================================================================
