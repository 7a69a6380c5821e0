# Dhaka Tesla Pool: a verification of the pooling service

The program is a ride-pooling service: an Express API (`backend/`) over one
MySQL database reached through Prisma, and a Next.js web client (`frontend/`).
Passengers request rides; drivers accept them into *pools*, one vehicle's trip,
and drive the pools through arrive, start and complete, or cancel them. The API
keeps no state of its own: everything that matters is a row, every operation is a
transaction, and correctness rests on row locks, isolation levels and conditional
updates. The client keeps a cache of answers, and what it shows rests on what it
puts there and when it asks again. These two are what the modules here are about.

## Inventory

| Component | State | Operations | What is hard | What makes it correct |
|---|---|---|---|---|
| Lifecycle tables (`domain/status.ts`, `domain/transitions.ts`) | none (tables) | `canTransition*`, `assert*Transition`, `requeueStatusFor` | two machines that must move in step | only table transitions happen, by the actor the table names |
| Rides (`modules/rides/rides.service.ts`) | `ride_requests` | `createRide`, `cancelRide`, reads | two requests of one passenger; a cancel racing an accept, a start, a requeue; a look-up that is two SELECTs | one active ride per passenger; a cancelled ride is not carried or charged |
| Pools: accept and join (`modules/pools/pool.service.ts`) | `pools`, `pool_members` | `createPool`, `addMemberToPool` | last seat; two drivers, one request; read views older than a lock | seats never oversold; one trip per ride; counter = sum of members |
| Pools: driving (`modules/pools/pool.lifecycle.ts`) | `pools`, `ride_requests`, `pool_members` | `markArrived`, `startTrip`, `completeTrip`, `cancelPool` | members leave while the driver acts | members and pool move together; called-off members return to the queue |
| Fares (`modules/pools/pool.fares.ts`) | `pool_members.fare_paisa`, `ride_requests.final_fare_paisa` | `recalculatePoolFares`, `lockPoolFares` | repricing from a stale member list | fares fit the company; once locked they never move |
| Payments (`modules/pools/pool.payments.ts`) | `payments`, `wallets`, `wallet_transactions` | `createPendingPayments`, `settlePoolPayments` | two debits of one wallet; a shortfall of one of several | no overdraft; wallet + ledger constant; one story of status, fare and charge |
| Availability and the board (`modules/driver/driver.service.ts`) | `vehicles.is_online` | `setOnlineStatus`, the feed of open requests with verdict and prices | check and update in two statements; the filters of the feed are a second copy of the checks of the accept | a button that is offered is accepted, and nothing acceptable is missing |
| Cancellation rules (`modules/driver/cancellations.ts`) | derived from `pools`, `pool_members` | standing, suspension, dropped passengers | rolling window, boundary instants, stale reads | a driver is not offered whom they dropped; a suspension ends when it says |
| Locks (`lib/locks.ts`) | InnoDB row locks | `lockPool`, `MEMBERSHIP_TRANSACTION` | lock order | no deadlock among membership changes |
| Matching, geography (`domain/matching.ts`, `lib/geo.ts`) | none | `evaluatePoolability`, bearings | wrap at north, threshold | everyone aboard is in one corridor |
| Fare arithmetic (`lib/fare.ts`, `lib/money.ts`) | none | `calculateFare`, `divRoundHalfUp`, `percentOf`, conversions | rounding, zero, bounds | discount <= charge; parts add up; conversions are inverse |
| Sessions (`modules/auth/auth.service.ts`, `lib/tokens.ts`, `lib/cookies.ts`) | `refresh_tokens`, `users`, the cookies of each browser | register, login, refresh, logout, change password | rotation and password change as check-then-act; lost answers; tabs that share cookies | no session outlives the end of all; a token is exchanged once; nobody is left with a dead token |
| Audit trail (`lib/history.ts`) | `ride_status_history` | `recordTransition` | one row per committed change | the trail replays to the current status |
| Shutdown, readiness (`lib/gracefulShutdown.ts`, `lib/shutdown.ts`, `lib/readiness.ts`, `server.ts`) | hooks, deadline, connections | `shutdown`, hooks, probes | requests in flight, a hook that hangs, a second signal | the process ends; hooks run once, in order |
| Passenger's page (`frontend/src/app/passenger`, `hooks/use-rides.ts`, `components/passenger`) | query cache, fetches and mutations in flight | poll, ask, cancel, show | answers older than what is cached; polling that stops; a failed request | what it says of a ride that is over is true for good, and it gets to say so |
| Driver's page (`frontend/src/app/driver`, `hooks/use-driver.ts`, `components/driver`) | the last poll | the board, the trip controls, the notices | the notice grows old | what it announces of a suspension holds; a warning comes in time |
| Session, profile and shell of the client (`hooks/use-session.ts`, `middleware.ts`, `app/login`, `app/profile`) | the session query | redirects and forms | | |
| HTTP shell, rate limits, areas, configuration, seed | none of the system's own | | | |

The components of the API talk through the database only; browsers talk to it
through the proxy (`app/api/[...path]/route.ts`) and their cookies. The services share the helpers of
`pools/` (seat claim, fares, payments); the two sides of a trip, passenger and
driver, meet at the `pools` row, which whoever changes a membership locks first.
`createRide` and `createPool` meet their own kind at the `users` row. The hazards
these meetings create are in `PROJECT.json`, each at its line and with the
properties that watch it.

## Plan

In order, the most important behaviour first. Done:

1. `Lifecycle` (tables), `TeslaPool` (rides, pools, fares, payments, availability
   as concurrent transactions), `TripBoard` (the abstract atomic promise),
   `TeslaPool_proofs`.
2. `Fare` (`fare.ts`, `money.ts`) as operators over naturals, `PoolFares` (the fares
   to the paisa), `Fare_proofs`; `Shutdown`, `Shutdown_proofs`.
3. `Sessions`: concurrent login, refresh, logout and password change over
   `refresh_tokens` and cookie jars; `Sessions_proofs`.
4. `Matching` (`matching.ts`, `geo.ts`), and `DriverDesk`, which composes it with
   `PoolFares`, the board, and the window of cancellations with its clock;
   `DriverDesk_proofs`.
5. `PassengerApp`: the passenger's page, its cache and polls, against the API;
   `PassengerApp_proofs`.
6. `InStep_proofs`: rides and pools in step, one active ride, legal moves, and what
   is left of each where a cancel loses sight of its trip; `TripBoard_proofs`:
   `TeslaPool` implements `TripBoard`.

Left:

7. `AuditTrail` (`history.ts`) over `TeslaPool`: replaying the trail gives the
   current status.

## The modules

* `Lifecycle.tla`: the statuses and the two transition tables.
* `TeslaPool.tla`: the core. Constants are the people, vehicles and rides
  that may exist; variables are the committed rows (`ride`, `final`, `pay`,
  `amount`, `wallet`; `pool`, `poolDriver`, `poolArea`, `seatsTaken`, `memb`,
  `fare`; `online`), which cancellations have aged out of the window (`aged`),
  the requests under way (`pc`, `req`, `poolLock`, `userLock`), and one history
  variable, `revived`: the rides that a driver's cancel has brought back from
  `CANCELLED`.
* `TripBoard.tla`: what a client may believe: each operation in one atomic step,
  no locks, counters or views. It also says what the code does beyond its
  documents: `LeaveBehind` is a cancel that leaves the ride on its trip, and
  `CallOff` brings such a ride back. `TeslaPool!ImplementsPromise` maps a ride to the
  pool in which it is an active member.
* `MCTeslaPool.tla`: its instances.
* `Fare.tla`: rounding, percentages, the fare, and decimals as records of digits:
  what `kmToMilliKm` and `takaToPaisa` read and `milliKmToKm` and `formatPaisa`
  write, a DECIMAL column in between.
* `PoolFares.tla`: the money of a driver's pools to the paisa: quotes, stored
  distances, repricing and the final fare. One transaction at a time: their
  interleaving is `TeslaPool`'s.
* `Matching.tla`: the verdict on a request, as an operator on records.
* `DriverDesk.tla`: a driver at work. It extends `PoolFares` and `Matching`, and its
  actions contain theirs: a card of the board shows prices and a verdict, its
  button joins a ride, a cancellation enters a window that a clock moves.
  `MCDriverDesk.tla` is its instance.
* `Sessions.tla`: refresh tokens and cookies; `MCSessions.tla` its instance.
* `PassengerApp.tla`: the passenger's page over `Lifecycle`.
* `Shutdown.tla`: one process going down; `MCShutdown.tla` its instance.
* `TeslaPool_proofs.tla`, `InStep_proofs.tla`, `TripBoard_proofs.tla` (each extends
  the one before), `Fare_proofs.tla`, `DriverDesk_proofs.tla`,
  `PassengerApp_proofs.tla`, `Sessions_proofs.tla`, `Shutdown_proofs.tla`: the theorems.

The modules cut the system at its seams. `TeslaPool` has every interleaving of
the transactions and abstracts prices, directions and time; `DriverDesk` has prices,
directions and time and takes the requests one by one; `PassengerApp` has what one
client knows and lets the rest of the world move its rides as the tables allow.

### How the core corresponds to the code

A request runs in a slot of `Tx`; its `pc` names the next statement at which
another transaction could come between. One action is one such step:

| Code | Actions |
|---|---|
| `createRide` | `CreateRide` (user row lock and count), `InsertRide` |
| `cancelRide` | `CancelRide`, then `LoadMembers` / `LockTrip` up to three passes, then `CommitCancelRide` or `RefuseCancelRide` |
| `createPool` | `BeginCreatePool` (read view), `LockDriver`, `CommitCreatePool` or `RefuseCreatePool` |
| `addMemberToPool` | `BeginAddMember` (read view), `ClaimSeats` or `RefuseClaimSeats`, `CommitAddMember` or `RefuseAddMember` |
| `markArrived`, `startTrip`, `completeTrip`, `cancelPool` | `BeginX` (pool lock, read, refusals), then `MarkArrived`, `StartTrip`, `CompleteTrip`, `CancelPool`, or `RefuseAdvance` |
| `setOnlineStatus` | `GoOnline`; `CheckOffline`, `CommitOffline` |
| timeout, crash, deadlock victim | `Abort`, possible at every step of a transaction |
| passing time | `AgeOut` |

Three facts about the database carry the model, and each is visible in it:

* **Isolation.** `createPool` and `addMemberToPool` use the default, REPEATABLE
  READ. Their first statement is a plain read, which fixes the view of all later
  plain reads, also of those made after a lock. So every check they make by plain
  read is a guard of the *first* step, and what they later need from it is
  remembered (`req[t].fares`). Locking reads and `UPDATE ... WHERE` see the newest
  committed row and are evaluated in the later step. `createRide` begins with its
  lock, so its view is taken after it. The transactions of
  `MEMBERSHIP_TRANSACTION` are READ COMMITTED: each read is a step of its own.
* **Torn relation reads.** Without Prisma's `relationJoins` preview (which the
  schema does not enable), `findFirst` with a nested `select` is one SELECT per
  table. In `cancelRide` that happens outside a lock, so the ride's status and its
  membership can be of two moments: the status is read by `CancelRide` or
  `LockTrip`, the memberships by `LoadMembers`.
* **Locks.** Row locks are exclusive, kept to the end of the transaction, and
  freed by `End`. Row locks on `ride_requests` are always taken last and kept to
  the commit, so the conditional updates of rides are folded into the commit step.

What is abstracted: a fare is `"solo"` or `"pooled"` and `Price` says what that
costs; route compatibility is the relation `SameWay`; text, notes, timestamps and
the rows of `ride_status_history` are left out (nothing reads them to decide); the
shared locks of foreign key checks are left out (their only effect is waiting,
or a deadlock that InnoDB ends, which is `Abort`). Requests that are refused by
their very first reads change nothing and are not steps. A vehicle's capacity does
not change (no operation changes it). The order in which a pool's payments are
settled is free, as `findMany` without `orderBy` leaves it.

### How the smaller modules correspond

`Fare` has one operator per function. `bigint` and `Math.floor` division of
non-negative numbers is `\div`. `Column` is the database: it keeps the value of a
decimal and returns it without trailing zeros, and `ToFixed3` is the `toFixed(3)`
by which `recalculatePoolFares` gets them back. Distances stay far below the 1000
km that the column could not hold.

`PoolFares!Join` is the part of accept and of join that concerns fares (the first member goes through the same
repricing), `Leave` the part of `cancelRide` that concerns a member, `Start` is
`lockPoolFares`. `quoted` is a history variable: what `quote` told the passenger.

`DriverDesk` has one action for each request of the driver's side
(`CreatePool`, `AddMember`, `MarkArrived`, `StartTrip`, `CompleteTrip`, `CancelPool`,
`SetOnline`), two for what the passengers do (`RequestRide`, `GoElsewhere`, the second
also standing for another driver's accept), `Poll` for the feed as the browser keeps
it, and `Tick`. `StandingOf` is `getCancellationStanding`; the window is counted in
ticks and cancellations carry the tick they were made at. `Listed` is the query of the
feed with its limit and `OnOffer` its filter, `Card` what the board makes of a row of it,
`MayCreatePool` and `MayAddMember` the checks of the API with `Matchable` and
`NotDropped`, so that `BoardAgrees` compares two translations of two pieces of code;
the verdict (`evaluatePoolability`) is one function in the code too. A bearing is a whole number of degrees; that
it comes from the coordinates of two areas is left out.

`Sessions` follows the statements of `auth.service.ts`. A request is in a tab; its
`pc` names the next statement that writes or checks:

| Code | Actions |
|---|---|
| `register`, `login`, `issueTokens` | `Register` or `Login`, then `InsertToken` |
| `refresh` | `Refresh` (the cookie is sent), `LookUp`, then `SweepReused`, or `Rotate`, or a refusal |
| `logout` | `Logout`, `RevokeToken` |
| `changePassword` | `ChangePassword`, `CommitPassword` |
| the answer with its `Set-Cookie` headers | `Answer` |
| a lost connection, a crash | `Abort`, at every step |
| time | `AccessExpires`, `TokenExpires` |

A row says of its token whether it is live, expired or revoked. Two pieces of
history carry the properties: `old`, that the sessions of the user were ended
after the check that let this session in; `astray` collects the browsers that
missed an answer. Which password is right is left out: a wrong one changes nothing.

`PassengerApp` has the cache entries `mine` (`useMyRides`) and `detail` (`useRide`),
the fetches that fill them (`listing`, `look`), the mutations in flight (`calls`),
and the rows of the passenger. A fetch is sent, read by the API and delivered in
separate steps, a ride's row and its memberships are read in two, and everything
else may happen between. Of TanStack Query the model takes what the options in
the code ask of it: polls by `refetchInterval`, refetching on focus, invalidation that
cancels a fetch in flight unless it is the first, answers written to the cache when
they arrive, fetches aborted when their last observer unmounts, callbacks of a
mutation dropped with the component that started it. Simplified: one create and
one cancel in flight at a time; of a live ride the cache keeps the status; a row
of the list is live or not; the read of the memberships and the arrival of the
answer are one step; retries are not seen, `GiveUp` is the last of them; a hidden
tab is one that takes no polls; drivers' requests are atomic.

In `Shutdown` a connection is accepted (`Accept`), a request arrives on it (`Serve`) and
is answered (`Finish`), after which it is kept or not. `Shut` is the handler up to its `await`; `StartHook` and `EndHook` are the
loop of `runShutdownHooks` (a hook that throws ends like one that resolves);
`Complete` is what follows the await; `ForceExit` the timer. Of Node the model takes
that a closed server accepts no connection, still answers requests on those it has, and
closes the idle ones (whether one that has sent nothing yet is idle depends on the
version, so it is left open), that a process ends when nothing keeps its event loop alive, and that
the unreferenced timer of the deadline does not. A hook under way does: the only one
that is registered disconnects Prisma and waits for the engine. A second call
changes nothing. Readiness probes only report and are left out.

## The runs

Those in the first table are of `MCTeslaPool`. `Tx` has two slots: two requests at a time, which is
what the races of this code need (each is between two transactions; a third only
adds waiting). `Pools` bounds how many trips are ever begun; two are needed for a
requeue, for two drivers and for one driver's second trip. Symmetry is over pools
and slots, which are interchangeable; it is not used for liveness.

| Run | Instance | Shows |
|---|---|---|
| `one_passenger` | 1 passenger asking twice, a wallet of 4 and two fares of 3, 2 drivers (3 and 2 seats), 2 pools | types; one trip per ride; rides and pools in step, but for rides left behind; one active ride and only table transitions, but for revived rides; wallet and ledger balance across a success and a shortfall; a cancel waiting for a trip holds only dead ones; requests never wait in a circle; the transactions implement `TripBoard` |
| `last_seat` | 3 rides of 3 passengers wanting 4 seats of 3, one paid from a wallet, 1 pool | no oversell; counter equals members; status, fare and charge agree; locked fares never move; the transactions implement `TripBoard` with company aboard |
| `live` | 1 driver, 2 rides, 1 pool, fair | every request ends |

Seats, fares and balances are chosen so that the edges are met: two seats
and one fill a vehicle of three exactly and leave no room for another; a balance of
4 pays one solo fare of 3 and not another; `CancelLimit = 2` is reached with two
pools. The two instances divide the core between them: the first has one ride after
another, from trip to trip and driver to driver, which is where a cancel loses sight
of its trip; the second has company on one trip. Their product is too large for TLC,
and is what the theorems add. A cancel uses up its three passes only with
four trips; that is left to them, too.

| Run | Instance | Shows |
|---|---|---|
| `desk` (`MCDriverDesk`) | 4 rides, default prices and threshold, a vehicle of 3 seats, 3 ticks | everyone pays to the paisa what they were quoted, within bounds, and company only lowers fares; everyone aboard goes one way; buttons and API agree; notices stay true; warnings come in time |
| `sessions` (`MCSessions`) | 1 user, a browser with two tabs, a phone, 3 tokens | nobody who missed no answer is stranded |
| `app` (`PassengerApp`) | 1 ride in the past, 1 new, pages of 1, 1 failed request, fair | receipts are final; the live ride is found; what is over stays over; a cancel is refused only if the ride moved; an end is shown |
| `stop` (`MCShutdown`) | 3 connections, SIGTERM (code 0) and an uncaught exception (code 1), 2 hooks | hooks unwind once and in order; nobody is cut off by a clean end; no new clients; the process stops unless a client stays |

For `desk`, three of the rides head 350, 35 and 80 degrees: with a threshold of 45
the neighbours fit, one pair across north and both exactly at the threshold, and
the outer two do not, so a corridor can drift or be refused. The fourth starts in
another area and fills the vehicle alone. The metres are the two of the README's
example, whose charge of 2698.5 paisa is the half that is rounded up, one whose
fraction of a kilometre needs two zeros in front, and one with a zero inside and one
at the end, which the column drops. A window of one tick, a limit of two cancellations and
three ticks let a suspension begin, be announced, reach its last instant and pass; a
feed of two is full with three requests waiting.

For `sessions`, one user is enough since no statement touches the rows of
another; two tabs are a race over one cookie, and the phone is the device that must
survive a log-out or fall to a password change. Three tokens are a log-in, its
rotation, and a second log-in or a second rotation. For `app`, a page of
one with one ride behind makes the new ride compete for its place on the first
page; one failure is one at a time, at any request. Two reasons with different codes and
two hooks are what order and precedence in `stop` need.

**Fairness** (`live`). `WF(Proceed(t))`: Node's event loop continues a
handler whose statement has answered. `SF(Acquire(t))`: InnoDB queues the waiters
of a row and grants the lock in turn, so a statement whose lock is free again and
again gets it. Nothing is assumed of users, of time, or of `Abort`: a request ends
without the help of a timeout.

**Fairness** (`app`). `Poll`, `ReadRow` and `Deliver`: the browser's timers fire
while the page is visible, the API answers a read, and the answer arrives. Nothing
is assumed of people, of drivers, or of the list, which has no interval. A failing
request is a fault, of which there are finitely many.

**Fairness** (`stop`, `hang`). Node goes on with the handler when a hook has settled,
fires a timer that is due, ends a process whose event loop is empty, and
closes a connection that stays idle (`keepAliveTimeout`). Hooks and requests may
hang: `EndHook` and `Finish` are not fair.

### Where the code and its documents disagree

Five runs expect a violation. Each shows, on the model of the code as it is, a
statement of the repository's own comments or README that the code does not keep:

| Run | Statement | How it fails |
|---|---|---|
| `two_pools` | one active pool per driver (`pool.service.ts:190`, README) | the vehicle is read before the driver's row is locked, so the count under the lock answers from the older view; both accepts commit |
| `second_ride` | one active ride per passenger (README) | a cancel whose look-up is torn does not wait for the pool's lock and commits while the driver's cancel is between its reads and its writes; the passenger asks again, and the write by id alone (`pool.lifecycle.ts:270`) takes the first ride from `CANCELLED` back to `REQUESTED` |
| `sessions_end` | a password change ends every session (`auth.routes.ts:105`, `auth.service.ts:295`) | a log-in that has checked the old password inserts its token after the change |
| `hang` | if a request hangs the process must still exit (`gracefulShutdown.ts:38-39`, `server.ts:8`) | the deadline is cleared once the hooks are done (`:55`), also with a request in flight |
| `stuck_screen` | the form is shown when there is no live ride (`passenger/page.tsx:16-18`) | `justCreated` is never cleared (`:28-29`), so the ride asked for on this page stays after it has ended, until the page is left |

The properties of the passing runs say what does hold beside them.
`InStepUnlessLeftBehind`: the only ride out of step is a cancelled one on a trip that has not started,
which by the check of each member (`pool.lifecycle.ts:88`, `93`) never will. `OneActiveRideUnlessRevived` and
`LegalUnlessRevived`: the driver's cancel is the only way back to life and the only
way to a second ride. `StopsUnlessClientsStay`: what keeps the process is a client,
never a hook.

The same causes have more effects, which the models contain and no run singles out.

* The view taken before the lock, as in `two_pools`: the re-check of the
  route "against the now-stable member list" (`pool.service.ts:349-364`) reads the old
  view, so two joins that each fit what they read can both be admitted; a join that
  began before a member left reprices from the old list (`pool.fares.ts:8`, `21`), so a
  passenger is charged for company that is gone; an accept that looked before its driver
  dropped the passenger, or was suspended, commits after it. All go away if the two
  transactions begin with the lock or run at READ COMMITTED, as `lib/locks.ts` explains
  for the others.
* The torn look-up, as in `second_ride`. The ride that comes back has made a transition that its table
  does not have, which `transitions.ts:8-11` calls impossible to reach by accident. And when
  the driver's cancel is over and another driver has accepted the ride by the time the passenger's
  commits, its conditional update finds the status it has read, and the ride is cancelled
  and still aboard; the pool can then be neither advanced nor called off, since the refusal
  at `pool.lifecycle.ts:260`, "unreachable in practice", is reached, though cancelling is
  "never refused" (`cancellations.ts:8`).
* A cancel looks for its ride's trip three times and then goes on with what it
  has (`rides.service.ts:381`: "Two passes cover it in practice; the bound is only
  there so a bug cannot spin forever"). Drivers who in turn accept the ride and
  call it off can use the passes up; the cancel then commits beside a trip it has
  not locked. That takes four trips, and with a fifth the ride can be
  left behind in this way, too. No run has so many; the theorem `CancelsSettleInTime` says that it
  takes more trips than passes, and the invariants above count on nothing better.
* Two statements outside a transaction: `setOnlineStatus` counts and updates, with an
  accept between.
* Two refreshes with one token both read `revokedAt` before either writes it, and the
  write is by id alone (`auth.service.ts:189`, `207`): both get a live token, though
  rotation is to make a stolen token "usable at most once" (`:166`).
* A refresh that has passed its check when the sessions are ended rotates a token of an
  ended session into a live one, like the log-in of `sessions_end`.
* On the passenger's page: when the answer of a create is lost the form stays
  although a ride is live, and asking again is refused, until the tab is focused again or
  reloaded (`use-rides.ts:96`: only success invalidates); a list that failed shows its
  alert until then, too; a ride that has ended and whose refetch on focus failed shows an
  error for good, because it is polled no more; a form that was unmounted when its
  answer came does not hand the ride to the page; a ride that has ended is
  shown above and again under "Past rides".

## The proofs

`TeslaPool_proofs` proves, for every set of rides, pools, drivers and request
slots, every price and capacity:

| Theorem | States |
|---|---|
| `Invariance` | `Spec => []IInv` |
| `TypeCorrect` | `TypeOK`; with it, no wallet and no seat counter is ever negative |
| `Reconciliation` | `SeatsReconcile` |
| `SeatsNeverOversold` | `NoOversell` |
| `NeverTwoTrips` | `OneTrip` |
| `StatusAndMoneyAgree` | `OneStory` |
| `FareNeverMoves` | `FareIsFinal` |
| `LockInvariance`, `CancelsHoldDeadTrips` | `CancelHoldsDeadTrip` |
| `NobodyDeadlocks` | `NobodyWaitsInACircle` |
| `MoneyIsConserved` | `LedgerBalances` |

Assumptions are the named ASSUMEs of `TeslaPool`: finitely many rides with at
least one seat each, prices and balances in `Nat`, passengers and drivers distinct,
`Null` none of them.

None of these is inductive by itself. `NoOversell`, say, needs that the counter
agrees with the members (`SeatsReconcile`) and fits the vehicle (`CounterFits`),
and that the seats found free at the claim are still free at the commit, which is
true because the claim holds the pool row. So the invariant has two halves:

* `RowsOK`: the rows alone: `MembersOK` (a left membership belongs to a cancelled
  pool or to a ride that was cancelled), `WaitingOK` (a waiting ride is in no
  pool), `NoTwoTrips`, `SeatsReconcile`, `CounterFits`, `OneStory`;
* `RequestOK(t)`: what a request under way knows: the row it holds is of a live
  trip (`HoldingOK`), its claimed seats still fit (`ClaimOK`), the status a cancel
  has read is a cancellable one and its pool is one the ride is or was in
  (`CancelOK`), no member of a pool being called off has started (`CallOffOK`).

The argument is rely-guarantee. Each action that writes preserves `RowsOK`, given
its own `RequestOK`; and each guarantees to the others (`KeepsRows`,
`KeepsOthers`) that rows they hold are not touched and that a ride they rely on
moves only in ways they tolerate, from which their `RequestOK` is preserved
without looking at the action again. Seats are counted as the cardinality of a set
of (ride, seat) pairs, so the sums need only the library's facts about finite
sets. `CancelHoldsDeadTrip` needs in addition where cancels hold locks
(`TripLocksOK`): a cancel that moves on to another trip does so because the one it
holds no longer carries its ride, and under the lock only the driver's cancel can
have done that, so it is over and nobody waits for it with a live trip in hand.

`NobodyDeadlocks` builds on that, for any number of requests at once. In a circle
everyone both waits and holds something that another waits for. Claims and drivers'
requests wait before they hold anything, so everyone in it is a cancel going for another
trip, and every trip held in it is cancelled (`CirclesAreOfCancels`). The circle is
closed by somebody who begins to wait, and a cancel begins to wait only when it
has just read that the trip carries its ride (`WaitIsBegun`), which `RowsOK` excludes of a cancelled
one. The locks meant are the ones the handlers take: on the pool (`lockPool`, and the claim's
conditional update) and on the user. What a commit locks besides, ride rows and the
shared locks of foreign keys, is inside one step of the model, and a deadlock there is an `Abort`.

The money is a sum over rides, counted in the same way: what was spent is the number
of pairs of a ride paid for and a coin of its price. `LedgerInv` says that this and the
wallet add up to the opening balance; a completed trip settles some of the payments that were
pending and none that was paid, so the coins spent before and those spent now are
disjoint and the sum goes up by exactly what leaves the wallet. A payment that fails
for want of money changes neither.

`IInv` was checked by TLC on instances like `last_seat` and
`one_passenger` before it was proved.

### Rides, pools and the promise

`InStep_proofs` and `TripBoard_proofs` go on from there, for every value of the
constants:

| Theorem | States |
|---|---|
| `StepInvariance` | `[]StepInv` |
| `RidesStayInStep` | `InStepUnlessLeftBehind` |
| `OneRideAtATime` | `OneActiveRideUnlessRevived` |
| `RidesMoveLegally` | `LegalUnlessRevived` |
| `CancelsSettleInTime` | `GivesUpOnRestlessRides`, for finitely many pools |
| `DriversKnow` | what a driver's request knows of the pool it holds |
| `PoolsKeepThePromise` | `ImplementsPromise` |

Nothing is assumed of the look-up of `cancelRide` or of the number of its passes: the
cancel may commit with a status and a trip of any two moments. So the two ways in which it
loses sight of a trip, by a torn look-up and by running out of passes, are inside these
theorems, and what they say is that the damage ends there.

`StepInv` is `IInv` and the first two properties, strengthened by what an insert
knows: the passenger whose row it holds has no active ride but revived ones
(`InsertAlone`), since every insert and only an insert makes a passenger's first
active ride, and it holds the passenger's row. The argument is again rely-guarantee. `LegalMoves` bounds what any
step may do to a ride, and it is also `LegalUnlessRevived`; most steps make
`TableMoves` only; `Recorded` says that a ride which comes back to life is in
`revived` for good. A cancelled ride that is aboard stays where it was left because a
trip moves only if the update of its members finds all of them as they were
(`MembersUnmoved`), which a cancelled one is not, so its pool never departs; and the
cancel leaves behind only rides that were still waiting or matched or met, since its own
update finds the status it has read.

`CancelsSettleInTime` counts. A cancel keeps every lock it takes, all the trips it
holds but the last are over, so a trip it finds the ride on is the last or
one it has not locked, and each pass holds one more trip the ride has been on
(`PassOK`).

The refinement maps each ride to the pool it is an active member of, which
`OneTrip` makes a function. A commit maps to the operation of the same name, a cancel to
`Leave`, or to `LeaveBehind` if its ride is still a member when it has committed. What a
commit needs of the board is what its request knows: the status of the pool and
that somebody is aboard for the driver's controls (`DriverKnows`), seats that fit for
a join. Locks, views, refusals and rollbacks map to stutters.

### The other modules

`Fare_proofs`, `DriverDesk_proofs`, `PassengerApp_proofs`, `Sessions_proofs` and
`Shutdown_proofs`:

| Theorem | States, for every value of the constants |
|---|---|
| `RoundsToNearest`, `PercentWithinAmount` | `divRoundHalfUp` gives the nearest integer, halves up; a percentage never exceeds its amount |
| `DistanceRoundTrip`, `AmountRoundTrip`, `StoredDistanceIsExact` | writing, storing and reading a decimal loses nothing |
| `FareBounds` | base fare of the seats <= fare <= price of riding alone |
| `QuotesAreKept` | `ChargedAsQuoted` |
| `ChargesWithinBounds` | `FareWithinBounds` |
| `CompanyNeverCosts` | `CompanyHelps` |
| `DeskKeepsPrices`, `QuotesAreKeptAtTheDesk` | `DeskSpec => Spec`: the desk implements `PoolFares`, so its rides are charged as quoted |
| `OneCorridorAtTheDesk` | `Corridor` |
| `DeskInvariance`, `DeskTypeCorrect`, `NoticesHold`, `SuspensionsAreAnnounced` | `DeskTypeOK`, `NoticeHolds`, `Warned` |
| `BoardTellsTheTruth` | `BoardAgrees` |
| `AppInvariance`, `AppTypeCorrect`, `ReceiptsAreFinal`, `LiveRideIsAlwaysFound` | `AppTypeOK`, `ReceiptIsFinal`, `LiveRideIsFound` |
| `OverIsForGood`, `RefusalsAreDeserved` | `OverStaysOver`, `RefusedOnlyIfMoved` |
| `SessionsInvariance`, `SessionsTypeCorrect`, `NobodyIsStranded` | `TypeOK`, `NobodyStranded` of `Sessions` |
| `HooksRunInReverse`, `TakesNoNewClients`, `CutsNobodyOff` | `HooksUnwind`, `NoNewClients`, `EndsCleanly` |

The assumptions are again the named ASSUMEs: prices in `Nat`, a discount of 0 to
100 percent, distances and seats of at least one; exit codes of 0 or 1. For the
fares the inductive invariant (`FareInv`) says that a requested ride's quote, its
estimate and its stored distance remember one and the same number of metres; that
repricing then finds one of the two quotes is `StoredDistanceIsExact`. For the
corridor it says that whoever is aboard was picked up in the pool's area and is
within the threshold of everyone else (`CorridorInv`); that the code's angle is
symmetric and is the turn one would make, left or right, are the lemmas
`AngleIsSymmetric` and `AngleIsTurn`.

For the notices, one lemma about the window carries the proofs: `PivotDecides`, the
claim of the comment at `cancellations.ts:64`, that a driver is over the limit exactly as
long as the limit-th newest cancellation is in the window. It holds because
cancellations are listed in order of time, which is part of the invariant (`DeskInv`).
With it, an announced instant is a function of the list alone, so a notice that
counted every cancellation stays right while the clock runs (`NoticeOK`); a notice's
count may only be too high (`WindowSlides`), and one more cancellation adds at most
one to it (`OneMoreRecent`), which is why the warning comes in time. That no trip runs while
its driver is suspended is the last part. For the board, the cards are
what the code lists, the oldest `FeedLimit` of the waiting requests; that a request which is
missing has a full list before it is `FirstOnes`, about sets of naturals. Facts of this
kind, `LeastOf` too, are proved from the smallest counterexample with the library's
well-founded ordering of finite sets, since the induction theorems cannot be used.

For the passenger's page no property is inductive. `ReceiptIsFinal` needs to know
what is on its way into the cache: so the invariant says that an answered mutation
which calls its ride over is right (`CallsInv`), and that a row read half way is, if
it says over, still the row of the ride on the screen (`LookInv`), which holds because
rendering drops a fetch whose ride has left the screen and because a ride that is over never
changes (`RidesKept`). `OverStaysOver` needs that a row in flight never contradicts an
end that the cache has already seen (`LookInv`, again): an answer that ends a ride in
the cache restarts the fetch. `LiveRideIsFound` needs that only the newest ride can be
going on (`RidesInv`), and `RefusedOnlyIfMoved` that a cancel is sent with a view that can be
cancelled. TLC checked this invariant on the instance of `app` before it was proved;
the theorems hold for any page size, any number of rides, past ones too, and of
failures.

For the shutdown the invariant says that the hooks already run and those still to run are together
the reverse of the registration, and that a server that is going down accepts no
connection.

For the sessions `NobodyStranded` is not inductive. It needs to know who
else could have revoked the token a browser holds: so the invariant says that a
token is held in one jar only, by the jar itself or by requests of its tabs
(`OneJar`), that a token on its way to a jar is known to no other request and is good
(`InTheMail`), and that a jar with a revoked token has an answer coming, which
replaces or clears it (`JarOK`). TLC checked this invariant on the instance of `sessions` before it was proved. The bound
`MaxTokens` is any natural number in the theorems.

Every invariant and action property of the passing runs is stated by a theorem. Only
model-checked are the three liveness properties, `EveryRequestEnds`, `EndIsShown` and
`StopsUnlessClientsStay`: they need `ENABLED` and fairness, which the provers do not reason
about. Where a proof needs a sum or a minimum it counts a
set or argues from a least element; the one fold of the models, the seats taken at the
desk (`SeatsTaken`), is the same on both sides of what `BoardAgrees` compares and need not be
computed.

## Not modelled

* The audit trail (`lib/history.ts`): one row is appended per committed change and
  nothing reads the rows to decide.
* The great circle (`geo.ts`): a bearing and a distance are inputs of the models.
* Of the sessions: which password is right, `updateProfile` (one UPDATE), roles.
* The HTTP shell (routing, validation, error bodies, headers), rate limits (a
  library's counter), areas (read-only rows), configuration parsing, readiness
  probes, seed and demo scripts: no state the properties could be about.
* Of the client: the login, sign-up and profile pages and the shell, whose state is
  the session query (the client never calls `/refresh`, so its session ends with the
  access token; the cookies are those of `Sessions`); the fields and quotes of the
  request form; the list of past rides; on the driver's page the fetches and answers
  in flight, which go through the same mechanism as the passenger's.
* CHECK constraints of the schema: no modelled step comes near one, except the
  unsigned balance, whose guard is a condition of `SettlePayments`.
