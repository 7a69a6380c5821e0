------------------------ MODULE PassengerApp_proofs ------------------------
(***************************************************************************)
(* Theorems about the passenger's page, for any number of rides, any page  *)
(* of the list and any number of failed requests: what the page says of a  *)
(* ride that is over is true for good, and the live ride is found.         *)
(***************************************************************************)
EXTENDS PassengerApp, FiniteSetTheorems, SequenceTheorems, TLAPS

RideRec == [status : RideStatus, shared : BOOLEAN]

CallRec ==
    [pc : {None, "sent", "made", "ok", "refused"}, ride : RideIds \cup {NoRide},
     view : View, own : BOOLEAN, heard : BOOLEAN]

\* The rides of the passenger: only the newest can still be going on.
RidesInv ==
    /\ rides \in Seq(RideRec) /\ Len(rides) <= MaxRides
    /\ \A r \in Ongoing : r = Len(rides)

\* What the page has been told of: rides that exist.
ListInv ==
    /\ mine \in [loaded : BOOLEAN, err : BOOLEAN, rows : Seq(Entry)]
    /\ listing \in [pc : {"idle", "sent", "read"}, rows : Seq(Entry)]
    /\ listing.pc # "idle" => open
    /\ open \in BOOLEAN
    /\ justCreated \in RideIds \cup {NoRide}
    /\ faults \in 0..MaxFaults
    /\ \A i \in DOMAIN mine.rows : mine.rows[i].id <= Len(rides)
    /\ \A i \in DOMAIN listing.rows : listing.rows[i].id <= Len(rides)
    /\ justCreated <= Len(rides)

\* A mutation that has been answered carries a view of its ride, and one that says
\* that the ride is over is right; a cancel is under way only for a ride that the
\* page had seen in a status that can be cancelled.
CallOK(k, c) ==
    /\ c.ride <= Len(rides)
    /\ c.pc = "ok" =>
          /\ c.ride # NoRide /\ c.view.status \in RideStatus
          /\ Over(c.view.status) => c.view = Truth(c.ride)
          /\ k = "cancel" => Over(c.view.status)
    /\ c.pc = "made" /\ k = "create" => c.ride # NoRide
    /\ c.pc = "sent" /\ k = "cancel" => c.ride # NoRide /\ c.view.status \in CANCELLABLE

CallsInv == calls \in [Kinds -> CallRec] /\ \A k \in Kinds : CallOK(k, calls[k])

DetailInv ==
    /\ detail \in [RideIds -> [view : View, err : BOOLEAN]]
    /\ \A r \in RideIds : detail[r].view # NoView => r <= Len(rides)
    /\ ReceiptIsFinal

\* A row half way to the page: if it says that the ride is over, so it is, and if
\* the page has seen it over already, the row says so too.
LookInv ==
    /\ look \in [pc : {"idle", "sent", "row"}, row : Row]
    /\ look.pc # "idle" => Shown # NoRide
    /\ look.pc = "row" =>
          /\ look.row.status \in RideStatus
          /\ Over(look.row.status) => look.row = RideRow(Shown)
          /\ Over(detail[Shown].view.status) => Over(look.row.status)

AppInv == RidesInv /\ ListInv /\ CallsInv /\ DetailInv /\ LookInv

-----------------------------------------------------------------------------
\* The operators of the module.

\* A set of naturals has a least member (induction on the initial segments).
LEMMA LeastOf ==
    ASSUME NEW S \in SUBSET Nat, S # {}
    PROVE  Min(S) \in S /\ \A n \in S : Min(S) <= n
<1> DEFINE Segments == {0..n : n \in S}
<1>1. Segments \subseteq FiniteSubsetsOf(Nat) /\ Segments # {}
  <2>1. \A n \in S : IsFiniteSet(0..n) /\ 0..n \in SUBSET Nat
    BY FS_Interval
  <2> QED BY <2>1 DEF FiniteSubsetsOf
<1>2. PICK T \in Segments : \A U \in Segments : <<U, T>> \notin StrictSubsetOrdering(Nat)
  <2> HIDE DEF Segments
  <2> QED BY <1>1, FS_StrictSubsetOrderingWellFounded, WFMin
<1>3. PICK m \in S : T = 0..m
  OBVIOUS
<1>4. ASSUME NEW n \in S, n < m PROVE FALSE
  <2>1. 0..n \subseteq 0..m /\ m \in 0..m /\ m \notin 0..n
    BY <1>4
  <2>2. 0..n \in SUBSET Nat /\ 0..m \in SUBSET Nat /\ 0..n # 0..m
    BY <2>1
  <2>3. <<0..n, 0..m>> \in StrictSubsetOrdering(Nat)
    BY <2>1, <2>2, Zenon DEF StrictSubsetOrdering
  <2> QED BY <1>2, <1>3, <2>3
<1>5. \A n \in S : m <= n
  BY <1>4
<1> QED BY <1>5, Zenon DEF Min

\* What is read of a ride keeps its status; of a row that is over, the answer is
\* all there is to say.
LEMMA DetailIs ==
    ASSUME NEW row \in Row, row.status \in RideStatus, NEW shared \in BOOLEAN
    PROVE  Detail(row, shared) \in View /\ Detail(row, shared).status = row.status
BY DEF Detail, View, NoView, Row, Fares, FareOf, RideStatus, ActiveRideStatus,
       TerminalRideStatus, None

LEMMA RideRowIs ==
    ASSUME rides \in Seq(RideRec), NEW r \in 1..Len(rides)
    PROVE  /\ rides[r] \in RideRec
           /\ RideRow(r) \in Row /\ RideRow(r).status = rides[r].status
           /\ Truth(r) \in View /\ Truth(r).status = rides[r].status
<1>1. rides[r] \in RideRec
  BY ElementOfSeq
<1>2. RideRow(r) \in Row /\ RideRow(r).status = rides[r].status
  BY <1>1 DEF RideRow, Row, RideRec, Fares, FareOf
<1> QED BY <1>1, <1>2, DetailIs DEF Truth, RideRec

\* The page lists at least the newest ride, if there is one, and only rides that
\* exist.
LEMMA ListRidesIs ==
    ASSUME RidesInv
    PROVE  /\ ListRides \in Seq(Entry)
           /\ \A i \in DOMAIN ListRides : ListRides[i].id <= Len(rides)
           /\ rides # <<>> => 1 \in DOMAIN ListRides /\ ListRides[1] = Listed(Len(rides))
<1> DEFINE n == Min({PageSize, Len(rides)})
<1>1. PageSize \in Nat /\ PageSize >= 1 /\ Len(rides) \in Nat /\ MaxRides \in Nat
      /\ Len(rides) <= MaxRides
  BY AppAssumption, LenProperties DEF RidesInv
<1>2. n \in Nat /\ n <= Len(rides) /\ (Len(rides) # 0 => n >= 1)
  <2> DEFINE S == {PageSize, Len(rides)}
  <2>1. S \in SUBSET Nat /\ S # {} /\ Len(rides) \in S
    BY <1>1
  <2>2. Min(S) \in S /\ Min(S) <= Len(rides)
    <3> HIDE DEF S
    <3> QED BY <2>1, LeastOf
  <2> QED BY <1>1, <2>2
<1> HIDE DEF n
<1>3. ListRides = [i \in 1..n |-> Listed(Len(rides) + 1 - i)]
  BY DEF ListRides, n
<1>4. \A i \in 1..n : Len(rides) + 1 - i \in 1..Len(rides)
  BY <1>1, <1>2
<1>5. \A i \in 1..n : Listed(Len(rides) + 1 - i) \in Entry
  BY <1>1, <1>4 DEF Listed, Entry, RideIds
<1>6. ListRides \in Seq(Entry) /\ DOMAIN ListRides = 1..n
  BY <1>2, <1>3, <1>5
<1>7. \A i \in 1..n : ListRides[i].id = Len(rides) + 1 - i
  BY <1>3 DEF Listed
<1>8. rides # <<>> => Len(rides) # 0
  BY EmptySeq DEF RidesInv
<1>9. rides # <<>> => 1 \in 1..n /\ Len(rides) + 1 - 1 = Len(rides)
  BY <1>1, <1>2, <1>8
<1> QED BY <1>1, <1>3, <1>4, <1>6, <1>7, <1>9

\* The ride on the screen exists.
LEMMA ShownIsKnown == RidesInv /\ ListInv => Shown \in 0..Len(rides)
<1> SUFFICES ASSUME RidesInv, ListInv PROVE Shown \in 0..Len(rides)
  OBVIOUS
<1>1. Len(rides) \in Nat /\ MaxRides \in Nat
  BY AppAssumption, LenProperties DEF RidesInv
<1>2. justCreated \in 0..Len(rides)
  BY <1>1 DEF ListInv, RideIds, NoRide
<1>3. ActiveRide \in 0..Len(rides)
  <2> DEFINE live == {i \in DOMAIN mine.rows : mine.rows[i].live}
  <2>1. CASE live = {}
    BY <1>1, <2>1 DEF ActiveRide, NoRide
  <2>2. CASE live # {}
    <3>1. mine.rows \in Seq(Entry)
      BY DEF ListInv
    <3>2. live \in SUBSET Nat /\ live \subseteq DOMAIN mine.rows
      BY <3>1, LenProperties
    <3>3. Min(live) \in DOMAIN mine.rows
      <4> HIDE DEF live
      <4> QED BY <2>2, <3>2, LeastOf
    <3>4. mine.rows[Min(live)] \in Entry
      BY <3>1, <3>3, ElementOfSeq, LenProperties
    <3>5. mine.rows[Min(live)].id \in 0..Len(rides)
      BY <1>1, <3>3, <3>4 DEF ListInv, Entry, RideIds
    <3>6. ActiveRide = mine.rows[Min(live)].id
      BY <2>2 DEF ActiveRide
    <3> QED BY <3>5, <3>6
  <2> QED BY <2>1, <2>2
<1> QED BY <1>1, <1>2, <1>3 DEF Shown, NoRide

LEMMA ShownStays ==
    ASSUME UNCHANGED <<mine, open, justCreated>> PROVE Shown' = Shown
BY DEF Shown, ActiveRide

\* Rendering changes of a mutation only whether its component is still there.
LEMMA OwnedIs ==
    ASSUME NEW c \in [Kinds -> CallRec]
    PROVE  /\ Owned(c) \in [Kinds -> CallRec]
           /\ \A k \in Kinds : /\ Owned(c)[k].pc = c[k].pc /\ Owned(c)[k].ride = c[k].ride
                               /\ Owned(c)[k].view = c[k].view
<1>1. \A k \in Kinds : (c[k].own /\ IF k = "create" THEN FormShown' ELSE ViewShown') \in BOOLEAN
  BY DEF CallRec
<1> QED BY <1>1 DEF Owned, CallRec

-----------------------------------------------------------------------------
\* The rides.

\* What every step does to the rides: none goes away, and one that is over stays
\* as it is.
RidesKept ==
    /\ Len(rides) <= Len(rides')
    /\ \A r \in 1..Len(rides) : Over(rides[r].status) => rides'[r] = rides[r]

LEMMA AddRide ==
    ASSUME RidesInv, Ongoing = {}, Len(rides) < MaxRides, rides' = Append(rides, NewRide)
    PROVE  RidesInv' /\ RidesKept /\ Len(rides') = Len(rides) + 1
<1>1. /\ rides \in Seq(RideRec) /\ NewRide \in RideRec
      /\ Len(rides) \in Nat /\ MaxRides \in Nat
  BY AppAssumption, LenProperties DEF RidesInv, NewRide, RideRec, RideStatus
<1>2. /\ rides' \in Seq(RideRec) /\ Len(rides') = Len(rides) + 1
      /\ \A r \in 1..Len(rides) : rides'[r] = rides[r]
      /\ DOMAIN rides = 1..Len(rides) /\ DOMAIN rides' = 1..(Len(rides) + 1)
  BY <1>1, AppendProperties, LenProperties
<1>3. ASSUME NEW r \in Ongoing' PROVE r = Len(rides')
  <2>1. r \in 1..(Len(rides) + 1) /\ rides'[r].status \in ActiveRideStatus
    BY <1>2, <1>3 DEF Ongoing
  <2>2. r \notin 1..Len(rides)
    BY <1>2, <2>1 DEF Ongoing
  <2> QED BY <1>1, <1>2, <2>1, <2>2
<1>4. Len(rides') <= MaxRides /\ Len(rides) <= Len(rides')
  BY <1>1, <1>2
<1> QED BY <1>2, <1>3, <1>4 DEF RidesInv, RidesKept

LEMMA MoveRide ==
    ASSUME RidesInv, NEW r \in 1..Len(rides), rides[r].status \in ActiveRideStatus,
           NEW row \in RideRec, rides' = [rides EXCEPT ![r] = row]
    PROVE  RidesInv' /\ RidesKept /\ Len(rides') = Len(rides) /\ rides'[r] = row
<1>1. rides \in Seq(RideRec) /\ Len(rides) \in Nat /\ MaxRides \in Nat
  BY AppAssumption, LenProperties DEF RidesInv
<1>2. /\ rides' \in Seq(RideRec) /\ Len(rides') = Len(rides)
      /\ \A s \in 1..Len(rides) : rides'[s] = IF s = r THEN row ELSE rides[s]
      /\ DOMAIN rides = 1..Len(rides) /\ DOMAIN rides' = 1..Len(rides)
  BY <1>1, ExceptSeq, LenProperties
<1>3. r = Len(rides)
  BY <1>2 DEF RidesInv, Ongoing
<1>4. ASSUME NEW s \in Ongoing' PROVE s = Len(rides')
  <2>1. s \in 1..Len(rides) /\ rides'[s].status \in ActiveRideStatus
    BY <1>2, <1>4 DEF Ongoing
  <2> QED BY <1>2, <1>3, <2>1 DEF RidesInv, Ongoing
<1>5. \A s \in 1..Len(rides) : Over(rides[s].status) => rides'[s] = rides[s]
  BY <1>2 DEF Over, ActiveRideStatus
<1> QED BY <1>1, <1>2, <1>4, <1>5 DEF RidesInv, RidesKept

LEMMA RidesStay == ASSUME RidesInv, UNCHANGED rides PROVE RidesInv' /\ RidesKept
<1>1. Len(rides) \in Nat
  BY LenProperties DEF RidesInv
<1> QED BY <1>1 DEF RidesInv, RidesKept, Ongoing

\* A ride that can be cancelled, or driven on, is going on.
LEMMA OnlyActiveMoves ==
    ASSUME NEW from \in RideStatus, NEW to, NEW actor, CanTransitionRide(from, to, actor)
    PROVE  from \in ActiveRideStatus
BY DEF CanTransitionRide, RIDE_RULES, RideStatus, ActiveRideStatus, TerminalRideStatus

LEMMA RidesStep ==
    ASSUME AppInv, [Next]_vars PROVE RidesInv' /\ RidesKept
<1> USE DEF AppInv
<1>1. Cancelled \in RideRec
  BY DEF Cancelled, RideRec, RideStatus
<1>2. DOMAIN rides = 1..Len(rides)
  BY LenProperties DEF RidesInv
<1>3. CASE CreateRide
  BY <1>3, AddRide, RidesStay, Zenon DEF CreateRide
<1>4. CASE CancelRide
  <2> DEFINE r == calls["cancel"].ride
  <2>1. CASE rides' = rides
    BY <2>1, RidesStay
  <2>2. CASE CanTransitionRide(rides[r].status, "CANCELLED", "PASSENGER")
             /\ rides' = [rides EXCEPT ![r] = Cancelled]
    <3>1. r \in 1..Len(rides)
      BY <1>4 DEF CancelRide, CallsInv, CallOK, RideIds, NoRide, CallRec, Kinds
    <3>2. rides[r].status \in RideStatus
      BY <3>1, RideRowIs DEF RidesInv, RideRec
    <3>3. rides[r].status \in ActiveRideStatus
      BY <2>2, <3>2, OnlyActiveMoves
    <3> QED BY <1>1, <2>2, <3>1, <3>3, MoveRide
  <2> QED BY <1>4, <2>1, <2>2 DEF CancelRide
<1>5. ASSUME NEW r \in Ongoing, Drive(r) PROVE RidesInv' /\ RidesKept
  <2>1. PICK to \in RideStatus, shared \in BOOLEAN :
             rides' = [rides EXCEPT ![r] = [status |-> to, shared |-> shared]]
    BY <1>5 DEF Drive, Becomes
  <2>2. [status |-> to, shared |-> shared] \in RideRec
    BY DEF RideRec
  <2> QED BY <1>2, <2>1, <2>2, MoveRide DEF Ongoing
<1>6. ASSUME NEW r \in Ongoing, Company(r) PROVE RidesInv' /\ RidesKept
  <2>1. rides[r] \in RideRec /\ r \in 1..Len(rides)
    BY <1>2, RideRowIs DEF Ongoing, RidesInv
  <2>2. [rides[r] EXCEPT !.shared = ~@] \in RideRec
    BY <2>1 DEF RideRec
  <2>3. rides' = [rides EXCEPT ![r] = [rides[r] EXCEPT !.shared = ~@]]
    BY <1>6, Zenon DEF Company, Becomes
  <2> QED BY <2>1, <2>2, <2>3, MoveRide DEF Ongoing
<1>7. CASE Elsewhere
  <2>1. ASSUME NEW r \in Ongoing, Becomes(r, Cancelled) PROVE RidesInv' /\ RidesKept
    BY <1>1, <1>2, <2>1, MoveRide DEF Ongoing, Becomes
  <2> QED BY <1>7, <2>1, AddRide, Zenon DEF Elsewhere
<1>8. CASE UNCHANGED rides
  BY <1>8, RidesStay
<1>9. ASSUME Open \/ Focus \/ Close \/ ReadList \/ DeliverList \/ GiveUpList \/ Poll
             \/ ReadRow \/ Deliver \/ GiveUp \/ AskForRide \/ ReadCreated \/ AskToCancel
             \/ UNCHANGED vars
      PROVE  UNCHANGED rides
  BY <1>9, Zenon DEF Open, Focus, Close, ReadList, DeliverList, GiveUpList, Poll, ReadRow,
                     Deliver, GiveUp, AskForRide, ReadCreated, AskToCancel, Send, vars
<1>10. ASSUME NEW k \in Kinds, Succeed(k) \/ Fail(k) \/ LoseAnswer(k) \/ Forget(k)
       PROVE  UNCHANGED rides
  BY <1>10, Zenon DEF Succeed, Fail, LoseAnswer, Forget
<1> QED
  <2>1. Next \/ UNCHANGED vars
    OBVIOUS
  <2> QED BY <1>3, <1>4, <1>5, <1>6, <1>7, <1>8, <1>9, <1>10, <2>1, Zenon DEF Next

\* What was known of a ride that is over still holds.
LEMMA TruthStays ==
    ASSUME RidesInv, RidesKept, NEW r \in 1..Len(rides), Over(rides[r].status)
    PROVE  Truth(r)' = Truth(r) /\ RideRow(r)' = RideRow(r)
<1>1. rides'[r] = rides[r]
  BY DEF RidesKept
<1> QED BY <1>1 DEF Truth, RideRow

-----------------------------------------------------------------------------
\* The mutations.

\* A call that only its page has changed, or that is forgotten, stays in order.
LEMMA CallStays ==
    ASSUME RidesInv, RidesKept, RidesInv', NEW k \in Kinds, calls[k] \in CallRec,
           CallOK(k, calls[k]),
           \/ /\ calls'[k].pc = calls[k].pc /\ calls'[k].ride = calls[k].ride
              /\ calls'[k].view = calls[k].view
           \/ calls'[k] = NoCall
    PROVE  CallOK(k, calls[k])'
<1>1. /\ Len(rides) \in Nat /\ Len(rides') \in Nat /\ Len(rides) <= Len(rides')
  BY LenProperties DEF RidesInv, RidesKept
<1>2. CASE calls'[k] = NoCall
  BY <1>1, <1>2 DEF CallOK, NoCall, NoRide, None
<1>3. CASE /\ calls'[k].pc = calls[k].pc /\ calls'[k].ride = calls[k].ride
           /\ calls'[k].view = calls[k].view
  <2>1. calls[k].ride \in 0..Len(rides)
    BY <1>1 DEF CallOK, CallRec, RideIds, NoRide
  <2>2. calls'[k].ride <= Len(rides')
    BY <1>1, <1>3, <2>1
  <2>3. ASSUME calls[k].pc = "ok", Over(calls[k].view.status)
        PROVE  calls'[k].view = Truth(calls[k].ride)'
    <3>1. calls[k].ride \in 1..Len(rides) /\ calls[k].view = Truth(calls[k].ride)
      BY <1>1, <2>1, <2>3 DEF CallOK, NoRide
    <3>2. Over(rides[calls[k].ride].status)
      BY <2>3, <3>1, RideRowIs DEF RidesInv
    <3>3. rides'[calls[k].ride] = rides[calls[k].ride]
      BY <3>1, <3>2 DEF RidesKept
    <3> QED BY <1>3, <3>1, <3>3 DEF Truth, RideRow
  <2> QED BY <1>3, <2>2, <2>3 DEF CallOK
<1> QED BY <1>2, <1>3

LEMMA CallsStay ==
    ASSUME RidesInv, RidesKept, RidesInv', CallsInv,
           calls' = calls \/ calls' = Owned(calls)
    PROVE  CallsInv'
<1>1. calls' \in [Kinds -> CallRec]
  BY OwnedIs DEF CallsInv
<1>2. ASSUME NEW k \in Kinds PROVE CallOK(k, calls[k])'
  <2>1. calls[k] \in CallRec /\ CallOK(k, calls[k])
    BY DEF CallsInv
  <2>2. /\ calls'[k].pc = calls[k].pc /\ calls'[k].ride = calls[k].ride
        /\ calls'[k].view = calls[k].view
    BY OwnedIs DEF CallsInv
  <2> QED BY <2>1, <2>2, CallStays
<1> QED BY <1>1, <1>2, Zenon DEF CallsInv

\* One call changes, the other stays.
LEMMA OneCallChanges ==
    ASSUME RidesInv, RidesKept, RidesInv', CallsInv, NEW k \in Kinds, NEW c \in CallRec,
           calls' = [calls EXCEPT ![k] = c], CallOK(k, calls[k])'
    PROVE  CallsInv'
<1>1. calls' \in [Kinds -> CallRec]
  BY DEF CallsInv
<1>2. ASSUME NEW j \in Kinds PROVE CallOK(j, calls[j])'
  <2>1. calls[j] \in CallRec /\ CallOK(j, calls[j])
    BY DEF CallsInv
  <2>2. j # k => calls'[j] = calls[j]
    BY DEF CallsInv
  <2>3. CASE j = k
    BY <2>3
  <2>4. CASE j # k
    <3>1. /\ calls'[j].pc = calls[j].pc /\ calls'[j].ride = calls[j].ride
          /\ calls'[j].view = calls[j].view
      BY <2>2, <2>4
    <3> QED BY <2>1, <3>1, CallStays
  <2> QED BY <2>3, <2>4
<1> QED BY <1>1, <1>2, Zenon DEF CallsInv

LEMMA NoCallIs == NoCall \in CallRec /\ NoView \in View
BY DEF NoCall, CallRec, NoView, View, Fares, None, NoRide

\* The calls of each step: the ones that ask, that the API works on, and that the
\* page hears of.
LEMMA CallsStep ==
    ASSUME AppInv, [Next]_vars PROVE CallsInv'
<1> USE DEF AppInv
<1>1. RidesInv' /\ RidesKept
  BY RidesStep
<1>2. /\ calls \in [Kinds -> CallRec] /\ "create" \in Kinds /\ "cancel" \in Kinds
      /\ CallOK("create", calls["create"]) /\ CallOK("cancel", calls["cancel"])
      /\ Len(rides) \in Nat /\ MaxRides \in Nat /\ Len(rides) <= MaxRides
      /\ Len(rides') \in Nat /\ Len(rides') <= MaxRides
  BY <1>1, AppAssumption, LenProperties DEF CallsInv, Kinds, RidesInv
<1>3. CASE calls' = calls \/ calls' = Owned(calls)
  BY <1>1, <1>3, CallsStay
<1>4. CASE AskForRide
  <2> DEFINE c == [pc |-> "sent", ride |-> NoRide, view |-> NoView, own |-> TRUE,
                   heard |-> TRUE]
  <2>1. c \in CallRec
    BY NoCallIs DEF CallRec
  <2>2. calls' = [calls EXCEPT !["create"] = c] /\ rides' = rides
    BY <1>4, Zenon DEF AskForRide, Send
  <2>3. CallOK("create", calls["create"])'
    BY <1>2, <2>2 DEF CallOK, NoRide
  <2> QED BY <1>1, <1>2, <2>1, <2>2, <2>3, OneCallChanges
<1>5. CASE AskToCancel
  <2> DEFINE c == [pc |-> "sent", ride |-> Shown, view |-> detail[Shown].view,
                   own |-> TRUE, heard |-> TRUE]
  <2>1. Shown \in 1..Len(rides) /\ Shown \in RideIds /\ detail[Shown].view \in View
        /\ detail[Shown].view.status \in CANCELLABLE
    BY <1>2, <1>5, ShownIsKnown DEF AskToCancel, ViewShown, NoRide, RideIds, DetailInv
  <2>2. c \in CallRec
    BY <2>1 DEF CallRec
  <2>3. calls' = [calls EXCEPT !["cancel"] = c] /\ rides' = rides
    BY <1>5, Zenon DEF AskToCancel, Send
  <2>4. CallOK("cancel", calls["cancel"])'
    BY <1>2, <2>1, <2>3 DEF CallOK, NoRide
  <2> QED BY <1>1, <1>2, <2>2, <2>3, <2>4, OneCallChanges
<1>6. CASE CreateRide
  <2>1. CASE Ongoing # {}
    <3> DEFINE c == [calls["create"] EXCEPT !.pc = "refused"]
    <3>1. c \in CallRec
      BY <1>2 DEF CallRec
    <3>2. calls' = [calls EXCEPT !["create"] = c] /\ rides' = rides
      BY <1>2, <1>6, <2>1 DEF CreateRide
    <3>3. CallOK("create", calls["create"])'
      BY <1>2, <3>1, <3>2 DEF CallOK, CallRec
    <3> QED BY <1>1, <1>2, <3>1, <3>2, <3>3, OneCallChanges
  <2>2. CASE Ongoing = {}
    <3> DEFINE c == [calls["create"] EXCEPT !.pc = "made", !.ride = Len(rides) + 1]
    <3>1. Len(rides') = Len(rides) + 1 /\ Len(rides) + 1 \in RideIds
      BY <1>2, <1>6, <2>2, AddRide DEF CreateRide, RideIds
    <3>2. c \in CallRec
      BY <1>2, <3>1 DEF CallRec
    <3>3. calls' = [calls EXCEPT !["create"] = c]
      BY <1>2, <1>6, <2>2 DEF CreateRide
    <3>4. CallOK("create", calls["create"])'
      <4>1. calls'["create"] = c
        BY <1>2, <3>3
      <4>2. c.pc = "made" /\ c.ride = Len(rides) + 1
        BY <1>2 DEF CallRec
      <4> HIDE DEF c
      <4> QED BY <1>2, <3>1, <4>1, <4>2 DEF CallOK, NoRide
    <3> QED BY <1>1, <1>2, <3>2, <3>3, <3>4, OneCallChanges
  <2> QED BY <2>1, <2>2
<1>7. CASE ReadCreated
  <2> DEFINE r == calls["create"].ride
             c == [calls["create"] EXCEPT !.pc = "ok", !.view = Truth(r)]
  <2>1. r \in 1..Len(rides)
    BY <1>2, <1>7 DEF ReadCreated, CallOK, CallRec, RideIds, NoRide
  <2>2. Truth(r) \in View /\ Truth(r).status \in RideStatus
    BY <2>1, RideRowIs DEF RidesInv, RideRec
  <2>3. c \in CallRec
    BY <1>2, <2>2 DEF CallRec
  <2>4. calls' = [calls EXCEPT !["create"] = c] /\ rides' = rides
    BY <1>2, <1>7 DEF ReadCreated
  <2>5. CallOK("create", calls["create"])'
    <3>1. calls'["create"] = c
      BY <1>2, <2>4
    <3>2. c.pc = "ok" /\ c.ride = r /\ c.view = Truth(r)
      BY <1>2 DEF CallRec
    <3>3. Truth(calls["create"].ride)' = Truth(r)
      BY <2>4, <3>1, <3>2 DEF Truth, RideRow
    <3> HIDE DEF c, r
    <3> QED BY <1>2, <2>1, <2>2, <2>4, <3>1, <3>2, <3>3 DEF CallOK, NoRide
  <2> QED BY <1>1, <1>2, <2>3, <2>4, <2>5, OneCallChanges
<1>8. CASE CancelRide
  <2> DEFINE r == calls["cancel"].ride
  <2>1. r \in 1..Len(rides)
    BY <1>2, <1>8 DEF CancelRide, CallOK, CallRec, RideIds, NoRide
  <2>2. CASE CanTransitionRide(rides[r].status, "CANCELLED", "PASSENGER")
    <3> DEFINE c == [calls["cancel"] EXCEPT !.pc = "ok", !.view = CancelledView(r)]
    <3>1. CancelledView(r) \in View /\ CancelledView(r).status = "CANCELLED"
      BY DetailIs DEF CancelledView, Row, RideStatus, Fares
    <3>2. c \in CallRec
      BY <1>2, <3>1 DEF CallRec
    <3>3. calls' = [calls EXCEPT !["cancel"] = c] /\ rides' = [rides EXCEPT ![r] = Cancelled]
      BY <1>2, <1>8, <2>2 DEF CancelRide
    <3>4. rides'[r] = Cancelled /\ Len(rides') = Len(rides)
      BY <1>2, <2>1, <3>3, ExceptSeq, LenProperties DEF RidesInv
    <3>5. CallOK("cancel", calls["cancel"])'
      <4>1. calls'["cancel"] = c
        BY <1>2, <3>3
      <4>2. c.pc = "ok" /\ c.ride = r /\ c.view = CancelledView(r)
        BY <1>2 DEF CallRec
      <4>3. Truth(calls["cancel"].ride)' = CancelledView(r)
        <5>1. calls'["cancel"].ride = r
          BY <4>1, <4>2
        <5> HIDE DEF c, r
        <5>2. rides'[r].status = "CANCELLED" /\ rides'[r].shared = FALSE
          BY <3>4 DEF Cancelled
        <5> QED BY <5>1, <5>2 DEF Truth, RideRow, CancelledView
      <4>4. Over(CancelledView(r).status)
        BY <3>1 DEF Over, TerminalRideStatus
      <4>5. "CANCELLED" \in RideStatus
        BY DEF RideStatus
      <4> HIDE DEF c, r
      <4> QED BY <1>2, <2>1, <3>1, <3>4, <4>1, <4>2, <4>3, <4>4, <4>5 DEF CallOK, NoRide
    <3> QED BY <1>1, <1>2, <3>2, <3>3, <3>5, OneCallChanges
  <2>3. CASE ~CanTransitionRide(rides[r].status, "CANCELLED", "PASSENGER")
    <3> DEFINE c == [calls["cancel"] EXCEPT !.pc = "refused"]
    <3>1. c \in CallRec
      BY <1>2 DEF CallRec
    <3>2. calls' = [calls EXCEPT !["cancel"] = c] /\ rides' = rides
      BY <1>2, <1>8, <2>3 DEF CancelRide
    <3>3. CallOK("cancel", calls["cancel"])'
      BY <1>2, <3>1, <3>2 DEF CallOK, CallRec
    <3> QED BY <1>1, <1>2, <3>1, <3>2, <3>3, OneCallChanges
  <2> QED BY <2>2, <2>3
<1>9. ASSUME NEW k \in Kinds, calls' = [calls EXCEPT ![k] = NoCall] PROVE CallsInv'
  <2>1. calls'[k] = NoCall /\ calls[k] \in CallRec /\ CallOK(k, calls[k])
    BY <1>2, <1>9 DEF CallsInv
  <2>2. CallOK(k, calls[k])'
    BY <1>1, <2>1, CallStays
  <2> QED BY <1>1, <1>9, <2>2, NoCallIs, OneCallChanges
<1>10. ASSUME NEW k \in Kinds, Succeed(k) PROVE CallsInv'
  <2> DEFINE c == [calls EXCEPT ![k] = NoCall]
  <2>1. c \in [Kinds -> CallRec] /\ calls' = Owned(c)
    BY <1>2, <1>10, NoCallIs DEF Succeed
  <2>2. ASSUME NEW j \in Kinds PROVE CallOK(j, calls[j])'
    <3>1. calls[j] \in CallRec /\ CallOK(j, calls[j])
      BY DEF CallsInv
    <3>2. /\ calls'[j].pc = c[j].pc /\ calls'[j].ride = c[j].ride
          /\ calls'[j].view = c[j].view
      <4> HIDE DEF c
      <4> QED BY <2>1, OwnedIs
    <3>3. c[j] = calls[j] \/ c[j] = NoCall
      BY <1>2
    <3>4. CASE c[j] = calls[j]
      <4> HIDE DEF c
      <4>1. /\ calls'[j].pc = calls[j].pc /\ calls'[j].ride = calls[j].ride
            /\ calls'[j].view = calls[j].view
        BY <3>2, <3>4
      <4> QED BY <1>1, <3>1, <4>1, CallStays
    <3>5. CASE c[j] = NoCall
      <4> HIDE DEF c
      <4>1. /\ calls'[j].pc = None /\ calls'[j].ride = 0
        BY <3>2, <3>5 DEF NoCall, NoRide
      <4> QED BY <1>2, <4>1 DEF CallOK, None
    <3> QED BY <3>3, <3>4, <3>5
  <2>3. calls' \in [Kinds -> CallRec]
    <3> HIDE DEF c
    <3> QED BY <2>1, OwnedIs
  <2> QED BY <2>2, <2>3, Zenon DEF CallsInv
<1>11. ASSUME NEW k \in Kinds, LoseAnswer(k) PROVE CallsInv'
  <2>1. calls' = [calls EXCEPT ![k].heard = FALSE, ![k].own = FALSE]
    BY <1>11, Zenon DEF LoseAnswer
  <2>2. calls' \in [Kinds -> CallRec]
    BY <1>2, <2>1 DEF CallRec
  <2>3. ASSUME NEW j \in Kinds PROVE CallOK(j, calls[j])'
    <3>1. calls[j] \in CallRec /\ CallOK(j, calls[j])
      BY DEF CallsInv
    <3>2. /\ calls'[j].pc = calls[j].pc /\ calls'[j].ride = calls[j].ride
          /\ calls'[j].view = calls[j].view
      BY <1>2, <2>1 DEF CallRec
    <3> QED BY <1>1, <3>1, <3>2, CallStays
  <2> QED BY <2>2, <2>3, Zenon DEF CallsInv
<1>12. ASSUME Open \/ Focus \/ Close \/ ReadList \/ DeliverList \/ GiveUpList \/ Poll
              \/ ReadRow \/ Deliver \/ GiveUp \/ Elsewhere \/ UNCHANGED vars
       PROVE  calls' = calls \/ calls' = Owned(calls)
  BY <1>12, Zenon DEF Open, Focus, Close, ReadList, DeliverList, GiveUpList, Poll, ReadRow,
                      Deliver, GiveUp, Elsewhere, Becomes, vars
<1>13. ASSUME NEW r \in Ongoing, Drive(r) \/ Company(r) PROVE calls' = calls
  BY <1>13, Zenon DEF Drive, Company, Becomes
<1>14. ASSUME NEW k \in Kinds, Fail(k) \/ Forget(k)
       PROVE  calls' = [calls EXCEPT ![k] = NoCall]
  BY <1>14, Zenon DEF Fail, Forget
<1> QED
  <2>1. Next \/ UNCHANGED vars
    OBVIOUS
  <2>2. ASSUME NEW k \in Kinds, Succeed(k) \/ Fail(k) \/ LoseAnswer(k) \/ Forget(k)
        PROVE  CallsInv'
    BY <1>9, <1>10, <1>11, <1>14, <2>2, Zenon
  <2> QED BY <1>3, <1>4, <1>5, <1>6, <1>7, <1>8, <1>12, <1>13, <2>1, <2>2, Zenon DEF Next

-----------------------------------------------------------------------------
\* The list.

LEMMA ListStep ==
    ASSUME AppInv, [Next]_vars PROVE ListInv'
<1> USE DEF AppInv
<1>1. /\ RidesKept /\ MaxFaults \in Nat
      /\ Len(rides) \in Nat /\ Len(rides') \in Nat /\ Len(rides) <= Len(rides')
  BY RidesStep, AppAssumption, LenProperties DEF RidesInv, RidesKept
\* A list, a fetch and a ride already known stay known.
<1>2. ASSUME NEW rows \in Seq(Entry), \A i \in DOMAIN rows : rows[i].id <= Len(rides)
      PROVE  \A i \in DOMAIN rows : rows[i].id <= Len(rides')
  <2>1. \A i \in DOMAIN rows : rows[i] \in Entry
    BY ElementOfSeq, LenProperties
  <2>2. \A i \in DOMAIN rows : rows[i].id \in Int
    BY <2>1 DEF Entry, RideIds
  <2> QED BY <1>1, <1>2, <2>2
<1>3. /\ \A i \in DOMAIN mine.rows : mine.rows[i].id <= Len(rides')
      /\ \A i \in DOMAIN listing.rows : listing.rows[i].id <= Len(rides')
      /\ justCreated <= Len(rides')
  BY <1>1, <1>2 DEF ListInv, RideIds, NoRide
<1>4. /\ ListSent \in [pc : {"idle", "sent", "read"}, rows : Seq(Entry)]
      /\ ListIdle \in [pc : {"idle", "sent", "read"}, rows : Seq(Entry)]
      /\ DOMAIN ListSent.rows = {} /\ DOMAIN ListIdle.rows = {} /\ ListIdle.pc = "idle"
  <2>1. << >> \in Seq(Entry)
    BY EmptySeq
  <2>2. ListIdle = [pc |-> "idle", rows |-> << >>]
    BY DEF ListIdle
  <2>3. ListSent = [pc |-> "sent", rows |-> << >>]
    BY DEF ListSent, ListIdle
  <2> QED BY <2>1, <2>2, <2>3
<1>5. ASSUME UNCHANGED <<mine, open, justCreated, faults>>,
             listing' = listing \/ (open /\ listing' = ListSent)
      PROVE  ListInv'
  BY <1>3, <1>4, <1>5 DEF ListInv
<1>6. CASE Open
  BY <1>3, <1>4, <1>6 DEF Open, ListInv
<1>7. CASE Close
  <2>1. /\ open' = FALSE /\ justCreated' = NoRide /\ listing' = ListIdle
        /\ UNCHANGED <<mine, faults>>
    BY <1>7 DEF Close
  <2>2. NoRide <= Len(rides')
    BY <1>1 DEF NoRide
  <2> QED BY <1>3, <1>4, <2>1, <2>2 DEF ListInv
<1>8. CASE ReadList
  <2>1. /\ listing' = [pc |-> "read", rows |-> ListRides] /\ open
        /\ UNCHANGED <<mine, open, justCreated, faults>>
    BY <1>8 DEF ReadList, ListInv
  <2>2. /\ ListRides \in Seq(Entry)
        /\ \A i \in DOMAIN ListRides : ListRides[i].id <= Len(rides')
    BY <1>2, ListRidesIs
  <2> HIDE DEF AppInv
  <2> QED BY <1>3, <2>1, <2>2 DEF AppInv, ListInv
<1>9. CASE DeliverList
  BY <1>3, <1>4, <1>9 DEF DeliverList, ListInv
<1>10. CASE GiveUpList
  <2>1. faults' \in 0..MaxFaults
    BY <1>1, <1>10 DEF GiveUpList, ListInv
  <2>2. /\ mine' \in [loaded : BOOLEAN, err : BOOLEAN, rows : Seq(Entry)]
        /\ mine'.rows = mine.rows
    BY <1>10 DEF GiveUpList, ListInv
  <2>3. listing' = ListIdle /\ UNCHANGED <<open, justCreated>>
    BY <1>10 DEF GiveUpList
  <2> QED BY <1>3, <1>4, <2>1, <2>2, <2>3 DEF ListInv
<1>11. ASSUME UNCHANGED <<mine, listing, open, justCreated>>, faults < MaxFaults,
              faults' = faults + 1
       PROVE  ListInv'
  <2>1. faults' \in 0..MaxFaults
    BY <1>1, <1>11 DEF ListInv
  <2> QED BY <1>3, <1>11, <2>1 DEF ListInv
<1>12. ASSUME NEW k \in Kinds, Succeed(k) PROVE ListInv'
  <2>1. calls[k].ride \in RideIds \cup {NoRide} /\ calls[k].ride <= Len(rides)
    BY DEF CallsInv, CallOK, CallRec
  <2>2. justCreated' \in RideIds \cup {NoRide} /\ justCreated' <= Len(rides')
    BY <1>1, <1>3, <1>12, <2>1 DEF Succeed, ListInv, RideIds, NoRide
  <2>3. /\ UNCHANGED <<mine, open, faults>>
        /\ listing' = listing \/ (open /\ listing' = ListSent)
    BY <1>12 DEF Succeed, Invalidated
  <2> QED BY <1>3, <1>4, <2>2, <2>3 DEF ListInv
<1>13. CASE GiveUp
  BY <1>11, <1>13, Zenon DEF GiveUp
<1>14. ASSUME NEW k \in Kinds, LoseAnswer(k) PROVE ListInv'
  BY <1>11, <1>14, Zenon DEF LoseAnswer
<1>15. ASSUME Focus \/ Poll \/ ReadRow \/ Deliver \/ AskForRide \/ CreateRide
              \/ ReadCreated \/ AskToCancel \/ CancelRide \/ Elsewhere \/ UNCHANGED vars
       PROVE  /\ UNCHANGED <<mine, open, justCreated, faults>>
              /\ listing' = listing \/ (open /\ listing' = ListSent)
  BY <1>15, Zenon DEF Focus, Poll, ReadRow, Deliver, AskForRide, CreateRide, ReadCreated,
                      AskToCancel, Send, CancelRide, Elsewhere, Becomes, vars
<1>16. ASSUME NEW k \in Kinds, Fail(k) \/ Forget(k)
       PROVE  UNCHANGED <<mine, listing, open, justCreated, faults>>
  BY <1>16, Zenon DEF Fail, Forget
<1>17. ASSUME NEW r \in Ongoing, Drive(r) \/ Company(r)
       PROVE  UNCHANGED <<mine, listing, open, justCreated, faults>>
  BY <1>17, Zenon DEF Drive, Company, Becomes
<1> QED
  <2>1. Next \/ UNCHANGED vars
    OBVIOUS
  <2>2. ASSUME NEW k \in Kinds, Succeed(k) \/ Fail(k) \/ LoseAnswer(k) \/ Forget(k)
        PROVE  ListInv'
    BY <1>5, <1>12, <1>14, <1>16, <2>2, Zenon
  <2>3. ASSUME NEW r \in Ongoing, Drive(r) \/ Company(r) PROVE ListInv'
    BY <1>5, <1>17, <2>3, Zenon
  <2> QED BY <1>5, <1>6, <1>7, <1>8, <1>9, <1>10, <1>13, <1>15, <2>1, <2>2, <2>3, Zenon
       DEF Next

-----------------------------------------------------------------------------
\* The caches of the rides.

\* What is put into the cache of a ride: of an existing ride, and right if it says
\* that the ride is over.
LEMMA DetailChanges ==
    ASSUME RidesInv, RidesKept, DetailInv, NEW r \in 1..Len(rides),
           NEW view \in View, Over(view.status) => view = Truth(r), NEW err \in BOOLEAN,
           detail' = [detail EXCEPT ![r] = [view |-> view, err |-> err]], UNCHANGED rides
    PROVE  DetailInv'
<1>1. Len(rides) \in Nat /\ MaxRides \in Nat /\ Len(rides) <= MaxRides
  BY AppAssumption, LenProperties DEF RidesInv
<1>2. r \in RideIds
  BY <1>1 DEF RideIds
<1>3. /\ detail' \in [RideIds -> [view : View, err : BOOLEAN]]
      /\ detail'[r].view = view
      /\ \A s \in RideIds \ {r} : detail'[s] = detail[s]
  BY <1>2 DEF DetailInv
<1>4. ASSUME NEW s \in RideIds PROVE /\ detail'[s].view # NoView => s <= Len(rides')
                                     /\ Over(detail'[s].view.status) =>
                                           detail'[s].view = Truth(s)
  BY <1>1, <1>3 DEF DetailInv, ReceiptIsFinal
<1>5. \A s \in RideIds : Truth(s)' = Truth(s)
  BY DEF Truth, RideRow
<1> QED BY <1>3, <1>4, <1>5 DEF DetailInv, ReceiptIsFinal

LEMMA DetailStays ==
    ASSUME RidesInv, RidesInv', RidesKept, DetailInv,
           detail' \in [RideIds -> [view : View, err : BOOLEAN]],
           \A r \in RideIds : detail'[r].view = detail[r].view
    PROVE  DetailInv'
<1>1. /\ Len(rides) \in Nat /\ Len(rides') \in Nat /\ Len(rides) <= Len(rides')
  BY LenProperties DEF RidesInv, RidesKept
<1>2. \A r \in RideIds : detail'[r].view # NoView => r <= Len(rides')
  BY <1>1 DEF DetailInv, RideIds
<1>3. ASSUME NEW r \in RideIds, Over(detail'[r].view.status)
      PROVE  detail'[r].view = Truth(r)'
  <2>1. detail[r].view # NoView
    BY <1>3 DEF Over, NoView, None, TerminalRideStatus
  <2>2. r \in 1..Len(rides) /\ detail[r].view = Truth(r)
    BY <1>1, <1>3, <2>1 DEF DetailInv, ReceiptIsFinal, RideIds
  <2>3. Over(rides[r].status)
    BY <1>3, <2>2, RideRowIs DEF RidesInv
  <2> QED BY <2>2, <2>3, TruthStays
<1> QED BY <1>2, <1>3 DEF DetailInv, ReceiptIsFinal

\* What an answer brings of a ride that was fetched.
LEMMA DeliveredIs ==
    ASSUME AppInv, Deliver
    PROVE  /\ Shown \in 1..Len(rides)
           /\ Detail(look.row, rides[Shown].shared) \in View
           /\ Detail(look.row, rides[Shown].shared).status = look.row.status
           /\ Over(look.row.status) =>
                 Detail(look.row, rides[Shown].shared) = Truth(Shown)
<1> USE DEF AppInv
<1>1. Shown \in 1..Len(rides)
  <2>1. Len(rides) \in Nat /\ Shown # 0
    BY LenProperties DEF Deliver, LookInv, NoRide, RidesInv
  <2> QED BY <2>1, ShownIsKnown
<1>2. look.row \in Row /\ look.row.status \in RideStatus /\ rides[Shown].shared \in BOOLEAN
  BY <1>1, RideRowIs DEF Deliver, LookInv, RidesInv, RideRec
<1> QED BY <1>1, <1>2, DetailIs DEF Deliver, LookInv, Truth

LEMMA DetailStep ==
    ASSUME AppInv, [Next]_vars PROVE DetailInv'
<1> USE DEF AppInv
<1>1. RidesInv' /\ RidesKept
  BY RidesStep
<1>2. /\ detail \in [RideIds -> [view : View, err : BOOLEAN]]
      /\ Len(rides) \in Nat /\ MaxRides \in Nat /\ Len(rides) <= MaxRides
  BY AppAssumption, LenProperties DEF DetailInv, RidesInv
<1>3. CASE UNCHANGED detail
  BY <1>1, <1>2, <1>3, DetailStays
<1>4. CASE Deliver
  <2> DEFINE view == Detail(look.row, rides[Shown].shared)
  <2>1. detail' = [detail EXCEPT ![Shown] = [view |-> view, err |-> FALSE]]
        /\ UNCHANGED rides
    BY <1>4 DEF Deliver
  <2>2. Shown \in 1..Len(rides) /\ view \in View /\ (Over(view.status) => view = Truth(Shown))
    BY <1>4, DeliveredIs
  <2> HIDE DEF view
  <2> QED BY <1>1, <2>1, <2>2, DetailChanges
<1>5. CASE GiveUp
  <2>1. detail' = [detail EXCEPT ![Shown].err = TRUE]
    BY <1>5 DEF GiveUp
  <2>2. /\ detail' \in [RideIds -> [view : View, err : BOOLEAN]]
        /\ \A r \in RideIds : detail'[r].view = detail[r].view
    BY <1>2, <2>1
  <2> QED BY <1>1, <2>2, DetailStays
<1>6. ASSUME NEW k \in Kinds, Succeed(k) PROVE DetailInv'
  <2> DEFINE r == calls[k].ride  view == calls[k].view
  <2>1. detail' = [detail EXCEPT ![r] = [view |-> view, err |-> FALSE]] /\ UNCHANGED rides
    BY <1>6 DEF Succeed
  <2>2. calls[k] \in CallRec /\ CallOK(k, calls[k]) /\ calls[k].pc = "ok"
    BY <1>6 DEF CallsInv, Succeed
  <2>3. r \in 1..Len(rides) /\ view \in View /\ (Over(view.status) => view = Truth(r))
    BY <1>2, <2>2 DEF CallOK, CallRec, RideIds, NoRide
  <2> HIDE DEF r, view
  <2> QED BY <1>1, <2>1, <2>3, DetailChanges
<1>7. ASSUME Open \/ Focus \/ Close \/ ReadList \/ DeliverList \/ GiveUpList \/ Poll
             \/ ReadRow \/ AskForRide \/ CreateRide \/ ReadCreated \/ AskToCancel
             \/ CancelRide \/ Elsewhere \/ UNCHANGED vars
      PROVE  UNCHANGED detail
  BY <1>7, Zenon DEF Open, Focus, Close, ReadList, DeliverList, GiveUpList, Poll, ReadRow,
       AskForRide, CreateRide, ReadCreated, AskToCancel, Send, CancelRide, Elsewhere,
       Becomes, vars
<1>8. ASSUME NEW k \in Kinds, Fail(k) \/ LoseAnswer(k) \/ Forget(k) PROVE UNCHANGED detail
  BY <1>8, Zenon DEF Fail, LoseAnswer, Forget
<1>9. ASSUME NEW r \in Ongoing, Drive(r) \/ Company(r) PROVE UNCHANGED detail
  BY <1>9, Zenon DEF Drive, Company, Becomes
<1> QED
  <2>1. Next \/ UNCHANGED vars
    OBVIOUS
  <2> QED BY <1>3, <1>4, <1>5, <1>6, <1>7, <1>8, <1>9, <2>1, Zenon DEF Next

-----------------------------------------------------------------------------
\* The fetch of the ride on the screen.

LEMMA FetchIs ==
    /\ Idle \in [pc : {"idle", "sent", "row"}, row : Row] /\ Idle.pc = "idle"
    /\ Sent \in [pc : {"idle", "sent", "row"}, row : Row] /\ Sent.pc = "sent"
<1>1. NoRow \in Row
  BY DEF NoRow, Row, Fares, None
<1> QED BY <1>1 DEF Idle, Sent

\* A fetch that has not begun to read, or that goes on for the same ride.
LEMMA LookRestarts ==
    ASSUME look' = Idle \/ (look' = Sent /\ Shown' # NoRide) PROVE LookInv'
BY FetchIs DEF LookInv

LEMMA LookStays ==
    ASSUME AppInv, RidesKept, look' = look, Shown' = Shown,
           Shown \in RideIds => detail'[Shown].view = detail[Shown].view
    PROVE  LookInv'
<1> USE DEF AppInv
<1>1. look' \in [pc : {"idle", "sent", "row"}, row : Row]
      /\ (look'.pc # "idle" => Shown' # NoRide)
  BY DEF LookInv
<1>2. ASSUME look.pc = "row"
      PROVE  /\ look.row.status \in RideStatus
             /\ Over(look.row.status) => look.row = RideRow(Shown)'
             /\ Over(detail'[Shown].view.status) => Over(look.row.status)
  <2>1. /\ look.row.status \in RideStatus
        /\ Over(look.row.status) => look.row = RideRow(Shown)
        /\ Over(detail[Shown].view.status) => Over(look.row.status)
        /\ Shown # NoRide
    BY <1>2 DEF LookInv
  <2>2. Shown \in 1..Len(rides) /\ Shown \in RideIds
    <3>1. Len(rides) \in Nat /\ MaxRides \in Nat /\ Len(rides) <= MaxRides
      BY AppAssumption, LenProperties DEF RidesInv
    <3> QED BY <2>1, <3>1, ShownIsKnown DEF NoRide, RideIds
  <2>3. ASSUME Over(look.row.status) PROVE look.row = RideRow(Shown)'
    <3>1. Over(rides[Shown].status)
      BY <2>1, <2>2, <2>3, RideRowIs DEF RidesInv
    <3>2. rides'[Shown] = rides[Shown]
      BY <2>2, <3>1 DEF RidesKept
    <3> QED BY <2>1, <2>3, <3>2 DEF RideRow
  <2> QED BY <2>1, <2>2, <2>3
<1> QED BY <1>1, <1>2 DEF LookInv

\* After rendering, a fetch goes on only for the ride that it was sent for.
LEMMA LookRendered ==
    ASSUME AppInv, RidesKept, look' = Rendered(look),
           Shown \in RideIds => detail'[Shown].view = detail[Shown].view
    PROVE  LookInv'
<1>1. CASE Shown' = NoRide
  BY <1>1, LookRestarts DEF Rendered
<1>2. CASE Shown' # NoRide /\ Shown' # Shown
  BY <1>2, LookRestarts DEF Rendered
<1>3. CASE Shown' # NoRide /\ Shown' = Shown
  BY <1>3, LookStays DEF Rendered
<1> QED BY <1>1, <1>2, <1>3

LEMMA LookStep ==
    ASSUME AppInv, [Next]_vars PROVE LookInv'
<1> USE DEF AppInv
<1>1. RidesInv' /\ RidesKept
  BY RidesStep
<1>2. ASSUME UNCHANGED <<look, detail, mine, open, justCreated>> PROVE LookInv'
  BY <1>1, <1>2, LookStays, ShownStays
<1>3. ASSUME look' = Rendered(look), UNCHANGED detail PROVE LookInv'
  BY <1>1, <1>3, LookRendered
<1>4. CASE Focus
  <2>1. Shown' = Shown
    BY <1>4, ShownStays DEF Focus
  <2>2. UNCHANGED detail /\ (look' = look \/ (look' = Sent /\ Shown # NoRide))
    BY <1>4 DEF Focus
  <2> QED BY <1>1, <2>1, <2>2, LookStays, LookRestarts
<1>5. CASE Poll
  BY <1>5, ShownStays, LookRestarts DEF Poll
<1>6. CASE ReadRow
  <2>1. Shown' = Shown /\ UNCHANGED <<rides, detail>>
        /\ look' = [pc |-> "row", row |-> RideRow(Shown)]
    BY <1>6, ShownStays DEF ReadRow
  <2>2. Shown # NoRide /\ Shown \in 1..Len(rides) /\ Shown \in RideIds
    <3>1. Len(rides) \in Nat /\ MaxRides \in Nat /\ Len(rides) <= MaxRides
      BY AppAssumption, LenProperties DEF RidesInv
    <3>2. Shown # NoRide
      BY <1>6 DEF ReadRow, LookInv
    <3> QED BY <3>1, <3>2, ShownIsKnown DEF NoRide, RideIds
  <2>3. /\ RideRow(Shown) \in Row /\ RideRow(Shown).status = rides[Shown].status
        /\ rides[Shown].status \in RideStatus
        /\ Truth(Shown).status = rides[Shown].status
    BY <2>2, RideRowIs DEF RidesInv, RideRec
  <2>4. Over(detail[Shown].view.status) => Over(RideRow(Shown).status)
    BY <2>2, <2>3 DEF DetailInv, ReceiptIsFinal
  <2>5. RideRow(Shown)' = RideRow(Shown)
    BY <2>1 DEF RideRow
  <2> HIDE DEF AppInv
  <2> QED BY <2>1, <2>2, <2>3, <2>4, <2>5 DEF LookInv
<1>7. CASE Deliver \/ GiveUp
  BY <1>7, LookRestarts DEF Deliver, GiveUp
<1>8. ASSUME NEW k \in Kinds, Succeed(k) PROVE LookInv'
  <2> DEFINE l == IF Shown # NoRide /\ Refetch(look.pc, detail'[Shown].view # NoView)
                  THEN Sent ELSE look
  <2>1. look' = Rendered(l)
    BY <1>8 DEF Succeed, Invalidated
  <2>2. CASE Shown' = NoRide
    BY <2>1, <2>2, LookRestarts DEF Rendered
  <2>3. CASE Shown' # NoRide /\ Shown' # Shown
    BY <2>1, <2>3, LookRestarts DEF Rendered
  <2>4. CASE Shown' # NoRide /\ Shown' = Shown
    <3>1. look' = l
      BY <2>1, <2>4 DEF Rendered
    <3>2. CASE l = Sent
      BY <2>4, <3>1, <3>2, LookRestarts
    <3>3. CASE l # Sent
      <4>1. look' = look /\ detail'[Shown].view = NoView
        BY <2>4, <3>1, <3>3 DEF Refetch
      <4>2. detail' = [detail EXCEPT ![calls[k].ride] =
                          [view |-> calls[k].view, err |-> FALSE]]
        BY <1>8 DEF Succeed
      <4>3. calls[k].view # NoView
        BY <1>8 DEF Succeed, CallsInv, CallOK, NoView, None, RideStatus
      <4>4. Shown \in RideIds => detail'[Shown].view = detail[Shown].view
        BY <4>1, <4>2, <4>3 DEF DetailInv
      <4> QED BY <1>1, <2>4, <4>1, <4>4, LookStays
    <3> QED BY <3>2, <3>3
  <2> QED BY <2>2, <2>3, <2>4
<1>9. ASSUME Open \/ Close \/ DeliverList \/ GiveUpList
      PROVE  look' = Rendered(look) /\ UNCHANGED detail
  BY <1>9, Zenon DEF Open, Close, DeliverList, GiveUpList
<1>10. ASSUME ReadList \/ AskForRide \/ CreateRide \/ ReadCreated \/ AskToCancel
              \/ CancelRide \/ Elsewhere \/ UNCHANGED vars
       PROVE  UNCHANGED <<look, detail, mine, open, justCreated>>
  BY <1>10, Zenon DEF ReadList, AskForRide, CreateRide, ReadCreated, AskToCancel, Send,
       CancelRide, Elsewhere, Becomes, vars
<1>11. ASSUME NEW k \in Kinds, Fail(k) \/ LoseAnswer(k) \/ Forget(k)
       PROVE  UNCHANGED <<look, detail, mine, open, justCreated>>
  BY <1>11, Zenon DEF Fail, LoseAnswer, Forget
<1>12. ASSUME NEW r \in Ongoing, Drive(r) \/ Company(r)
       PROVE  UNCHANGED <<look, detail, mine, open, justCreated>>
  BY <1>12, Zenon DEF Drive, Company, Becomes
<1> QED
  <2>1. Next \/ UNCHANGED vars
    OBVIOUS
  <2>2. ASSUME NEW k \in Kinds, Succeed(k) \/ Fail(k) \/ LoseAnswer(k) \/ Forget(k)
        PROVE  LookInv'
    BY <1>2, <1>8, <1>11, <2>2, Zenon
  <2>3. ASSUME NEW r \in Ongoing, Drive(r) \/ Company(r) PROVE LookInv'
    BY <1>2, <1>12, <2>3, Zenon
  <2> QED BY <1>2, <1>3, <1>4, <1>5, <1>6, <1>7, <1>9, <1>10, <2>1, <2>2, <2>3, Zenon
       DEF Next

-----------------------------------------------------------------------------
\* The theorems.

LEMMA AppStart == Init => AppInv
<1> SUFFICES ASSUME Init PROVE AppInv
  OBVIOUS
<1>1. MaxRides \in Nat /\ MaxFaults \in Nat /\ Past \in Nat /\ Past <= MaxRides
  BY AppAssumption
<1>2. rides \in Seq(RideRec) /\ Len(rides) = Past
      /\ \A r \in DOMAIN rides : rides[r].status = "CANCELLED"
  <2>1. /\ rides = [r \in 1..Past |-> [status |-> "CANCELLED", shared |-> FALSE]]
        /\ [status |-> "CANCELLED", shared |-> FALSE] \in RideRec
    BY DEF Init, RideRec, RideStatus
  <2> QED BY <1>1, <2>1
<1>3. RidesInv
  BY <1>1, <1>2 DEF RidesInv, Ongoing, ActiveRideStatus, TerminalRideStatus
<1>4. ListInv
  <2>1. << >> \in Seq(Entry) /\ Len(rides) >= 0 /\ 0 \in 0..MaxFaults
    BY <1>1, <1>2, EmptySeq
  <2>2. /\ mine = [loaded |-> FALSE, err |-> FALSE, rows |-> << >>]
        /\ listing = [pc |-> "idle", rows |-> << >>]
        /\ open = FALSE /\ justCreated = NoRide /\ faults = 0
    BY DEF Init, ListIdle
  <2>3. \A i \in DOMAIN << >> : FALSE
    OBVIOUS
  <2> QED BY <2>1, <2>2, <2>3 DEF ListInv, NoRide
<1>5. CallsInv
  BY <1>1, <1>2, NoCallIs DEF Init, CallsInv, CallOK, NoCall, NoRide, None
<1>6. DetailInv
  BY NoCallIs DEF Init, DetailInv, ReceiptIsFinal, Over, TerminalRideStatus, NoView, None
<1>7. LookInv
  BY FetchIs DEF Init, LookInv
<1> QED BY <1>3, <1>4, <1>5, <1>6, <1>7 DEF AppInv

\* The inductive invariant of the page.
THEOREM AppInvariance == Spec => []AppInv
<1>1. AppInv /\ [Next]_vars => AppInv'
  BY RidesStep, ListStep, CallsStep, DetailStep, LookStep, Zenon DEF AppInv
<1> QED BY <1>1, AppStart, PTL DEF Spec

\* The page and its cache have their types, and a ride is fetched only while one is
\* on the screen (use-rides.ts:62).
THEOREM AppTypeCorrect == Spec => []AppTypeOK
<1>1. AppInv => AppTypeOK
  BY DEF AppInv, RidesInv, ListInv, CallsInv, DetailInv, LookInv, AppTypeOK, RideRec, CallRec
<1> QED BY <1>1, AppInvariance, PTL

\* What the page says of a ride that it has seen end stays true, whatever answer is
\* in flight, and however many requests failed (use-rides.ts:68, rides.service.ts:226).
THEOREM ReceiptsAreFinal == Spec => []ReceiptIsFinal
<1>1. AppInv => ReceiptIsFinal
  BY DEF AppInv, DetailInv
<1> QED BY <1>1, AppInvariance, PTL

\* An up-to-date list leads to the live ride, for any length of the page and however
\* many rides came before it (use-rides.ts:121, rides.service.ts:175).
THEOREM LiveRideIsAlwaysFound == Spec => []LiveRideIsFound
<1>1. AppInv => LiveRideIsFound
  <2> SUFFICES ASSUME AppInv, NEW r \in Ongoing, open, ~mine.err, mine.rows = ListRides
               PROVE  Shown = r
    BY DEF LiveRideIsFound
  <2>1. r = Len(rides) /\ r \in 1..Len(rides) /\ rides[r].status \in ActiveRideStatus
    BY LenProperties DEF AppInv, RidesInv, Ongoing
  <2>2. rides # << >>
    BY <2>1
  <2>3. 1 \in DOMAIN mine.rows /\ mine.rows[1] = Listed(r)
    BY <2>1, <2>2, ListRidesIs DEF AppInv
  <2>4. Listed(r).id = r /\ Listed(r).live
    BY <2>1 DEF Listed, LiveStatus, ActiveRideStatus, RideStatus, TerminalRideStatus
  <2> DEFINE live == {i \in DOMAIN mine.rows : mine.rows[i].live}
  <2>5. live \in SUBSET (Nat \ {0}) /\ 1 \in live
    BY <2>3, <2>4, LenProperties DEF AppInv, ListInv
  <2>6. Min(live) = 1
    <3> HIDE DEF live
    <3>1. Min(live) \in live /\ Min(live) <= 1
      BY <2>5, LeastOf
    <3>2. Min(live) \in Nat /\ Min(live) # 0
      BY <2>5, <3>1
    <3> QED BY <3>1, <3>2
  <2>7. ActiveRide = r
    BY <2>3, <2>4, <2>5, <2>6 DEF ActiveRide
  <2>8. r # NoRide
    BY <2>1 DEF NoRide
  <2> QED BY <2>7, <2>8 DEF Shown
<1> QED BY <1>1, AppInvariance, PTL

\* What the page offers to cancel, the API lets a passenger cancel.
LEMMA CancellableCanBeCancelled ==
    ASSUME NEW status \in CANCELLABLE
    PROVE  CanTransitionRide(status, "CANCELLED", "PASSENGER")
<1>1. CASE status = "REQUESTED"
  <2>1. Rule("CANCELLED", {"PASSENGER"}) \in RIDE_RULES[status]
    BY <1>1 DEF RIDE_RULES
  <2> QED BY <2>1 DEF CanTransitionRide, Rule
<1>2. CASE status = "MATCHED"
  <2>1. Rule("CANCELLED", {"PASSENGER"}) \in RIDE_RULES[status]
    BY <1>2 DEF RIDE_RULES
  <2> QED BY <2>1 DEF CanTransitionRide, Rule
<1>3. CASE status = "DRIVER_ARRIVED"
  <2>1. Rule("CANCELLED", {"PASSENGER", "DRIVER"}) \in RIDE_RULES[status]
    BY <1>3 DEF RIDE_RULES
  <2> QED BY <2>1 DEF CanTransitionRide, Rule
<1> QED BY <1>1, <1>2, <1>3 DEF CANCELLABLE

\* The API refuses a cancel only of a ride that has moved on since the page offered
\* it (active-ride.tsx:12).
THEOREM RefusalsAreDeserved == Spec => RefusedOnlyIfMoved
<1> DEFINE c == calls["cancel"]
<1>1. ASSUME AppInv, [Next]_vars, c.pc = "sent", c'.pc = "refused"
      PROVE  rides[c.ride].status # c.view.status
  <2>1. /\ calls \in [Kinds -> CallRec] /\ "create" \in Kinds /\ "cancel" \in Kinds
        /\ c \in CallRec /\ CallOK("cancel", c)
    BY <1>1 DEF AppInv, CallsInv, Kinds
  <2>2. CASE CancelRide
    <3>1. ~CanTransitionRide(rides[c.ride].status, "CANCELLED", "PASSENGER")
      <4>1. ASSUME calls' = [calls EXCEPT !["cancel"].pc = "ok",
                                          !["cancel"].view = CancelledView(c.ride)]
            PROVE  FALSE
        BY <1>1, <2>1, <4>1 DEF CallRec
      <4> QED BY <2>2, <4>1 DEF CancelRide
    <3>2. c.view.status \in CANCELLABLE
      BY <1>1, <2>1 DEF CallOK
    <3>3. CanTransitionRide(c.view.status, "CANCELLED", "PASSENGER")
      BY <3>2, CancellableCanBeCancelled
    <3> QED BY <3>1, <3>3
  \* No other step answers a cancel that way.
  <2>3. CASE calls' = calls \/ calls' = Owned(calls)
    BY <1>1, <2>1, <2>3, OwnedIs
  <2>4. CASE AskForRide \/ CreateRide \/ ReadCreated
    <3>1. calls'["cancel"] = calls["cancel"]
      BY <2>1, <2>4 DEF AskForRide, Send, CreateRide, ReadCreated
    <3> QED BY <1>1, <3>1
  <2>5. CASE AskToCancel
    BY <1>1, <2>1, <2>5 DEF AskToCancel, Send, NoCall, None
  <2>6. ASSUME NEW k \in Kinds, Fail(k) \/ Forget(k) PROVE FALSE
    <3>1. calls' = [calls EXCEPT ![k] = NoCall]
      BY <2>6, Zenon DEF Fail, Forget
    <3>2. c' = c \/ c' = NoCall
      BY <2>1, <3>1
    <3> QED BY <1>1, <3>2 DEF NoCall, None
  <2>7. ASSUME NEW k \in Kinds, Succeed(k) PROVE FALSE
    <3> DEFINE d == [calls EXCEPT ![k] = NoCall]
    <3>1. d \in [Kinds -> CallRec] /\ calls' = Owned(d)
      BY <2>1, <2>7, NoCallIs DEF Succeed
    <3>2. d["cancel"] = c \/ d["cancel"] = NoCall
      BY <2>1
    <3>3. calls'["cancel"].pc = d["cancel"].pc
      <4> HIDE DEF d
      <4> QED BY <2>1, <3>1, OwnedIs
    <3> QED BY <1>1, <3>2, <3>3 DEF NoCall, None
  <2>8. ASSUME NEW k \in Kinds, LoseAnswer(k) PROVE FALSE
    <3>1. calls' = [calls EXCEPT ![k].heard = FALSE, ![k].own = FALSE]
      BY <2>8, Zenon DEF LoseAnswer
    <3>2. c'.pc = c.pc
      BY <2>1, <3>1 DEF CallRec
    <3> QED BY <1>1, <3>2
  <2>9. ASSUME Open \/ Focus \/ Close \/ ReadList \/ DeliverList \/ GiveUpList \/ Poll
               \/ ReadRow \/ Deliver \/ GiveUp \/ Elsewhere \/ UNCHANGED vars
        PROVE  calls' = calls \/ calls' = Owned(calls)
    BY <2>9, Zenon DEF Open, Focus, Close, ReadList, DeliverList, GiveUpList, Poll, ReadRow,
                       Deliver, GiveUp, Elsewhere, Becomes, vars
  <2>10. ASSUME NEW r \in Ongoing, Drive(r) \/ Company(r) PROVE calls' = calls
    BY <2>10, Zenon DEF Drive, Company, Becomes
  <2> QED
    <3>1. Next \/ UNCHANGED vars
      BY <1>1
    <3> QED BY <2>2, <2>3, <2>4, <2>5, <2>6, <2>7, <2>8, <2>9, <2>10, <3>1, Zenon DEF Next
<1>2. AppInv /\ [Next]_vars =>
        [calls.cancel.pc = "sent" /\ calls'.cancel.pc = "refused"
            => rides[calls.cancel.ride].status # calls.cancel.view.status]_vars
  BY <1>1, Zenon
<1> QED BY <1>2, AppInvariance, PTL DEF Spec, RefusedOnlyIfMoved

\* A ride shown as over does not come back to life: no answer that is still in
\* flight says otherwise, but for the late answer of the ride's own creation, and
\* the page then fetches the ride again at once (use-rides.ts:96, 111).
THEOREM OverIsForGood == Spec => OverStaysOver
<1>1. ASSUME AppInv, [Next]_vars, NEW r \in RideIds, Over(detail[r].view.status),
             ~Over(detail'[r].view.status)
      PROVE  /\ calls["create"].pc = "ok" /\ calls["create"].ride = r
             /\ Shown' = r => look' = Sent
  <2>1. detail \in [RideIds -> [view : View, err : BOOLEAN]]
        /\ calls \in [Kinds -> CallRec]
    BY <1>1 DEF AppInv, DetailInv, CallsInv
  <2>2. CASE Deliver
    <3>1. detail' = [detail EXCEPT ![Shown] =
                        [view |-> Detail(look.row, rides[Shown].shared), err |-> FALSE]]
      BY <2>2 DEF Deliver
    <3>2. Shown = r
      BY <1>1, <2>1, <3>1
    <3>3. Over(look.row.status)
      BY <1>1, <2>2, <3>2 DEF AppInv, LookInv, Deliver
    <3>4. detail'[r].view = Detail(look.row, rides[Shown].shared)
      BY <2>1, <3>1, <3>2
    <3>5. Detail(look.row, rides[Shown].shared).status = look.row.status
      BY <1>1, <2>2, DeliveredIs
    <3> QED BY <1>1, <3>3, <3>4, <3>5
  <2>3. CASE GiveUp
    BY <1>1, <2>1, <2>3 DEF GiveUp
  <2>4. ASSUME NEW k \in Kinds, Succeed(k)
        PROVE  /\ calls["create"].pc = "ok" /\ calls["create"].ride = r
               /\ Shown' = r => look' = Sent
    <3>1. detail' = [detail EXCEPT ![calls[k].ride] = [view |-> calls[k].view, err |-> FALSE]]
          /\ calls[k].pc = "ok" /\ CallOK(k, calls[k])
      BY <1>1, <2>4 DEF Succeed, AppInv, CallsInv
    <3>2. calls[k].ride = r
      BY <1>1, <2>1, <3>1
    <3>3. detail'[r].view = calls[k].view
      BY <2>1, <3>1, <3>2
    <3>4. k = "create"
      BY <1>1, <3>1, <3>3 DEF CallOK, Kinds
    <3>5. detail'[r].view # NoView
      BY <3>1, <3>3 DEF CallOK, NoView, None, RideStatus
    <3>6. ASSUME Shown' = r PROVE look' = Sent
      <4>1. r # NoRide
        BY <3>1, <3>2 DEF CallOK
      <4>2. CASE Shown' # Shown
        BY <2>4, <3>6, <4>1, <4>2 DEF Succeed, Invalidated, Rendered
      <4>3. CASE Shown' = Shown
        <5>1. look' = IF Shown # NoRide /\ Refetch(look.pc, detail'[Shown].view # NoView)
                      THEN Sent ELSE look
          BY <2>4, <3>6, <4>1, <4>3 DEF Succeed, Invalidated, Rendered
        <5> QED BY <3>5, <3>6, <4>1, <4>3, <5>1 DEF Refetch
      <4> QED BY <4>2, <4>3
    <3> QED BY <3>1, <3>2, <3>4, <3>6
  \* No other step brings anything into the cache of a ride.
  <2>5. CASE UNCHANGED detail
    BY <1>1, <2>5
  <2>6. ASSUME Open \/ Focus \/ Close \/ ReadList \/ DeliverList \/ GiveUpList \/ Poll
               \/ ReadRow \/ AskForRide \/ CreateRide \/ ReadCreated \/ AskToCancel
               \/ CancelRide \/ Elsewhere \/ UNCHANGED vars
        PROVE  UNCHANGED detail
    BY <2>6, Zenon DEF Open, Focus, Close, ReadList, DeliverList, GiveUpList, Poll, ReadRow,
         AskForRide, CreateRide, ReadCreated, AskToCancel, Send, CancelRide, Elsewhere,
         Becomes, vars
  <2>7. ASSUME NEW k \in Kinds, Fail(k) \/ LoseAnswer(k) \/ Forget(k) PROVE UNCHANGED detail
    BY <2>7, Zenon DEF Fail, LoseAnswer, Forget
  <2>8. ASSUME NEW s \in Ongoing, Drive(s) \/ Company(s) PROVE UNCHANGED detail
    BY <2>8, Zenon DEF Drive, Company, Becomes
  <2> QED
    <3>1. Next \/ UNCHANGED vars
      BY <1>1
    <3> QED BY <2>2, <2>3, <2>4, <2>5, <2>6, <2>7, <2>8, <3>1, Zenon DEF Next
<1>2. AppInv /\ [Next]_vars =>
        [\A r \in RideIds :
            Over(detail[r].view.status) /\ ~Over(detail'[r].view.status)
                => /\ calls.create.pc = "ok" /\ calls.create.ride = r
                   /\ Shown' = r => look' = Sent]_vars
  BY <1>1, Zenon
<1> QED BY <1>2, AppInvariance, PTL DEF Spec, OverStaysOver

=============================================================================
