-------------------------- MODULE DriverDesk_proofs --------------------------
(***************************************************************************)
(* Theorems about the driver's desk, for any requests, routes, threshold,  *)
(* prices and limits: the angle the matching rule compares, the corridor   *)
(* of a pool, and the fares, which are those of PoolFares.                 *)
(***************************************************************************)
EXTENDS DriverDesk, Fare_proofs, SequenceTheorems

\* The angle between two bearings does not depend on which comes first, never
\* exceeds half a turn, and is zero for equal bearings only (geo.ts:84).
THEOREM AngleIsSymmetric ==
    ASSUME NEW a \in Degrees, NEW b \in Degrees
    PROVE  /\ AngularDifference(a, b) \in 0..180
           /\ AngularDifference(a, b) = AngularDifference(b, a)
           /\ AngularDifference(a, b) = 0 <=> a = b
<1>1. a \in Int /\ b \in Int /\ 0 <= a /\ a < 360 /\ 0 <= b /\ b < 360
  BY DEF Degrees
<1> QED BY <1>1 DEF AngularDifference

\* The angle is within the threshold exactly if a turn by at most the threshold,
\* either way and across north, leads from one bearing to the other (geo.ts:77).
THEOREM AngleIsTurn ==
    ASSUME NEW a \in Degrees, NEW b \in Degrees
    PROVE  AngularDifference(a, b) <= MaxBearingDiff <=> SameWay(a, b)
<1>1. /\ a \in Int /\ b \in Int /\ 0 <= a /\ a < 360 /\ 0 <= b /\ b < 360
      /\ MaxBearingDiff \in Int /\ 0 <= MaxBearingDiff /\ MaxBearingDiff <= 180
  BY ThresholdAssumption DEF Degrees
<1> DEFINE straight == IF a > b THEN a - b ELSE b - a
           angle == IF straight > 180 THEN 360 - straight ELSE straight
<1>2. AngularDifference(a, b) = angle
  <2>1. straight % 360 = straight
    BY <1>1
  <2> HIDE DEF straight
  <2> QED BY <2>1 DEF AngularDifference, straight
<1>3. ASSUME NEW turn \in -MaxBearingDiff..MaxBearingDiff, (a + turn + 360) % 360 = b
      PROVE  angle <= MaxBearingDiff
  <2>1. turn \in Int /\ -MaxBearingDiff <= turn /\ turn <= MaxBearingDiff
    BY <1>1
  <2>2. b = a + turn \/ b = a + turn + 360 \/ b = a + turn - 360
    BY <1>1, <1>3, <2>1
  <2> QED BY <1>1, <2>1, <2>2
<1>4. ASSUME angle <= MaxBearingDiff
      PROVE  \E turn \in -MaxBearingDiff..MaxBearingDiff : (a + turn + 360) % 360 = b
  <2>1. CASE straight <= 180
    <3>1. b - a \in -MaxBearingDiff..MaxBearingDiff
      BY <1>1, <1>4, <2>1
    <3>2. (a + (b - a) + 360) % 360 = b
      BY <1>1
    <3> QED BY <3>1, <3>2
  <2>2. CASE straight > 180 /\ a > b
    <3>1. b - a + 360 \in -MaxBearingDiff..MaxBearingDiff
      BY <1>1, <1>4, <2>2
    <3>2. (a + (b - a + 360) + 360) % 360 = b
      BY <1>1
    <3> QED BY <3>1, <3>2
  <2>3. CASE straight > 180 /\ ~(a > b)
    <3>1. b - a - 360 \in -MaxBearingDiff..MaxBearingDiff
      BY <1>1, <1>4, <2>3
    <3>2. (a + (b - a - 360) + 360) % 360 = b
      BY <1>1
    <3> QED BY <3>1, <3>2
  <2> QED BY <1>1, <2>1, <2>2, <2>3
<1> QED BY <1>2, <1>3, <1>4 DEF SameWay

-----------------------------------------------------------------------------
\* The fares.

\* Every step of the desk is, for the fares, a step of PoolFares or none, so what
\* is proved of those holds at the desk.
THEOREM DeskKeepsPrices == DeskSpec => Spec
<1>1. DeskInit => Init
  BY DEF DeskInit
<1>2. [DeskNext]_deskVars => [Next]_vars
  <2> SUFFICES ASSUME [DeskNext]_deskVars PROVE [Next]_vars
    OBVIOUS
  <2>1. ASSUME NEW r \in Rides,
               RequestRide(r) \/ GoElsewhere(r) \/ CreatePool(r) \/ AddMember(r)
        PROVE  CreateRide(r) \/ Join(r) \/ Leave(r) \/ Withdraw(r)
    BY <2>1, Zenon DEF RequestRide, GoElsewhere, CreatePool, AddMember
  <2>2. ASSUME StartTrip \/ CompleteTrip \/ CancelPool
        PROVE  Start \/ Complete \/ CallOff
    BY <2>2, Zenon DEF StartTrip, CompleteTrip, CancelPool
  <2>3. ASSUME MarkArrived \/ (\E to \in BOOLEAN : SetOnline(to)) \/ Poll \/ Tick
        PROVE  UNCHANGED vars
    BY <2>3, Zenon DEF MarkArrived, SetOnline, Poll, Tick
  <2>4. ASSUME UNCHANGED deskVars
        PROVE  UNCHANGED vars
    BY <2>4 DEF deskVars
  <2> QED BY <2>1, <2>2, <2>3, <2>4, Zenon DEF DeskNext, Next
<1> QED BY <1>1, <1>2, PTL DEF DeskSpec, Spec

\* At the desk everyone pays what they were quoted (pool.fares.ts:16).
THEOREM QuotesAreKeptAtTheDesk == DeskSpec => []ChargedAsQuoted
BY DeskKeepsPrices, QuotesAreKept, PTL

-----------------------------------------------------------------------------
\* The corridor.

CorridorInv ==
    /\ at \in [Rides -> {"none", "waiting", "aboard", "left", "done"}]
    /\ status = None => Aboard = {}
    /\ \A r \in Aboard : Pickup[r] = area
    /\ \A r, s \in Aboard : AngularDifference(Bearing[r], Bearing[s]) <= MaxBearingDiff

LEMMA CorridorInit == DeskInit => CorridorInv
BY DEF DeskInit, Init, CorridorInv, Aboard

\* A candidate found eligible starts in the area of the trip and goes the way of
\* everyone aboard.
LEMMA EligibleFits ==
    ASSUME NEW r \in Rides, Verdict(Trip, Candidate(r)).eligible
    PROVE  /\ Pickup[r] = area
           /\ \A m \in Aboard : AngularDifference(Bearing[m], Bearing[r]) <= MaxBearingDiff
<1>1. Refusal(Trip, Candidate(r)) = "none"
  BY DEF Verdict
<1>2. RouteFits(Trip.bearings, Candidate(r).bearing) /\ Trip.area = Candidate(r).area
  BY <1>1 DEF Refusal
<1> QED BY <1>2 DEF RouteFits, Trip, Candidate

LEMMA CorridorStep == CorridorInv /\ [DeskNext]_deskVars => CorridorInv'
<1> SUFFICES ASSUME CorridorInv, [DeskNext]_deskVars PROVE CorridorInv'
  OBVIOUS
<1> USE DEF CorridorInv
\* Nobody comes aboard and the pool stays, or nobody is aboard afterwards.
<1>1. ASSUME Aboard' \subseteq Aboard, area' = area \/ Aboard' = {},
             status' = None => Aboard' = {} \/ status = None,
             at' \in [Rides -> {"none", "waiting", "aboard", "left", "done"}]
      PROVE  CorridorInv'
  BY <1>1
<1>2. ASSUME NEW r \in Rides, RequestRide(r) \/ GoElsewhere(r)
      PROVE  CorridorInv'
  <2>1. CreateRide(r) \/ Withdraw(r) \/ Leave(r)
    BY <1>2, Zenon DEF RequestRide, GoElsewhere
  <2>2. Aboard' \subseteq Aboard
        /\ at' \in [Rides -> {"none", "waiting", "aboard", "left", "done"}]
    BY <2>1 DEF CreateRide, Withdraw, Leave, Aboard
  <2>3. area' = area /\ status' = status
    BY <1>2 DEF RequestRide, GoElsewhere, trip
  <2> QED BY <1>1, <2>2, <2>3
<1>3. ASSUME NEW r \in Rides, CreatePool(r)
      PROVE  CorridorInv'
  <2>1. status = None /\ status' = "FORMING" /\ area' = Pickup[r] /\ Join(r)
    BY <1>3 DEF CreatePool, MayCreatePool
  <2>2. Aboard' = {r}
        /\ at' \in [Rides -> {"none", "waiting", "aboard", "left", "done"}]
    BY <2>1 DEF Join, Aboard
  <2>3. Bearing[r] \in Degrees
    BY DeskAssumption
  <2>4. AngularDifference(Bearing[r], Bearing[r]) <= MaxBearingDiff
    <3>1. AngularDifference(Bearing[r], Bearing[r]) = 0
      BY <2>3, AngleIsSymmetric
    <3> QED BY <3>1, ThresholdAssumption
  <2> QED BY <2>1, <2>2, <2>4 DEF None
<1>4. ASSUME NEW r \in Rides, AddMember(r)
      PROVE  CorridorInv'
  <2>1. status # None /\ Join(r) /\ status' = status /\ area' = area
        /\ Verdict(Trip, Candidate(r)).eligible
    BY <1>4 DEF AddMember, MayAddMember, trip
  <2>2. Aboard' = Aboard \cup {r}
        /\ at' \in [Rides -> {"none", "waiting", "aboard", "left", "done"}]
    BY <2>1 DEF Join, Aboard
  <2>3. /\ Pickup[r] = area
        /\ \A m \in Aboard : AngularDifference(Bearing[m], Bearing[r]) <= MaxBearingDiff
    BY <2>1, EligibleFits
  <2>4. \A m \in Aboard \cup {r} : Bearing[m] \in Degrees
    BY DeskAssumption DEF Aboard
  <2>5. \A m \in Aboard : AngularDifference(Bearing[r], Bearing[m]) <= MaxBearingDiff
    BY <2>3, <2>4, AngleIsSymmetric
  <2>6. AngularDifference(Bearing[r], Bearing[r]) <= MaxBearingDiff
    <3>1. AngularDifference(Bearing[r], Bearing[r]) = 0
      BY <2>4, AngleIsSymmetric
    <3> QED BY <3>1, ThresholdAssumption
  <2> QED BY <2>1, <2>2, <2>3, <2>5, <2>6
<1>5. CASE CompleteTrip \/ CancelPool
  <2>1. Complete \/ CallOff
    BY <1>5, Zenon DEF CompleteTrip, CancelPool
  <2>2. Aboard' = {} /\ at' \in [Rides -> {"none", "waiting", "aboard", "left", "done"}]
    BY <2>1 DEF Complete, CallOff, Aboard
  <2> QED BY <1>1, <2>2
<1>6. CASE MarkArrived \/ StartTrip
  <2>1. at' = at /\ area' = area /\ status' # None
    BY <1>6 DEF MarkArrived, StartTrip, Start, vars, None
  <2>2. Aboard' = Aboard
    BY <2>1 DEF Aboard
  <2> QED BY <1>1, <2>1, <2>2
<1>7. CASE (\E to \in BOOLEAN : SetOnline(to)) \/ Poll \/ Tick \/ UNCHANGED deskVars
  <2>1. at' = at /\ area' = area /\ status' = status
    BY <1>7 DEF SetOnline, Poll, Tick, deskVars, vars, trip
  <2>2. Aboard' = Aboard
    BY <2>1 DEF Aboard
  <2> QED BY <1>1, <2>1, <2>2
<1> QED BY <1>2, <1>3, <1>4, <1>5, <1>6, <1>7, Zenon DEF DeskNext

\* Everyone aboard goes the same way as everyone else, and whoever is refused for
\* their route does not (matching.ts:101).
THEOREM OneCorridorAtTheDesk == DeskSpec => []Corridor
<1>1. ASSUME CorridorInv
      PROVE  Corridor
  <2>1. \A r \in Rides : Bearing[r] \in Degrees
    BY DeskAssumption
  <2>2. \A r \in Aboard : r \in Rides
    BY DEF Aboard
  <2>3. \A r, s \in Aboard : Pickup[r] = area /\ SameWay(Bearing[r], Bearing[s])
    BY <1>1, <2>1, <2>2, AngleIsTurn DEF CorridorInv
  <2>4. ASSUME NEW r \in Rides, status # None,
               CardVerdict(r).reason = "ROUTE_NOT_COMPATIBLE"
        PROVE  \E m \in Aboard : ~SameWay(Bearing[m], Bearing[r])
    <3>1. Verdict(Trip, Candidate(r)).reason = "ROUTE_NOT_COMPATIBLE"
      BY <2>4 DEF CardVerdict
    <3>2. ~RouteFits(Trip.bearings, Candidate(r).bearing)
      BY <3>1 DEF Verdict, Refusal
    <3>3. PICK m \in Aboard : ~(AngularDifference(Bearing[m], Bearing[r]) <= MaxBearingDiff)
      BY <3>2 DEF RouteFits, Trip, Candidate
    <3> QED BY <2>1, <2>2, <3>3, AngleIsTurn
  <2> QED BY <2>3, <2>4 DEF Corridor
<1> QED BY <1>1, CorridorInit, CorridorStep, PTL DEF DeskSpec

-----------------------------------------------------------------------------
(* Finite sets of naturals.                                                *)

\* A set of naturals has a least member.
LEMMA LeastOf ==
    ASSUME NEW S \in SUBSET Nat, S # {}
    PROVE  \E m \in S : \A n \in S : m <= n
<1> DEFINE Segments == {0..n : n \in S}
<1>1. Segments \subseteq FiniteSubsetsOf(Nat) /\ Segments # {}
  <2>1. \A n \in S : IsFiniteSet(0..n) /\ 0..n \in SUBSET Nat
    BY FS_Interval
  <2> QED BY <2>1 DEF FiniteSubsetsOf
<1>2. PICK T \in Segments : \A U \in Segments : <<U, T>> \notin StrictSubsetOrdering(Nat)
  <2> HIDE DEF Segments
  <2> QED BY <1>1, FS_StrictSubsetOrderingWellFounded, WFMin
<1>3. PICK m \in S : T = 0..m
  OBVIOUS
<1>4. ASSUME NEW n \in S, n < m PROVE FALSE
  <2>1. 0..n \subseteq 0..m /\ m \in 0..m /\ m \notin 0..n
    BY <1>4
  <2>2. 0..n \in SUBSET Nat /\ 0..m \in SUBSET Nat /\ 0..n # 0..m
    BY <2>1
  <2>3. <<0..n, 0..m>> \in StrictSubsetOrdering(Nat)
    BY <2>1, <2>2, Zenon DEF StrictSubsetOrdering
  <2> QED BY <1>2, <1>3, <2>3
<1> QED BY <1>4

\* One with a bound has a greatest.
LEMMA GreatestOf ==
    ASSUME NEW S \in SUBSET Nat, S # {}, NEW b \in Nat, \A n \in S : n <= b
    PROVE  \E m \in S : \A n \in S : n <= m
<1> DEFINE Gaps == {b - n : n \in S}
<1>1. Gaps \in SUBSET Nat /\ Gaps # {}
  <2>1. \A n \in S : b - n \in Nat
    OBVIOUS
  <2> QED BY <2>1
<1>2. PICK g \in Gaps : \A h \in Gaps : g <= h
  <2> HIDE DEF Gaps
  <2> QED BY <1>1, LeastOf
<1>3. PICK m \in S : g = b - m
  OBVIOUS
<1>4. \A n \in S : b - m <= b - n
  BY <1>2, <1>3
<1> QED BY <1>4

\* Of a set of numbers with at least limit smaller ones before some member, the
\* members with fewer than limit before them are limit many.
LEMMA FirstOnes ==
    ASSUME NEW S \in SUBSET Nat, IsFiniteSet(S), NEW limit \in Nat \ {0},
           NEW r \in S, Cardinality({s \in S : s < r}) >= limit
    PROVE  Cardinality({x \in S : Cardinality({s \in S : s < x}) < limit}) = limit
<1> DEFINE Before(x) == {s \in S : s < x}
           Late == {x \in S : Cardinality(Before(x)) >= limit}
<1>1. \A x \in S : /\ x \in Nat
                  /\ IsFiniteSet(Before(x)) /\ Cardinality(Before(x)) \in Nat
  BY FS_Subset, FS_CardinalityType
<1>2. PICK m \in Late : \A n \in Late : m <= n
  <2>1. r \in Late
    OBVIOUS
  <2>2. Late \in SUBSET Nat /\ Late # {}
    BY <2>1
  <2> HIDE DEF Late
  <2> QED BY <2>2, LeastOf
<1>3. \A x \in S : x < m => Cardinality(Before(x)) < limit
  BY <1>1, <1>2
<1>4. \A x \in S : ~(x < m) => Cardinality(Before(x)) >= limit
  <2> SUFFICES ASSUME NEW x \in S, ~(x < m) PROVE Cardinality(Before(x)) >= limit
    OBVIOUS
  <2>1. Before(m) \subseteq Before(x)
    <3>1. m <= x /\ m \in Nat /\ x \in Nat
      BY <1>1
    <3>2. \A s \in S : s \in Nat /\ (s < m => s < x)
      BY <1>1, <3>1
    <3> QED BY <3>2
  <2>2. Cardinality(Before(m)) <= Cardinality(Before(x))
    BY <1>1, <2>1, FS_Subset
  <2> QED BY <1>1, <1>2, <2>2
<1>5. {x \in S : Cardinality(Before(x)) < limit} = Before(m)
  <2> SUFFICES ASSUME NEW x \in S PROVE Cardinality(Before(x)) < limit <=> x < m
    OBVIOUS
  <2> QED BY <1>1, <1>3, <1>4
<1>6. Cardinality(Before(m)) >= limit
  BY <1>2
<1>7. Cardinality(Before(m)) <= limit
  <2>1. Before(m) \in SUBSET Nat /\ \A n \in Before(m) : n <= m
    <3>1. m \in Nat /\ \A s \in S : s \in Nat /\ (s < m => s <= m)
      BY <1>1
    <3> QED BY <3>1
  <2>2. Before(m) # {}
    <3>1. Cardinality(Before(m)) # 0
      BY <1>1, <1>6
    <3> QED BY <3>1, FS_EmptySet
  <2>3. PICK k \in Before(m) : \A n \in Before(m) : n <= k
    <3>1. m \in Nat
      OBVIOUS
    <3> HIDE DEF Before
    <3> QED BY <2>1, <2>2, <3>1, GreatestOf
  <2>4. Before(m) = Before(k) \cup {k} /\ k \notin Before(k)
    <3>1. \A s \in S : s < m <=> s < k \/ s = k
      BY <1>1, <2>3
    <3>2. ~(k < k)
      BY <1>1
    <3> QED BY <2>3, <3>1, <3>2
  <2>5. Cardinality(Before(m)) = Cardinality(Before(k)) + 1
    BY <1>1, <2>4, FS_AddElement
  <2>6. Cardinality(Before(k)) < limit
    BY <1>3, <2>3
  <2> QED BY <1>1, <2>5, <2>6
<1>8. Cardinality(Before(m)) = limit
  BY <1>1, <1>6, <1>7
<1> QED BY <1>5, <1>8

-----------------------------------------------------------------------------
(* The standing of the driver.                                             *)

\* Cancellations are recorded in the order of their times.
InOrder(c) == \A i, j \in DOMAIN c : i <= j => c[i] <= c[j]

Recent(c, t) == {i \in DOMAIN c : InWindow(c[i], t)}

Pivot(c) == c[Len(c) - CancelLimit + 1]

LEMMA RecentIsFinite ==
    ASSUME NEW c \in Seq(Nat), NEW t \in Nat
    PROVE  IsFiniteSet(Recent(c, t)) /\ Cardinality(Recent(c, t)) \in Nat
<1>1. Recent(c, t) \subseteq 1..Len(c)
  BY DEF Recent
<1>2. IsFiniteSet(1..Len(c))
  BY FS_Interval
<1> QED BY <1>1, <1>2, FS_Subset, FS_CardinalityType

\* The limit is reached exactly as long as the limit-th newest cancellation is in
\* the window: "every older one is already outside it, or leaves first"
\* (cancellations.ts:64).
LEMMA PivotDecides ==
    ASSUME NEW c \in Seq(Nat), InOrder(c), NEW t \in Nat
    PROVE  Cardinality(Recent(c, t)) >= CancelLimit
               <=> Len(c) >= CancelLimit /\ InWindow(Pivot(c), t)
<1> DEFINE first == Len(c) - CancelLimit + 1
<1>1. /\ CancelLimit \in Nat /\ CancelLimit >= 1 /\ Window \in Nat
      /\ Len(c) \in Nat /\ DOMAIN c = 1..Len(c) /\ \A i \in 1..Len(c) : c[i] \in Nat
      /\ first \in Int
  BY DeskAssumption
<1>2. IsFiniteSet(Recent(c, t)) /\ Cardinality(Recent(c, t)) \in Nat
  BY RecentIsFinite
<1>3. ASSUME Len(c) >= CancelLimit, InWindow(Pivot(c), t)
      PROVE  Cardinality(Recent(c, t)) >= CancelLimit
  <2>1. first..Len(c) \subseteq Recent(c, t)
    <3> SUFFICES ASSUME NEW i \in first..Len(c) PROVE i \in Recent(c, t)
      OBVIOUS
    <3>1. first \in DOMAIN c /\ i \in DOMAIN c /\ first <= i
      BY <1>1, <1>3
    <3>2. c[first] <= c[i]
      BY <3>1 DEF InOrder
    <3> QED BY <1>1, <1>3, <3>1, <3>2 DEF Recent, InWindow, Pivot
  <2>2. Cardinality(first..Len(c)) = CancelLimit
    <3>1. ~(first > Len(c)) /\ Len(c) - first + 1 = CancelLimit
      BY <1>1
    <3> HIDE DEF first
    <3> QED BY <1>1, <3>1, FS_Interval
  <2> QED BY <1>2, <2>1, <2>2, FS_Subset
<1>4. ASSUME ~(Len(c) >= CancelLimit /\ InWindow(Pivot(c), t))
      PROVE  Cardinality(Recent(c, t)) < CancelLimit
  <2>1. CASE Len(c) < CancelLimit
    <3>1. Recent(c, t) \subseteq 1..Len(c) /\ IsFiniteSet(1..Len(c))
          /\ Cardinality(1..Len(c)) = Len(c)
      BY <1>1, FS_Interval DEF Recent
    <3> QED BY <1>1, <1>2, <2>1, <3>1, FS_Subset
  <2>2. CASE Len(c) >= CancelLimit /\ ~InWindow(Pivot(c), t)
    <3>1. Recent(c, t) \subseteq (first + 1)..Len(c)
      <4> SUFFICES ASSUME NEW i \in Recent(c, t), i <= first PROVE FALSE
        BY <1>1 DEF Recent
      <4>1. first \in DOMAIN c /\ i \in DOMAIN c
        BY <1>1, <2>2 DEF Recent
      <4>2. c[i] <= c[first]
        BY <4>1 DEF InOrder
      <4> QED BY <1>1, <2>2, <4>1, <4>2 DEF Recent, InWindow, Pivot
    <3>2. IsFiniteSet((first + 1)..Len(c))
          /\ Cardinality((first + 1)..Len(c)) = CancelLimit - 1
      <4> DEFINE from == first + 1
      <4>1. from \in Int /\ Len(c) \in Int /\ (from > Len(c) => CancelLimit - 1 = 0)
            /\ Len(c) - from + 1 = CancelLimit - 1
        BY <1>1
      <4> HIDE DEF from
      <4>2. IsFiniteSet(from..Len(c)) /\ Cardinality(from..Len(c)) = CancelLimit - 1
        BY <4>1, FS_Interval
      <4> QED BY <4>2 DEF from
    <3>3. Cardinality(Recent(c, t)) <= CancelLimit - 1
      BY <3>1, <3>2, FS_Subset
    <3> QED BY <1>1, <1>2, <3>3
  <2> QED BY <1>1, <1>4, <2>1, <2>2
<1> QED BY <1>1, <1>2, <1>3, <1>4

\* With time, cancellations only leave the window.
LEMMA WindowSlides ==
    ASSUME NEW c \in Seq(Nat), NEW t \in Nat, NEW u \in Nat, t <= u
    PROVE  Cardinality(Recent(c, u)) <= Cardinality(Recent(c, t))
<1>1. Recent(c, u) \subseteq Recent(c, t)
  <2>1. Window \in Nat /\ \A i \in DOMAIN c : c[i] \in Nat
    BY DeskAssumption
  <2> QED BY <2>1 DEF Recent, InWindow
<1> QED BY <1>1, RecentIsFinite, FS_Subset

\* One more cancellation counts for one more at most.
LEMMA OneMoreRecent ==
    ASSUME NEW c \in Seq(Nat), NEW t \in Nat
    PROVE  Cardinality(Recent(Append(c, t), t)) <= Cardinality(Recent(c, t)) + 1
<1> DEFINE last == Len(c) + 1
<1>1. Append(c, t) \in Seq(Nat) /\ last \notin Recent(c, t)
  BY DEF Recent
<1>2. Recent(Append(c, t), t) \subseteq Recent(c, t) \cup {last}
  BY DEF Recent
<1>3. IsFiniteSet(Recent(c, t) \cup {last})
      /\ Cardinality(Recent(c, t) \cup {last}) = Cardinality(Recent(c, t)) + 1
  BY <1>1, RecentIsFinite, FS_AddElement
<1> QED BY <1>2, <1>3, FS_Subset

\* Standing, in these terms.
LEMMA StandingIs ==
    ASSUME NEW c \in Seq(Nat), InOrder(c), NEW t \in Nat
    PROVE  /\ StandingOf(c, t).used = Cardinality(Recent(c, t))
           /\ StandingOf(c, t).used \in Nat
           /\ StandingOf(c, t).until # Never <=>
                  Len(c) >= CancelLimit /\ t <= Pivot(c) + Window
           /\ StandingOf(c, t).until # Never <=> StandingOf(c, t).used >= CancelLimit
           /\ StandingOf(c, t).until # Never =>
                  StandingOf(c, t).until = Pivot(c) + Window
           /\ Len(c) >= CancelLimit => Pivot(c) \in Nat
<1>1. CancelLimit \in Nat /\ CancelLimit >= 1 /\ Window \in Nat
  BY DeskAssumption
<1>2. Len(c) >= CancelLimit => Pivot(c) \in Nat
  BY <1>1 DEF Pivot
<1>3. StandingOf(c, t) = [used  |-> Cardinality(Recent(c, t)),
                          until |-> IF Cardinality(Recent(c, t)) >= CancelLimit
                                    THEN Pivot(c) + Window ELSE Never]
  BY DEF StandingOf, Recent, Pivot
<1>4. Cardinality(Recent(c, t)) >= CancelLimit
          <=> Len(c) >= CancelLimit /\ InWindow(Pivot(c), t)
  BY PivotDecides
<1>5. Cardinality(Recent(c, t)) \in Nat
  BY RecentIsFinite
<1>6. Len(c) >= CancelLimit => (InWindow(Pivot(c), t) <=> t <= Pivot(c) + Window)
  BY <1>1, <1>2 DEF InWindow
<1>7. Len(c) >= CancelLimit => Pivot(c) + Window # Never
  BY <1>1, <1>2 DEF Never
<1> DEFINE used == Cardinality(Recent(c, t))
<1>8. /\ StandingOf(c, t).used = used
      /\ StandingOf(c, t).until = IF used >= CancelLimit THEN Pivot(c) + Window ELSE Never
  BY <1>3
<1> HIDE DEF used
<1> QED BY <1>2, <1>4, <1>5, <1>6, <1>7, <1>8 DEF used

-----------------------------------------------------------------------------
(* The invariant of the desk.                                              *)

\* A notice that has counted every cancellation counts no fewer than are in the
\* window by now, and announces the end of the suspension if there is one.
NoticeOK ==
    notice.known /\ notice.counted = Len(calledOff) =>
        /\ Standing.used <= notice.used
        /\ IF notice.until = Never THEN ~Suspended
           ELSE Len(calledOff) >= CancelLimit /\ notice.until = Pivot(calledOff) + Window

DeskInv ==
    /\ DeskTypeOK
    /\ InOrder(calledOff) /\ \A i \in DOMAIN calledOff : calledOff[i] <= clock
    /\ status # None => ~Suspended
    /\ notice.counted <= Len(calledOff)
    /\ NoticeOK

LEMMA DeskInvInit == DeskInit => DeskInv
<1> SUFFICES ASSUME DeskInit PROVE DeskInv
  OBVIOUS
<1>1. DeskTypeOK
  <2>1. /\ at \in [Rides -> {"none", "waiting", "aboard", "left", "done"}]
        /\ started = FALSE /\ status = None /\ area = None /\ online = FALSE
        /\ dropped = {} /\ calledOff = <<>> /\ clock = 0 /\ notice = NoNotice
    BY DEF DeskInit, Init
  <2>2. clock \in 0..MaxClock /\ calledOff \in Seq(0..MaxClock)
    BY <2>1, DeskAssumption
  <2>3. notice \in [known : BOOLEAN, used : Nat, until : {Never} \cup Nat, counted : Nat]
    BY <2>1 DEF NoNotice
  <2> QED BY <2>1, <2>2, <2>3 DEF DeskTypeOK, None
<1> QED BY <1>1 DEF DeskInit, DeskInv, InOrder, NoticeOK, NoNotice, None

\* What the times of the cancellations are.
LEMMA CalledOffTimes ==
    ASSUME DeskTypeOK
    PROVE  /\ calledOff \in Seq(Nat) /\ clock \in Nat
           /\ Len(calledOff) \in Nat /\ notice.counted \in Nat /\ notice.used \in Nat
           /\ CancelLimit \in Nat /\ Window \in Nat /\ MaxClock \in Nat
<1>1. CancelLimit \in Nat /\ Window \in Nat /\ MaxClock \in Nat
  BY DeskAssumption
<1>2. calledOff \in Seq(0..MaxClock) /\ 0..MaxClock \subseteq Nat
  BY <1>1 DEF DeskTypeOK
<1>3. calledOff \in Seq(Nat)
  BY <1>2, SeqMonotonic
<1> QED BY <1>1, <1>2, <1>3 DEF DeskTypeOK

\* While nobody cancels, no time passes and nobody looks, only the rides and the
\* pool move; and a trip begins only when the driver is not suspended.
LEMMA TripKeepsDesk ==
    ASSUME DeskInv, DeskTypeOK',
           UNCHANGED <<calledOff, clock, notice>>,
           status' # None => status # None \/ ~Suspended
    PROVE  DeskInv'
<1>1. Standing' = Standing
  BY DEF Standing
<1> QED BY <1>1 DEF DeskInv, NoticeOK, Suspended

LEMMA DeskTypeStep == DeskInv /\ FareInv' /\ [DeskNext]_deskVars => DeskTypeOK'
<1> SUFFICES ASSUME DeskInv, FareInv', [DeskNext]_deskVars PROVE DeskTypeOK'
  OBVIOUS
<1>1. DeskTypeOK
  BY DEF DeskInv
<1>2. at' \in [Rides -> {"none", "waiting", "aboard", "left", "done"}]
  BY DEF FareInv, Shapes
<1> USE DEF DeskTypeOK, trip
<1>3. ASSUME NEW r \in Rides, RequestRide(r) \/ GoElsewhere(r) \/ AddMember(r)
      PROVE  DeskTypeOK'
  <2>1. UNCHANGED <<started, trip, clock, online, notice>>
    BY <1>3 DEF RequestRide, GoElsewhere, AddMember, CreateRide, Withdraw, Leave, Join
  <2> QED BY <1>1, <1>2, <2>1
<1>4. ASSUME NEW r \in Rides, CreatePool(r)
      PROVE  DeskTypeOK'
  <2>1. started' = started /\ ~started
    BY <1>4 DEF CreatePool, Join
  <2> QED BY <1>1, <1>2, <1>4, <2>1 DEF CreatePool
<1>5. CASE MarkArrived
  BY <1>1, <1>5, <1>2 DEF MarkArrived, vars
<1>6. CASE StartTrip
  BY <1>1, <1>6, <1>2 DEF StartTrip, Start
<1>7. CASE CompleteTrip
  BY <1>1, <1>7, <1>2 DEF CompleteTrip, Complete, None
<1>8. CASE CancelPool
  <2>1. calledOff' \in Seq(0..MaxClock)
    BY <1>1, <1>8 DEF CancelPool
  <2>2. dropped' \in SUBSET Rides
    BY <1>1, <1>8 DEF CancelPool, Aboard
  <2> QED BY <1>1, <1>2, <1>8, <2>1, <2>2 DEF CancelPool, CallOff, None
<1>9. ASSUME NEW to \in BOOLEAN, SetOnline(to)
      PROVE  DeskTypeOK'
  BY <1>1, <1>9, <1>2 DEF SetOnline, vars
<1>10. CASE Poll
  <2>1. Standing.used \in Nat /\ Standing.until \in {Never} \cup Nat
    BY <1>1, CalledOffTimes, StandingIs DEF DeskInv, Standing
  <2>2. Len(calledOff) \in Nat
    BY <1>1, CalledOffTimes
  <2>3. notice' \in [known : BOOLEAN, used : Nat, until : {Never} \cup Nat, counted : Nat]
    BY <1>10, <2>1, <2>2 DEF Poll
  <2> QED BY <1>1, <1>2, <1>10, <2>3 DEF Poll, vars
<1>11. CASE Tick
  BY <1>1, <1>11, <1>2, DeskAssumption DEF Tick, vars
<1>12. CASE UNCHANGED deskVars
  BY <1>1, <1>12, <1>2 DEF deskVars, vars
<1> QED BY <1>3, <1>4, <1>5, <1>6, <1>7, <1>8, <1>9, <1>10, <1>11, <1>12 DEF DeskNext

LEMMA DeskInvStep == DeskInv /\ FareInv' /\ [DeskNext]_deskVars => DeskInv'
<1> SUFFICES ASSUME DeskInv, FareInv', [DeskNext]_deskVars PROVE DeskInv'
  OBVIOUS
<1>1. DeskTypeOK /\ DeskTypeOK'
  BY DeskTypeStep DEF DeskInv
<1>2. /\ calledOff \in Seq(Nat) /\ clock \in Nat
      /\ Len(calledOff) \in Nat /\ notice.counted \in Nat /\ notice.used \in Nat
      /\ CancelLimit \in Nat /\ Window \in Nat /\ InOrder(calledOff)
  BY <1>1, CalledOffTimes DEF DeskInv
<1>3. ASSUME NEW r \in Rides, RequestRide(r) \/ GoElsewhere(r) \/ AddMember(r)
      PROVE  DeskInv'
  <2>1. UNCHANGED <<status, calledOff, clock, notice>>
    BY <1>3, Zenon DEF RequestRide, GoElsewhere, AddMember, trip
  <2> QED BY <1>1, <2>1, TripKeepsDesk
<1>4. ASSUME NEW r \in Rides, CreatePool(r)
      PROVE  DeskInv'
  <2>1. UNCHANGED <<calledOff, clock, notice>> /\ ~Suspended
    BY <1>4 DEF CreatePool, MayCreatePool
  <2> QED BY <1>1, <2>1, TripKeepsDesk
<1>5. CASE \/ MarkArrived \/ StartTrip \/ CompleteTrip
           \/ \E to \in BOOLEAN : SetOnline(to)
           \/ UNCHANGED deskVars
  <2>1. UNCHANGED <<calledOff, clock, notice>> /\ (status' # None => status # None)
    BY <1>5 DEF MarkArrived, StartTrip, CompleteTrip, SetOnline, deskVars, trip, None
  <2> QED BY <1>1, <2>1, TripKeepsDesk
<1>6. CASE CancelPool
  <2>1. calledOff' = Append(calledOff, clock) /\ clock' = clock /\ notice' = notice
        /\ status' = None
    BY <1>6 DEF CancelPool
  <2>2. Len(calledOff') = Len(calledOff) + 1
    BY <1>2, <2>1
  <2>3. /\ \A i \in DOMAIN calledOff' : calledOff'[i] <= clock'
        /\ InOrder(calledOff')
    <3>1. /\ DOMAIN calledOff' = 1..(Len(calledOff) + 1) /\ DOMAIN calledOff = 1..Len(calledOff)
          /\ \A i \in 1..Len(calledOff) : calledOff'[i] = calledOff[i]
          /\ calledOff'[Len(calledOff) + 1] = clock
      BY <1>2, <2>1
    <3>2. \A i \in 1..Len(calledOff) : calledOff[i] <= clock /\ calledOff[i] \in Nat
      BY <1>2, <3>1 DEF DeskInv
    <3>3. \A i \in DOMAIN calledOff' : i \in 1..Len(calledOff) \/ i = Len(calledOff) + 1
      BY <1>2, <3>1
    <3>4. \A i \in DOMAIN calledOff' : calledOff'[i] <= clock
      BY <1>2, <3>1, <3>2, <3>3
    <3>5. ASSUME NEW i \in DOMAIN calledOff', NEW j \in DOMAIN calledOff', i <= j
          PROVE  calledOff'[i] <= calledOff'[j]
      <4>1. CASE j = Len(calledOff) + 1
        BY <3>1, <3>4, <4>1
      <4>2. CASE j \in 1..Len(calledOff)
        <5>1. i \in 1..Len(calledOff)
          BY <1>2, <3>1, <3>5, <4>2
        <5> QED BY <1>2, <3>1, <3>5, <4>2, <5>1 DEF InOrder
      <4> QED BY <3>3, <4>1, <4>2
    <3> QED BY <2>1, <3>4, <3>5 DEF InOrder
  <2>4. notice'.counted <= Len(calledOff') /\ notice'.counted # Len(calledOff')
    BY <1>2, <2>1, <2>2 DEF DeskInv
  <2> QED BY <1>1, <2>1, <2>3, <2>4 DEF DeskInv, NoticeOK
<1>7. CASE Poll
  <2>1. /\ UNCHANGED <<status, calledOff, clock>>
        /\ notice' = [known |-> TRUE, used |-> Standing.used, until |-> Standing.until,
                      counted |-> Len(calledOff)]
    BY <1>7 DEF Poll, trip
  <2>2. Standing' = Standing
    BY <2>1 DEF Standing
  <2>3. Standing.used \in Nat /\ (Suspended => /\ Len(calledOff) >= CancelLimit
                                               /\ Standing.until = Pivot(calledOff) + Window)
    BY <1>2, StandingIs DEF Standing, Suspended
  <2>4. NoticeOK'
    BY <1>2, <2>1, <2>2, <2>3 DEF NoticeOK, Suspended
  <2> QED BY <1>1, <1>2, <2>1, <2>2, <2>4 DEF DeskInv, Suspended
<1>8. CASE Tick
  <2>1. UNCHANGED <<status, calledOff, notice>> /\ clock' = clock + 1
    BY <1>8 DEF Tick, trip
  <2>2. /\ Standing.used = Cardinality(Recent(calledOff, clock)) /\ Standing.used \in Nat
        /\ Suspended <=> Len(calledOff) >= CancelLimit /\ clock <= Pivot(calledOff) + Window
        /\ Len(calledOff) >= CancelLimit => Pivot(calledOff) \in Nat
    BY <1>2, StandingIs DEF Standing, Suspended
  <2>3. /\ Standing'.used = Cardinality(Recent(calledOff, clock + 1))
        /\ Standing'.used \in Nat
        /\ Suspended' <=> Len(calledOff) >= CancelLimit /\ clock + 1 <= Pivot(calledOff) + Window
    <3>1. clock + 1 \in Nat
      BY <1>2
    <3> QED BY <1>2, <2>1, <3>1, StandingIs DEF Standing, Suspended
  <2>4. Standing'.used <= Standing.used
    BY <1>2, <2>2, <2>3, WindowSlides
  <2>5. Suspended' => Suspended
    BY <1>2, <2>2, <2>3
  <2>6. NoticeOK'
    BY <1>2, <2>1, <2>2, <2>3, <2>4, <2>5 DEF DeskInv, NoticeOK
  <2>7. \A i \in DOMAIN calledOff : calledOff[i] <= clock + 1
    BY <1>2 DEF DeskInv
  <2> QED BY <1>1, <1>2, <2>1, <2>5, <2>6, <2>7 DEF DeskInv
<1> QED BY <1>3, <1>4, <1>5, <1>6, <1>7, <1>8 DEF DeskNext

\* The inductive invariant of the desk.
THEOREM DeskInvariance == DeskSpec => [](DeskInv /\ FareInv)
<1>1. DeskSpec => []FareInv
  BY DeskKeepsPrices, FareInvariance, PTL
<1> QED BY <1>1, DeskInvInit, DeskInvStep, PTL DEF DeskSpec

\* Every variable of the desk keeps its type, and the pool row and the money agree
\* on whether the trip is under way.
THEOREM DeskTypeCorrect == DeskSpec => []DeskTypeOK
<1>1. DeskInv => DeskTypeOK
  BY DEF DeskInv
<1> QED BY <1>1, DeskInvariance, PTL

\* What the notice says of a suspension stays true until the driver cancels again,
\* however old it gets (driver/page.tsx:101).
THEOREM NoticesHold == DeskSpec => []NoticeHolds
<1>1. DeskInv => NoticeHolds
  <2> SUFFICES ASSUME DeskInv, notice.known, notice.counted = Len(calledOff)
               PROVE  Suspended <=> SaysSuspended(clock)
    BY DEF NoticeHolds
  <2>1. /\ calledOff \in Seq(Nat) /\ clock \in Nat /\ InOrder(calledOff)
    BY CalledOffTimes DEF DeskInv
  <2>2. Suspended <=> Len(calledOff) >= CancelLimit /\ clock <= Pivot(calledOff) + Window
    BY <2>1, StandingIs DEF Standing, Suspended
  <2>3. IF notice.until = Never THEN ~Suspended
        ELSE Len(calledOff) >= CancelLimit /\ notice.until = Pivot(calledOff) + Window
    BY DEF DeskInv, NoticeOK
  <2> QED BY <2>1, <2>2, <2>3 DEF SaysSuspended, Never
<1> QED BY <1>1, DeskInvariance, PTL

\* A cancellation that suspends the driver was announced as such
\* (active-trip.tsx:310).
THEOREM SuspensionsAreAnnounced == DeskSpec => []Warned
<1>1. DeskInv => Warned
  <2> SUFFICES ASSUME DeskInv, notice.known, notice.counted = Len(calledOff),
                      StandingOf(Append(calledOff, clock), clock).until # Never
               PROVE  CancelHintWarns
    BY DEF Warned
  <2> DEFINE next == Append(calledOff, clock)
  <2>1. /\ calledOff \in Seq(Nat) /\ clock \in Nat /\ InOrder(calledOff)
        /\ CancelLimit \in Nat /\ notice.used \in Nat
    BY CalledOffTimes DEF DeskInv
  <2>2. next \in Seq(Nat)
    BY <2>1
  <2>3. Cardinality(Recent(next, clock)) >= CancelLimit
    <3>1. StandingOf(next, clock).until =
              IF Cardinality(Recent(next, clock)) >= CancelLimit
              THEN Pivot(next) + Window ELSE Never
      BY DEF StandingOf, Recent, Pivot
    <3> QED BY <3>1
  <2>4. Cardinality(Recent(next, clock)) <= Cardinality(Recent(calledOff, clock)) + 1
    BY <2>1, OneMoreRecent
  <2>5. Cardinality(Recent(calledOff, clock)) <= notice.used
    BY <2>1, StandingIs DEF DeskInv, NoticeOK, Standing
  <2>6. /\ Cardinality(Recent(next, clock)) \in Nat
        /\ Cardinality(Recent(calledOff, clock)) \in Nat
    BY <2>1, <2>2, RecentIsFinite
  <2> HIDE DEF next
  <2> QED BY <2>1, <2>3, <2>4, <2>5, <2>6 DEF CancelHintWarns
<1> QED BY <1>1, DeskInvariance, PTL

-----------------------------------------------------------------------------
(* The board.                                                              *)

\* An eligible candidate is no further off the route than the threshold.
LEMMA EligibleIsOnRoute ==
    ASSUME NEW r \in Rides, Verdict(Trip, Candidate(r)).eligible,
           NEW d \in Verdict(Trip, Candidate(r)).diff
    PROVE  d <= MaxBearingDiff
<1> DEFINE Turns == {0} \cup {AngularDifference(b, Bearing[r]) : b \in {Bearing[m] : m \in Aboard}}
<1>1. Refusal(Trip, Candidate(r)) = "none"
  BY DEF Verdict
<1>2. Trip.bearings = {Bearing[m] : m \in Aboard} /\ Candidate(r).bearing = Bearing[r]
  BY DEF Trip, Candidate
<1>3. RouteFits({Bearing[m] : m \in Aboard}, Bearing[r])
  BY <1>1, <1>2 DEF Refusal
<1>4. d = WorstDifference({Bearing[m] : m \in Aboard}, Bearing[r])
  BY <1>1, <1>2 DEF Verdict
<1>5. d = Max(Turns)
  BY <1>4 DEF WorstDifference
<1>6. MaxBearingDiff \in Nat
  BY ThresholdAssumption
<1>7. \A n \in Turns : n \in Nat /\ n <= MaxBearingDiff
  <2>1. \A m \in Aboard : AngularDifference(Bearing[m], Bearing[r]) <= MaxBearingDiff
    BY <1>3 DEF RouteFits
  <2>2. \A m \in Aboard : AngularDifference(Bearing[m], Bearing[r]) \in 0..180
    BY DeskAssumption, AngleIsSymmetric DEF Aboard
  <2> QED BY <1>6, <2>1, <2>2
<1>8. Turns \in SUBSET Nat /\ Turns # {}
  BY <1>7
<1> HIDE DEF Turns
<1>9. \E m \in Turns : \A n \in Turns : n <= m
  BY <1>6, <1>7, <1>8, GreatestOf
<1>10. \E m \in Turns : \A n \in Turns : m >= n
  BY <1>7, <1>9
<1>11. Max(Turns) \in Turns
  BY <1>10 DEF Max
<1> QED BY <1>5, <1>7, <1>11

\* A request that could be accepted is missing from the board only if the board
\* is full.
LEMMA BoardIsFull ==
    ASSUME NEW r \in Rides, OnOffer(r), r \notin Listed
    PROVE  Cardinality(Listed) = FeedLimit
<1> DEFINE Requests == {s \in Rides : OnOffer(s)}
<1>1. /\ Requests \in SUBSET Nat /\ IsFiniteSet(Requests) /\ r \in Requests
      /\ FeedLimit \in Nat \ {0}
  BY DeskAssumption, RidesAssumption, FS_Subset
<1>2. Listed = {x \in Requests : Cardinality({s \in Requests : s < x}) < FeedLimit}
  BY DEF Listed, Oldest
<1> HIDE DEF Requests
<1>3. ~(Cardinality({s \in Requests : s < r}) < FeedLimit)
  BY <1>1, <1>2
<1>4. Cardinality({s \in Requests : s < r}) \in Nat
  <2>1. IsFiniteSet({s \in Requests : s < r})
    BY <1>1, FS_Subset
  <2> QED BY <2>1, FS_CardinalityType
<1>5. Cardinality({s \in Requests : s < r}) >= FeedLimit
  BY <1>1, <1>3, <1>4
<1> QED BY <1>1, <1>2, <1>5, FirstOnes

\* What the board offers is what the API accepts, at the prices the passenger was
\* quoted, and it withholds nothing that it has room for (driver.service.ts:130,
\* request-board.tsx:62).
THEOREM BoardTellsTheTruth == DeskSpec => []BoardAgrees
<1>1. DeskInv /\ FareInv => BoardAgrees
  <2> SUFFICES ASSUME DeskInv, FareInv, NEW r \in Rides
               PROVE  LET accepted == IF Card(r).starts THEN MayCreatePool(r)
                                      ELSE MayAddMember(r)
                      IN  /\ online /\ r \in Listed =>
                                /\ Card(r).button <=> accepted
                                /\ Card(r).button => \A d \in Card(r).off : d <= MaxBearingDiff
                                /\ Card(r).pooled = quoted[r].pooled
                                /\ Card(r).alone = quoted[r].solo
                          /\ accepted /\ r \notin Listed => Cardinality(Listed) = FeedLimit
    BY DEF BoardAgrees
  <2> DEFINE accepted == IF Card(r).starts THEN MayCreatePool(r) ELSE MayAddMember(r)
  <2>1. /\ Card(r).starts = (status = None)
        /\ Card(r).button = (CardVerdict(r).eligible /\ ~Suspended)
        /\ Card(r).off = CardVerdict(r).diff
        /\ Card(r).pooled = CalculateFare(KmToMilliKm(ToFixed3(distanceKm[r])), Seats[r], TRUE)
        /\ Card(r).alone = estimated[r]
    BY DEF Card
  <2>2. accepted => OnOffer(r)
    BY DEF MayCreatePool, MayAddMember, Matchable, NotDropped, OnOffer
  <2>3. status # None => ~Suspended
    BY DEF DeskInv
  <2>4. /\ online /\ OnOffer(r) => (Card(r).button <=> accepted)
        /\ Card(r).button => \A d \in Card(r).off : d <= MaxBearingDiff
    <3>1. CASE status = None
      <4>1. /\ CardVerdict(r).eligible = (Seats[r] <= Capacity)
            /\ CardVerdict(r).diff = {}
        BY <3>1 DEF CardVerdict
      <4>2. accepted <=> MayCreatePool(r)
        BY <2>1, <3>1
      <4> HIDE DEF accepted
      <4> QED BY <2>1, <3>1, <4>1, <4>2 DEF MayCreatePool, Matchable, NotDropped, OnOffer
    <3>2. CASE status # None
      <4>1. CardVerdict(r) = Verdict(Trip, Candidate(r))
        BY <3>2 DEF CardVerdict
      <4>2. accepted <=> MayAddMember(r)
        BY <2>1, <3>2
      <4> HIDE DEF accepted
      <4>3. Card(r).button => \A d \in Card(r).off : d <= MaxBearingDiff
        BY <2>1, <4>1, EligibleIsOnRoute
      <4> QED BY <2>1, <2>3, <3>2, <4>1, <4>2, <4>3
           DEF MayAddMember, Matchable, NotDropped, OnOffer
    <3> QED BY <3>1, <3>2
  <2>5. r \in Listed => OnOffer(r)
    BY DEF Listed, Oldest
  <2>6. OnOffer(r) => Card(r).pooled = quoted[r].pooled /\ Card(r).alone = quoted[r].solo
    <3> SUFFICES ASSUME OnOffer(r)
                 PROVE  Card(r).pooled = quoted[r].pooled /\ Card(r).alone = quoted[r].solo
      OBVIOUS
    <3>1. Remembers(r)
      BY DEF FareInv, OnOffer
    <3>2. Card(r).pooled = CalculateFare(Metres[r], Seats[r], TRUE)
      BY <2>1, <3>1, Zenon DEF Remembers
    <3>3. Card(r).alone = CalculateFare(Metres[r], Seats[r], FALSE)
      BY <2>1, <3>1, Zenon DEF Remembers
    <3>4. /\ quoted[r].solo = CalculateFare(Metres[r], Seats[r], FALSE)
          /\ quoted[r].pooled = CalculateFare(Metres[r], Seats[r], TRUE)
      BY <3>1 DEF Remembers
    <3> QED BY <3>2, <3>3, <3>4, Zenon
  <2>7. accepted /\ r \notin Listed => Cardinality(Listed) = FeedLimit
    BY <2>2, BoardIsFull
  <2> HIDE DEF accepted
  <2>8. /\ online /\ r \in Listed =>
              /\ Card(r).button <=> accepted
              /\ Card(r).button => \A d \in Card(r).off : d <= MaxBearingDiff
              /\ Card(r).pooled = quoted[r].pooled /\ Card(r).alone = quoted[r].solo
        /\ accepted /\ r \notin Listed => Cardinality(Listed) = FeedLimit
    BY <2>4, <2>5, <2>6, <2>7, Zenon
  <2> QED BY <2>8, Zenon DEF accepted
<1> QED BY <1>1, DeskInvariance, PTL
=============================================================================
