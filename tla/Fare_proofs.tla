----------------------------- MODULE Fare_proofs -----------------------------
(***************************************************************************)
(* Theorems about the arithmetic of Fare, for every amount, and about the  *)
(* fares of a pool (PoolFares), for any rides, distances and prices.       *)
(***************************************************************************)
EXTENDS PoolFares, FiniteSetTheorems, TLAPS

\* divRoundHalfUp gives the nearest integer, the greater one of two
\* (money.ts:22), for the denominators in use.
THEOREM RoundsToNearest ==
    ASSUME NEW n \in Nat, NEW d \in {100, 1000}
    PROVE  /\ DivRoundHalfUp(n, d) \in Nat
           /\ 2 * d * DivRoundHalfUp(n, d) <= 2 * n + d
           /\ 2 * n + d < 2 * d * (DivRoundHalfUp(n, d) + 1)
BY DEF DivRoundHalfUp

\* A percentage of at most a hundred never exceeds the amount (money.ts:45), so
\* a discount stays within the charge.
THEOREM PercentWithinAmount ==
    ASSUME NEW a \in Nat, NEW p \in 0..100
    PROVE  PercentOf(a, p) \in 0..a
<1>1. a * p \in Nat /\ a * p <= a * 100
  OBVIOUS
<1> DEFINE n == a * p
<1> HIDE DEF n
<1>2. n \in Nat /\ n <= 100 * a
  BY <1>1 DEF n
<1>3. DivRoundHalfUp(n, 100) \in Nat /\ DivRoundHalfUp(n, 100) <= a
  BY <1>2 DEF DivRoundHalfUp
<1> QED BY <1>3 DEF PercentOf, n

\* Metres written as kilometres and read back are the same metres
\* (money.ts:101, 88).
THEOREM DistanceRoundTrip ==
    ASSUME NEW m \in Nat
    PROVE  KmToMilliKm(MilliKmToKm(m)) = m
BY DEF KmToMilliKm, MilliKmToKm, Digit

\* A number is made of its hundreds, its tens and its units.
LEMMA DigitsMakeUp ==
    ASSUME NEW n \in Nat
    PROVE  100 * (n \div 100) + 10 * ((n \div 10) % 10) + (n % 10) = n
<1> DEFINE q == n \div 10
           h == n \div 100
<1>1. q \in Nat /\ h \in Nat /\ n = 10 * q + (n % 10) /\ n % 10 \in 0..9
  OBVIOUS
<1>2. 100 * h <= n /\ n < 100 * h + 100
  OBVIOUS
<1>3. 10 * h <= q /\ q < 10 * h + 10
  <2> HIDE DEF q, h
  <2> QED BY <1>1, <1>2
<1>4. q % 10 = q - 10 * h
  <2> HIDE DEF q, h
  <2> QED BY <1>1, <1>3
<1> HIDE DEF q, h
<1>5. 100 * h + 10 * (q % 10) + (n % 10) = n
  BY <1>1, <1>4
<1> QED BY <1>5 DEF q, h

\* An amount written as Taka and read back is the same amount, negative ones
\* included (money.ts:53, 72).
THEOREM AmountRoundTrip ==
    ASSUME NEW paisa \in Int
    PROVE  TakaToPaisa(FormatPaisa(paisa)) = paisa
<1> DEFINE abs == IF paisa < 0 THEN -paisa ELSE paisa
           x == FormatPaisa(paisa)
<1>1. abs \in Nat /\ paisa = IF paisa < 0 THEN -abs ELSE abs
  OBVIOUS
<1>2. /\ x.negative <=> paisa < 0
      /\ x.whole = abs \div 100
      /\ Digit(x, 1) = (abs \div 10) % 10 /\ Digit(x, 2) = abs % 10
  <2>1. x = [negative |-> paisa < 0, whole |-> abs \div 100,
             frac |-> <<(abs \div 10) % 10, abs % 10>>]
    BY DEF FormatPaisa
  <2> DEFINE tens == (abs \div 10) % 10
             units == abs % 10
  <2>2. x.frac = <<tens, units>>
    <3> HIDE DEF abs
    <3> QED BY <2>1
  <2>3. x.negative <=> paisa < 0
    <3> HIDE DEF abs, x
    <3> QED BY <2>1
  <2>4. x.whole = abs \div 100
    <3> HIDE DEF abs, x
    <3> QED BY <2>1, Zenon
  <2> HIDE DEF abs, x, tens, units
  <2>5. Digit(x, 1) = tens /\ Digit(x, 2) = units
    BY <2>2 DEF Digit
  <2> QED BY <2>3, <2>4, <2>5, Zenon DEF tens, units
<1> HIDE DEF abs, x
<1>3. 100 * (abs \div 100) + 10 * ((abs \div 10) % 10) + (abs % 10) = abs
  BY <1>1, DigitsMakeUp
<1>4. 100 * x.whole + 10 * Digit(x, 1) + Digit(x, 2) = abs
  <2> DEFINE whole == x.whole
             tens == Digit(x, 1)
             units == Digit(x, 2)
  <2>1. whole = abs \div 100 /\ tens = (abs \div 10) % 10 /\ units = abs % 10
    BY <1>2, Zenon
  <2> HIDE DEF whole, tens, units
  <2>2. 100 * whole + 10 * tens + units = abs
    BY <1>3, <2>1, Zenon
  <2> QED BY <2>2 DEF whole, tens, units
<1>5. TakaToPaisa(x) = IF paisa < 0 THEN -abs ELSE abs
  BY <1>2, <1>4, Zenon DEF TakaToPaisa
<1> QED BY <1>1, <1>5 DEF x

\* The distance that a fare is computed from is the one the ride was quoted
\* for: the DECIMAL column drops zeros and toFixed puts them back
\* (rides.service.ts:138, pool.fares.ts:37).
THEOREM StoredDistanceIsExact ==
    ASSUME NEW m \in Nat
    PROVE  KmToMilliKm(ToFixed3(Column(MilliKmToKm(m)))) = m
<1> DEFINE x == MilliKmToKm(m)
           S == {0} \cup {i \in DOMAIN x.frac : x.frac[i] # 0}
           k == Max(S)
           y == Column(x)
<1>1. x.frac \in Seq(Nat) /\ Len(x.frac) = 3 /\ DOMAIN x.frac = 1..3
  BY DEF MilliKmToKm
<1>2. k \in S /\ \A i \in S : k >= i
  <2>1. \E z \in S : \A i \in S : z >= i
    <3>1. S \subseteq {0, 1, 2, 3} /\ 0 \in S
      BY <1>1
    <3> HIDE DEF S
    <3> QED BY <3>1
  <2> QED BY <2>1 DEF Max
<1>3. k \in 0..3 /\ \A i \in 1..3 : i > k => x.frac[i] = 0
  <2>1. S \subseteq 0..3
    BY <1>1
  <2>2. ASSUME NEW i \in 1..3, i > k, x.frac[i] # 0
        PROVE  FALSE
    <3>1. i \in S
      BY <1>1, <2>2
    <3> HIDE DEF S, x, k
    <3>2. k >= i
      BY <1>2, <3>1
    <3>3. k \in 0..3
      BY <1>2, <2>1
    <3> QED BY <2>2, <3>2, <3>3
  <2> HIDE DEF k, S, x
  <2> QED BY <1>2, <2>1, <2>2
<1>4. y.frac = SubSeq(x.frac, 1, k) /\ y.whole = x.whole
  <2>1. x = [whole |-> x.whole, frac |-> x.frac]
    BY DEF MilliKmToKm
  <2>2. y = [x EXCEPT !.frac = SubSeq(x.frac, 1, k)]
    BY DEF Column
  <2> HIDE DEF x, y, k
  <2> QED BY <2>1, <2>2
<1> HIDE DEF k, S
<1>5. /\ DOMAIN y.frac = 1..k
      /\ \A i \in 1..k : y.frac[i] = x.frac[i]
  <2> HIDE DEF x, y
  <2> QED BY <1>1, <1>3, <1>4
<1>6. \A i \in 1..3 : Digit(y, i) = x.frac[i] /\ Digit(x, i) = x.frac[i]
  <2> HIDE DEF x, y
  <2> SUFFICES ASSUME NEW i \in 1..3
               PROVE  Digit(y, i) = x.frac[i] /\ Digit(x, i) = x.frac[i]
    OBVIOUS
  <2>1. Digit(x, i) = x.frac[i]
    BY <1>1 DEF Digit
  <2>2. CASE i <= k
    <3>1. i \in 1..k
      BY <1>3, <2>2
    <3>2. i \in DOMAIN y.frac /\ y.frac[i] = x.frac[i]
      BY <1>5, <3>1, Zenon
    <3> QED BY <2>1, <3>2, Zenon DEF Digit
  <2>3. CASE i > k
    <3>1. i \notin 1..k /\ x.frac[i] = 0
      BY <1>3, <2>3
    <3>2. i \notin DOMAIN y.frac
      BY <1>5, <3>1, Zenon
    <3> QED BY <2>1, <3>1, <3>2, Zenon DEF Digit
  <2> QED BY <1>3, <2>2, <2>3
<1>7. /\ ToFixed3(y).whole = x.whole
      /\ \A i \in 1..3 : Digit(ToFixed3(y), i) = x.frac[i]
  <2>1. ToFixed3(y).frac = <<Digit(y, 1), Digit(y, 2), Digit(y, 3)>>
    BY DEF ToFixed3, Column, MilliKmToKm
  <2>2. ToFixed3(y).whole = x.whole
    BY <1>4 DEF ToFixed3, Column, MilliKmToKm
  <2> HIDE DEF x, y
  <2> QED BY <1>6, <2>1, <2>2 DEF Digit
<1>8. KmToMilliKm(ToFixed3(y)) = KmToMilliKm(x)
  <2> HIDE DEF x, y
  <2> QED BY <1>6, <1>7 DEF KmToMilliKm
<1> QED BY <1>8, DistanceRoundTrip

-----------------------------------------------------------------------------
\* What a passenger pays lies between the base fare of their seats and the
\* price of riding alone.
LEMMA ProductsInOrder ==
    ASSUME NEW a \in Nat, NEW b \in Nat, NEW s \in Nat, a <= b
    PROVE  a * s <= b * s
<1>1. b - a \in Nat
  OBVIOUS
<1>2. (b - a) * s >= 0
  BY <1>1
<1>3. (b - a) * s = b * s - a * s
  OBVIOUS
<1>4. a * s \in Nat /\ b * s \in Nat
  OBVIOUS
<1> QED BY <1>2, <1>3, <1>4

\* Sharing never makes a trip dearer, and never eats into the base fare, for
\* any prices, distance and number of seats (fare.ts:67).
THEOREM FareBounds ==
    ASSUME NEW m \in Nat, NEW s \in Nat, NEW pooled \in BOOLEAN
    PROVE  /\ CalculateFare(m, s, pooled) \in Nat
           /\ BaseFare * s <= CalculateFare(m, s, pooled)
           /\ CalculateFare(m, s, pooled) <= CalculateFare(m, s, FALSE)
<1> DEFINE charge == DistanceCharge(m)
           discount == PoolDiscount(m, pooled)
           seat == PerSeat(m, pooled)
           alone == PerSeat(m, FALSE)
<1>1. BaseFare \in Nat /\ DiscountPct \in 0..100
  BY ConfigAssumption
<1>2. charge \in Nat
  <2>1. PerKm * m \in Nat
    BY ConfigAssumption
  <2> QED BY <2>1, RoundsToNearest DEF DistanceCharge
<1>3. discount \in 0..charge
  <2>1. CASE pooled
    BY <1>1, <1>2, <2>1, PercentWithinAmount DEF PoolDiscount
  <2>2. CASE ~pooled
    <3>1. discount = 0
      BY <2>2, Zenon DEF PoolDiscount
    <3> HIDE DEF charge, discount
    <3> QED BY <1>2, <3>1
  <2> QED BY <2>1, <2>2
<1>4. seat = BaseFare + charge - discount /\ alone = BaseFare + charge - 0
  BY Zenon DEF PerSeat, PoolDiscount
<1> HIDE DEF charge, discount, seat, alone
<1>5. seat \in Nat /\ alone \in Nat /\ BaseFare <= seat /\ seat <= alone
  BY <1>1, <1>2, <1>3, <1>4
<1>6. BaseFare * s <= seat * s /\ seat * s <= alone * s /\ seat * s \in Nat
  BY <1>1, <1>5, ProductsInOrder
<1>7. CalculateFare(m, s, pooled) = seat * s /\ CalculateFare(m, s, FALSE) = alone * s
  BY Zenon DEF CalculateFare, seat, alone
<1> QED BY <1>6, <1>7

-----------------------------------------------------------------------------
\* The inductive invariant.  A requested ride remembers, in its three columns
\* and the history, one and the same distance.
Remembers(r) ==
    /\ quoted[r] = [solo   |-> CalculateFare(Metres[r], Seats[r], FALSE),
                    pooled |-> CalculateFare(Metres[r], Seats[r], TRUE)]
    /\ estimated[r] = CalculateFare(Metres[r], Seats[r], FALSE)
    /\ KmToMilliKm(ToFixed3(distanceKm[r])) = Metres[r]

Shapes ==
    /\ at \in [Rides -> {"none", "waiting", "aboard", "left", "done"}]
    /\ DOMAIN quoted = Rides /\ DOMAIN distanceKm = Rides
    /\ DOMAIN estimated = Rides /\ DOMAIN fare = Rides /\ DOMAIN final = Rides
    /\ started \in BOOLEAN

FareInv ==
    /\ Shapes
    /\ \A r \in Rides : at[r] # "none" => Remembers(r)
    /\ ChargedAsQuoted

LEMMA FareInit == Init => FareInv
BY DEF Init, FareInv, Shapes, ChargedAsQuoted, Aboard

\* Recalculated charges its members, from their stored distances, one of the
\* two prices they were quoted.
LEMMA RecalculatedQuotes ==
    ASSUME FareInv, NEW members \in SUBSET Rides,
           \A r \in members : at[r] # "none",
           NEW r \in members
    PROVE  Recalculated(members)[r] =
               IF Cardinality(members) > 1 THEN quoted[r].pooled ELSE quoted[r].solo
<1>1. Remembers(r)
  BY DEF FareInv
<1> DEFINE m == Metres[r]
<1>2. Recalculated(members)[r] = CalculateFare(m, Seats[r], IsPooled(Cardinality(members)))
  BY <1>1, Zenon DEF Recalculated, Remembers
<1>3. CASE Cardinality(members) > 1
  <2>1. IsPooled(Cardinality(members)) = TRUE
    BY <1>3 DEF IsPooled
  <2>2. quoted[r].pooled = CalculateFare(m, Seats[r], TRUE)
    BY <1>1 DEF Remembers
  <2> QED BY <1>2, <1>3, <2>1, <2>2, Zenon
<1>4. CASE ~(Cardinality(members) > 1)
  <2>1. IsPooled(Cardinality(members)) = FALSE
    BY <1>4 DEF IsPooled
  <2>2. quoted[r].solo = CalculateFare(m, Seats[r], FALSE)
    BY <1>1 DEF Remembers
  <2> QED BY <1>2, <1>4, <2>1, <2>2, Zenon
<1> QED BY <1>3, <1>4

LEMMA FareStep == FareInv /\ [Next]_vars => FareInv'
<1> SUFFICES ASSUME FareInv, [Next]_vars PROVE FareInv'
  OBVIOUS
<1> USE DEF FareInv, Shapes
<1>1. ASSUME NEW r \in Rides, CreateRide(r)
      PROVE  FareInv'
  <2>1. Metres[r] \in Nat
    BY RidesAssumption
  <2>2. Remembers(r)'
    BY <1>1, <2>1, StoredDistanceIsExact DEF CreateRide, Remembers
  <2>3. Aboard' = Aboard /\ r \notin Aboard
    BY <1>1 DEF CreateRide, Aboard
  <2>4. Shapes'
    BY <1>1 DEF CreateRide
  <2>5. (\A p \in Rides : at[p] # "none" => Remembers(p))'
    <3> SUFFICES ASSUME NEW p \in Rides, p # r, at'[p] # "none"
                 PROVE  Remembers(p)'
      BY <2>2
    <3>1. Remembers(p)
      BY <1>1 DEF CreateRide
    <3> QED BY <1>1, <3>1 DEF CreateRide, Remembers
  <2>6. ChargedAsQuoted'
    BY <1>1, <2>3 DEF ChargedAsQuoted, CreateRide, Aboard
  <2> QED BY <2>4, <2>5, <2>6
<1>2. ASSUME NEW r \in Rides, Join(r)
      PROVE  FareInv'
  <2>1. Aboard' = Aboard \cup {r}
    BY <1>2 DEF Join, Aboard
  <2>2. \A p \in Aboard' : p \in Rides /\ at[p] # "none"
    BY <1>2, <2>1 DEF Join, Aboard
  <2>3. fare' = Recalculated(Aboard') /\ ~started' /\ quoted' = quoted /\ final' = final
    BY <1>2, <2>1 DEF Join
  <2>4. \A p \in Rides : at'[p] = "done" => at[p] = "done"
    BY <1>2 DEF Join
  <2>5. ChargedAsQuoted'
    BY <2>2, <2>3, <2>4, RecalculatedQuotes DEF ChargedAsQuoted
  <2>6. Shapes'
    BY <1>2 DEF Join, Recalculated
  <2>7. (\A p \in Rides : at[p] # "none" => Remembers(p))'
    BY <1>2 DEF Join, Remembers
  <2> QED BY <2>5, <2>6, <2>7
<1>3. ASSUME NEW r \in Rides, Leave(r)
      PROVE  FareInv'
  <2>1. Aboard' = Aboard \ {r}
    BY <1>3 DEF Leave, Aboard
  <2>2. \A p \in Aboard' : p \in Rides /\ at[p] # "none"
    BY <2>1 DEF Aboard
  <2>3. fare' = Recalculated(Aboard') /\ ~started' /\ quoted' = quoted /\ final' = final
    BY <1>3, <2>1 DEF Leave
  <2>4. \A p \in Rides : at'[p] = "done" => at[p] = "done"
    BY <1>3 DEF Leave
  <2>5. ChargedAsQuoted'
    BY <2>2, <2>3, <2>4, RecalculatedQuotes DEF ChargedAsQuoted
  <2>6. Shapes'
    BY <1>3 DEF Leave, Recalculated
  <2>7. (\A p \in Rides : at[p] # "none" => Remembers(p))'
    BY <1>3 DEF Leave, Remembers
  <2> QED BY <2>5, <2>6, <2>7
<1>4. CASE Start
  <2>1. Aboard' = Aboard /\ \A p \in Aboard : p \in Rides /\ at[p] = "aboard"
    BY <1>4 DEF Start, Aboard
  <2>2. ChargedAsQuoted'
    BY <1>4, <2>1 DEF Start, ChargedAsQuoted
  <2>3. Shapes'
    BY <1>4 DEF Start
  <2>4. (\A p \in Rides : at[p] # "none" => Remembers(p))'
    BY <1>4 DEF Start, Remembers
  <2> QED BY <2>2, <2>3, <2>4
<1>5. ASSUME NEW r \in Rides, Withdraw(r)
      PROVE  FareInv'
  <2>1. Aboard' = Aboard
    BY <1>5 DEF Withdraw, Aboard
  <2>2. ChargedAsQuoted'
    BY <1>5, <2>1 DEF Withdraw, ChargedAsQuoted
  <2>3. Shapes'
    BY <1>5 DEF Withdraw
  <2>4. (\A p \in Rides : at[p] # "none" => Remembers(p))'
    BY <1>5 DEF Withdraw, Remembers
  <2> QED BY <2>2, <2>3, <2>4
<1>6. CASE Complete
  <2>1. Aboard' = {}
    BY <1>6 DEF Complete, Aboard
  <2>2. ASSUME NEW r \in Rides, at'[r] = "done"
        PROVE  final'[r] \in {quoted'[r].solo, quoted'[r].pooled}
    <3>1. CASE r \in Aboard
      BY <1>6, <3>1 DEF Complete, ChargedAsQuoted
    <3>2. CASE r \notin Aboard
      BY <1>6, <2>2, <3>2 DEF Complete, ChargedAsQuoted
    <3> QED BY <3>1, <3>2
  <2>3. Shapes'
    BY <1>6 DEF Complete
  <2>4. (\A p \in Rides : at[p] # "none" => Remembers(p))'
    BY <1>6 DEF Complete, Remembers, Aboard
  <2> QED BY <2>1, <2>2, <2>3, <2>4 DEF ChargedAsQuoted
<1>7. CASE CallOff
  <2>1. Aboard' = {}
    BY <1>7 DEF CallOff, Aboard
  <2>2. \A r \in Rides : at'[r] = "done" => at[r] = "done"
    BY <1>7 DEF CallOff
  <2>3. Shapes'
    BY <1>7 DEF CallOff
  <2>4. (\A p \in Rides : at[p] # "none" => Remembers(p))'
    BY <1>7 DEF CallOff, Remembers, Aboard
  <2>5. ChargedAsQuoted'
    BY <1>7, <2>1, <2>2 DEF ChargedAsQuoted, CallOff
  <2> QED BY <2>3, <2>4, <2>5
<1>8. CASE UNCHANGED vars
  BY <1>8 DEF vars, Remembers, ChargedAsQuoted, Aboard
<1> QED BY <1>1, <1>2, <1>3, <1>4, <1>5, <1>6, <1>7, <1>8 DEF Next

THEOREM FareInvariance == Spec => []FareInv
BY FareInit, FareStep, PTL DEF Spec

\* Whoever is aboard is charged one of the two prices they were quoted, what
\* the start of the trip locks is that charge, and it stays when they have been
\* delivered (pool.fares.ts:16, 63).
THEOREM QuotesAreKept == Spec => []ChargedAsQuoted
<1>1. FareInv => ChargedAsQuoted
  BY DEF FareInv
<1> QED BY <1>1, FareInvariance, PTL

\* The charge never exceeds the estimate and never falls below the base fare of
\* the seats (fare.ts:67).
THEOREM ChargesWithinBounds == Spec => []FareWithinBounds
<1>1. ASSUME FareInv, NEW r \in Aboard
      PROVE  BaseFare * Seats[r] <= fare[r] /\ fare[r] <= estimated[r]
  <2>1. r \in Rides /\ at[r] # "none"
    BY DEF Aboard
  <2> DEFINE m == Metres[r]
  <2>2. Remembers(r)
    BY <1>1, <2>1 DEF FareInv
  <2>3. m \in Nat /\ Seats[r] \in Nat
    BY <2>1, RidesAssumption
  <2>4. fare[r] = IF Cardinality(Aboard) > 1 THEN quoted[r].pooled ELSE quoted[r].solo
    BY <1>1 DEF FareInv, ChargedAsQuoted
  <2>5. \E pooled \in BOOLEAN : fare[r] = CalculateFare(m, Seats[r], pooled)
    <3>1. /\ quoted[r].pooled = CalculateFare(m, Seats[r], TRUE)
          /\ quoted[r].solo = CalculateFare(m, Seats[r], FALSE)
      BY <2>2 DEF Remembers
    <3>2. fare[r] = quoted[r].pooled \/ fare[r] = quoted[r].solo
      BY <2>4, Zenon
    <3> QED BY <3>1, <3>2, Zenon
  <2>6. estimated[r] = CalculateFare(m, Seats[r], FALSE)
    BY <2>2 DEF Remembers
  <2> QED BY <2>3, <2>5, <2>6, FareBounds
<1>2. FareInv => FareWithinBounds
  BY <1>1 DEF FareWithinBounds
<1> QED BY <1>2, FareInvariance, PTL

\* No step that brings company makes a trip dearer for those aboard, and none
\* that takes company away makes it cheaper (pool.fares.ts:8).
THEOREM CompanyNeverCosts == Spec => CompanyHelps
<1> DEFINE Helps(r) == /\ Aboard \subseteq Aboard' => fare'[r] <= fare[r]
                       /\ Aboard' \subseteq Aboard => fare'[r] >= fare[r]
<1>1. ASSUME FareInv, FareInv', Next, NEW r \in Aboard \cap Aboard'
      PROVE  Helps(r)
  <2> DEFINE many == Cardinality(Aboard) > 1
             manyNow == Cardinality(Aboard') > 1
  <2>1. r \in Rides /\ at[r] = "aboard"
    BY DEF Aboard
  <2>2. quoted'[r] = quoted[r]
    <3>1. ASSUME NEW p \in Rides, CreateRide(p)
          PROVE  quoted'[r] = quoted[r]
      <4>1. p # r
        BY <2>1, <3>1 DEF CreateRide
      <4> QED BY <1>1, <2>1, <3>1, <4>1 DEF CreateRide, FareInv, Shapes
    <3>2. ASSUME NEW p \in Rides, Join(p) \/ Leave(p) \/ Withdraw(p)
          PROVE  quoted' = quoted
      BY <3>2 DEF Join, Leave, Withdraw
    <3>3. CASE Start \/ Complete \/ CallOff
      BY <3>3 DEF Start, Complete, CallOff
    <3> QED BY <1>1, <3>1, <3>2, <3>3, Zenon DEF Next
  <2> DEFINE m == Metres[r]
  <2>3. Remembers(r)
    BY <1>1, <2>1 DEF FareInv
  <2>4. /\ quoted[r].pooled \in Nat /\ quoted[r].solo \in Nat
        /\ quoted[r].pooled <= quoted[r].solo
    <3>1. m \in Nat /\ Seats[r] \in Nat
      BY <2>1, RidesAssumption
    <3>2. /\ quoted[r].pooled = CalculateFare(m, Seats[r], TRUE)
          /\ quoted[r].solo = CalculateFare(m, Seats[r], FALSE)
      BY <2>3 DEF Remembers
    <3> QED BY <3>1, <3>2, FareBounds
  <2>5. /\ fare[r] = IF many THEN quoted[r].pooled ELSE quoted[r].solo
        /\ fare'[r] = IF manyNow THEN quoted[r].pooled ELSE quoted[r].solo
    <3>1. fare'[r] = IF manyNow THEN quoted'[r].pooled ELSE quoted'[r].solo
      BY <1>1 DEF FareInv, ChargedAsQuoted
    <3>2. fare[r] = IF many THEN quoted[r].pooled ELSE quoted[r].solo
      BY <1>1 DEF FareInv, ChargedAsQuoted
    <3> QED BY <2>2, <3>1, <3>2
  <2>6. /\ Aboard \subseteq Aboard' => (many => manyNow)
        /\ Aboard' \subseteq Aboard => (manyNow => many)
    <3>1. IsFiniteSet(Aboard) /\ IsFiniteSet(Aboard')
      BY RidesAssumption, FS_Subset DEF Aboard
    <3>2. Cardinality(Aboard) \in Nat /\ Cardinality(Aboard') \in Nat
      BY <3>1, FS_CardinalityType
    <3>3. /\ Aboard \subseteq Aboard' => Cardinality(Aboard) <= Cardinality(Aboard')
          /\ Aboard' \subseteq Aboard => Cardinality(Aboard') <= Cardinality(Aboard)
      BY <3>1, FS_Subset
    <3> QED BY <3>2, <3>3
  <2> HIDE DEF many, manyNow
  <2> QED BY <2>4, <2>5, <2>6
<1>2. FareInv /\ FareInv' /\ [Next]_vars
      => [\A r \in Aboard \cap Aboard' : Helps(r)]_vars
  BY <1>1
<1> QED BY <1>2, FareInvariance, PTL DEF Spec, CompanyHelps
=============================================================================
