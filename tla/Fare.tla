-------------------------------- MODULE Fare --------------------------------
(***************************************************************************)
(* The arithmetic of money and distance: lib/money.ts and lib/fare.ts.     *)
(* Money is paisa and distance is metres, both integers of any size        *)
(* (bigint).  A decimal written out is a record of the digits before and   *)
(* after the point; what the code rejects by throwing is outside the       *)
(* domain of the operator.                                                 *)
(***************************************************************************)
EXTENDS Integers, Sequences, FiniteSetsExt

CONSTANTS BaseFare,     \* FARE_BASE_PAISA, per seat
          PerKm,        \* FARE_PER_KM_PAISA
          DiscountPct   \* FARE_POOL_DISCOUNT_PCT

ASSUME ConfigAssumption ==
    BaseFare \in Nat /\ PerKm \in Nat /\ DiscountPct \in 0..100

-----------------------------------------------------------------------------
\* Rounding.

DivRoundHalfUp(n, d) == (2 * n + d) \div (2 * d)

PercentOf(amount, percent) == DivRoundHalfUp(amount * percent, 100)

-----------------------------------------------------------------------------
\* Decimals.

\* The i-th digit after the point once the fraction is padded with zeros.
Digit(x, i) == IF i \in DOMAIN x.frac THEN x.frac[i] ELSE 0

\* The number that x writes out, in thousandths.
KmToMilliKm(x) == 1000 * x.whole + 100 * Digit(x, 1) + 10 * Digit(x, 2) + Digit(x, 3)

\* Mutant of MilliKmToKm: the fraction is not padded to three places.
Unpadded(m) ==
    LET f == m % 1000 IN
    [whole |-> m \div 1000,
     frac  |-> CASE f < 10  -> <<f>>
                 [] f < 100 /\ f >= 10 -> <<f \div 10, f % 10>>
                 [] f >= 100 -> <<f \div 100, (f \div 10) % 10, f % 10>>]

\* m metres written out as kilometres, always with three places.
MilliKmToKm(m) ==
    [whole |-> m \div 1000, frac |-> <<(m \div 100) % 10, (m \div 10) % 10, m % 10>>]

\* What a DECIMAL(6,3) column gives back: the value, without trailing zeros.
Column(x) ==
    [x EXCEPT !.frac = SubSeq(@, 1, Max({0} \cup {i \in DOMAIN @ : @[i] # 0}))]

\* Decimal.toFixed(3)
ToFixed3(x) == [x EXCEPT !.frac = <<Digit(x, 1), Digit(x, 2), Digit(x, 3)>>]

\* paisa may be negative; the digits are those of its absolute value.
FormatPaisa(paisa) ==
    LET absolute == IF paisa < 0 THEN -paisa ELSE paisa IN
    [negative |-> paisa < 0,
     whole    |-> absolute \div 100,
     frac     |-> <<(absolute \div 10) % 10, absolute % 10>>]

TakaToPaisa(x) ==
    LET paisa == 100 * x.whole + 10 * Digit(x, 1) + Digit(x, 2) IN
    IF x.negative THEN -paisa ELSE paisa

-----------------------------------------------------------------------------
\* The fare.

\* Mutant of IsPooled: the comparison the wrong way round.
IsAlone(members) == members <= 1

IsPooled(members) == members > 1

DistanceCharge(metres) == DivRoundHalfUp(PerKm * metres, 1000)

PoolDiscount(metres, pooled) ==
    IF pooled THEN PercentOf(DistanceCharge(metres), DiscountPct) ELSE 0

\* Mutant of PerSeat: the base fare is discounted like the distance.
PerSeatDiscounted(metres, pooled) ==
    LET undiscounted == BaseFare + DistanceCharge(metres) IN
    undiscounted - (IF pooled THEN PercentOf(undiscounted, DiscountPct) ELSE 0)

\* The discount is on the distance only, never on the base fare.
PerSeat(metres, pooled) ==
    BaseFare + DistanceCharge(metres) - PoolDiscount(metres, pooled)

\* totalFarePaisa of calculateFare.
CalculateFare(metres, seats, pooled) == PerSeat(metres, pooled) * seats
=============================================================================
