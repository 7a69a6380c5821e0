------------------------------ MODULE Matching ------------------------------
(***************************************************************************)
(* Which requests may share a Tesla: domain/matching.ts and the angles of  *)
(* lib/geo.ts.  A bearing is a whole number of degrees clockwise from      *)
(* north; that it comes from a great circle between two areas is left out. *)
(***************************************************************************)
EXTENDS Integers, FiniteSetsExt

CONSTANT MaxBearingDiff     \* POOL_MAX_BEARING_DIFF_DEG

ASSUME ThresholdAssumption == MaxBearingDiff \in 0..180

Degrees == 0..359

\* Mutant of AngularDifference: the way round through north is forgotten.
StraightDifference(a, b) == IF a > b THEN a - b ELSE b - a

AngularDifference(a, b) ==
    LET raw == (IF a > b THEN a - b ELSE b - a) % 360 IN
    IF raw > 180 THEN 360 - raw ELSE raw

\* The worst difference against the bearings of the members, 0 without any.
WorstDifference(bearings, bearing) ==
    Max({0} \cup {AngularDifference(b, bearing) : b \in bearings})

\* Mutant of RouteFits: one member is asked, not all.
AnchorFits(bearings, bearing) ==
    bearings = {} \/ AngularDifference(CHOOSE b \in bearings : TRUE, bearing) <= MaxBearingDiff

RouteFits(bearings, bearing) ==
    \A b \in bearings : AngularDifference(b, bearing) <= MaxBearingDiff

\* What stands in the way of a candidate, the most decisive first.
Refusal(pool, candidate) ==
    IF pool.status # "FORMING" THEN "POOL_NOT_FORMING"
    ELSE IF pool.area # candidate.area THEN "DIFFERENT_PICKUP_AREA"
    ELSE IF candidate.seats > pool.free THEN "NOT_ENOUGH_SEATS"
    ELSE IF ~RouteFits(pool.bearings, candidate.bearing) THEN "ROUTE_NOT_COMPATIBLE"
    ELSE "none"

\* evaluatePoolability; diff is how far off the route the candidate is, if the
\* routes were compared.
Verdict(pool, candidate) ==
    LET reason == Refusal(pool, candidate) IN
    [eligible |-> reason = "none",
     reason   |-> reason,
     diff     |-> IF reason \in {"none", "ROUTE_NOT_COMPATIBLE"} /\ pool.bearings # {}
                  THEN {WorstDifference(pool.bearings, candidate.bearing)} ELSE {}]
=============================================================================
