---------------------------- MODULE MCTeslaPool ----------------------------
(***************************************************************************)
(* Small instances of TeslaPool for TLC.  Rides, drivers and passengers    *)
(* are strings so that the functions over them can be written here; pools  *)
(* and request slots are model values.                                     *)
(***************************************************************************)
EXTENDS TeslaPool, TLC

\* Two passengers with one ride each, three seats wanted from a vehicle of
\* three; the first pays from a wallet, the second in cash.
TwoRides == {"nusrat", "rafiq"}
TwoOwners == [r \in TwoRides |-> r]
ThreeSeats == [r \in TwoRides |-> IF r = "nusrat" THEN 2 ELSE 1]
OnePickup == [r \in TwoRides |-> "Banani"]
AllSameWay == TwoRides \X TwoRides
MixedMethods == [r \in TwoRides |-> IF r = "nusrat" THEN "TESLAPAY" ELSE "CASH"]
TwoPrices == [r \in TwoRides |-> [f \in Fare |-> IF f = "solo" THEN 3 ELSE 2]]
SmallFleet == [d \in Drivers |-> IF d = "jashim" THEN 3 ELSE 2]
PooledMoney == [u \in Passengers |-> 2]

\* Three passengers of one area, going one way; one pays from a wallet.
ThreeRides == {"nusrat", "rafiq", "shirin"}
ThreeOwners == [r \in ThreeRides |-> r]
OneArea == [r \in ThreeRides |-> "Banani"]
OneByWallet == [r \in ThreeRides |-> IF r = "nusrat" THEN "TESLAPAY" ELSE "CASH"]
ThreePrices == [r \in ThreeRides |-> [f \in Fare |-> IF f = "solo" THEN 3 ELSE 2]]

\* A vehicle of three in which the first passenger takes two seats, so that
\* two others compete for the last one.
LastSeats == [r \in ThreeRides |-> IF r = "nusrat" THEN 2 ELSE 1]
EveryWay == ThreeRides \X ThreeRides

\* One passenger who asks twice.
Asking == {"first", "second"}
SameOwner == [r \in Asking |-> "nusrat"]
TwoSeatsEach == [r \in Asking |-> 2]
AskingPickup == [r \in Asking |-> "Banani"]
AskingWay == Asking \X Asking
AskingMethod == [r \in Asking |-> "TESLAPAY"]
OneRideMoney == [u \in Passengers |-> 4]
AskingPrices == [r \in Asking |-> [f \in Fare |-> IF f = "solo" THEN 3 ELSE 2]]

Symmetry == Permutations(Pools) \cup Permutations(Tx)
=============================================================================
