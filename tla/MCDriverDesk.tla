---------------------------- MODULE MCDriverDesk ----------------------------
(***************************************************************************)
(* A small instance of DriverDesk for TLC, at the default prices: four     *)
(* requests, of which three leave one area either side of north, each at   *)
(* the threshold from the next and the first and last beyond it, and one   *)
(* leaves another area and fills the vehicle; over a few metres, the two   *)
(* distances of the README's example and one with a zero in its fraction.  *)
(***************************************************************************)
EXTENDS DriverDesk, TLC

FourRides == 1..4
SeatsWanted == <<1, 3, 1, 1>>
MetresGone == <<3, 1789, 1799, 2050>>
PickedUp == <<"Banani", "Uttara", "Banani", "Banani">>
Heading == <<350, 0, 35, 80>>
=============================================================================
