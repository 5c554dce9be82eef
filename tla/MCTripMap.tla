----------------------------- MODULE MCTripMap -----------------------------
(* Two destinations and a device that reports one heading or none.           *)
EXTENDS TripMap

West == 6
MCHeading == {West}
=============================================================================
