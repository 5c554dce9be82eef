----------------------------- MODULE MCLiveRide -----------------------------
(* LiveRide as TLC runs it.                                                  *)
EXTENDS LiveRide
=============================================================================
