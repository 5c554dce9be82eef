---------------------------- MODULE RideLifecycle ----------------------------
(***************************************************************************)
(* What the ride table promises to everyone who reads it: the status       *)
(* machine of a ride, who may end it from which status, and one ride in    *)
(* progress per rider.  Matching, offers, concurrency of handlers and      *)
(* restarts are below this level; RideDispatch implements it.              *)
(***************************************************************************)
CONSTANTS Ride,     \* the rows of table Ride
          Rider,    \* customers
          NoOne     \* null

VARIABLES status,   \* [Ride -> status of the row], "none" before the INSERT
          rider,    \* [Ride -> riderId]
          by        \* [Ride -> cancelledBy]

lvars == <<status, rider, by>>

Committed == {"arriving", "arrived", "in_progress"}
Active    == {"requested", "matched"} \cup Committed
Terminal  == {"completed", "cancelled"}

Init ==
  /\ status = [r \in Ride |-> "none"]
  /\ rider  = [r \in Ride |-> NoOne]
  /\ by     = [r \in Ride |-> "none"]

(* A rider with no active ride books one. *)
Book(r, c) ==
  /\ status[r] = "none"
  /\ \A s \in Ride : rider[s] = c => status[s] \notin Active
  /\ status' = [status EXCEPT ![r] = "requested"]
  /\ rider'  = [rider EXCEPT ![r] = c]
  /\ UNCHANGED by

Advance(r, from, to) ==
  /\ status[r] \in from
  /\ status' = [status EXCEPT ![r] = to]
  /\ UNCHANGED <<rider, by>>

Accept(r)   == Advance(r, {"requested"}, "arriving")
Arrive(r)   == Advance(r, {"arriving"}, "arrived")
Start(r)    == Advance(r, {"arriving", "arrived"}, "in_progress")
Complete(r) == Advance(r, {"in_progress"}, "completed")

(* Giving up the search names nobody as the one who cancelled. *)
GiveUp(r)   == Advance(r, {"requested"}, "cancelled")

CancelFrom(r, from, who) ==
  /\ status[r] \in from
  /\ status' = [status EXCEPT ![r] = "cancelled"]
  /\ by'     = [by EXCEPT ![r] = who]
  /\ UNCHANGED rider

CancelByRider(r)  == CancelFrom(r, {"requested", "matched", "arriving"}, "customer")
CancelByDriver(r) == CancelFrom(r, {"arriving", "arrived"}, "driver")
CancelStale(r)    == CancelFrom(r, Committed, "admin")

Next ==
  \E r \in Ride :
    \/ \E c \in Rider : Book(r, c)
    \/ Accept(r) \/ Arrive(r) \/ Start(r) \/ Complete(r)
    \/ GiveUp(r) \/ CancelByRider(r) \/ CancelByDriver(r) \/ CancelStale(r)

Spec == Init /\ [][Next]_lvars
=============================================================================
