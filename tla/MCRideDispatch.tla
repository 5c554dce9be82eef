--------------------------- MODULE MCRideDispatch ---------------------------
(* Symmetry of the model values that instantiate RideDispatch, and the cut   *)
(* of the state space, for the run of two processes.                         *)
EXTENDS RideDispatch, TLC

UserSymmetry ==
  Permutations(Rider) \cup Permutations(Driver) \cup Permutations(Ride)
    \cup Permutations(Request) \cup Permutations(Matcher)

(* Two requests of a rider compete before any ride is offered and while the  *)
(* loops rest, two matching loops before the trip: states with two requests  *)
(* in flight at another time, with a ride beyond "arriving", or with every   *)
(* ride cancelled are checked but not explored further.                      *)
Competing ==
  /\ \A r \in Ride : ride[r].status \notin {"arrived", "in_progress", "completed"}
  /\ \E r \in Ride : ride[r].status # "cancelled"
  /\ \/ \E q \in Request : req[q].op = "idle"
     \/ /\ \A m \in Matcher : loop[m].pc = "idle"
        /\ \A r \in Ride : ride[r].excluded = {} /\ ride[r].driver = NoOne

(* Requests overlap each other as long as nothing has failed; after a failure *)
(* or a restart they overlap the matching loop only.                          *)
CalmAfterFault ==
  faults > 0 => \A p, q \in Request : p # q => "idle" \in {req[p].op, req[q].op}
=============================================================================
