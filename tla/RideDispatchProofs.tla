------------------------- MODULE RideDispatchProofs -------------------------
(***************************************************************************)
(* Proofs about RideDispatch, for any numbers of riders, drivers, rides,   *)
(* requests in flight and faults.  Every statement that writes table Ride  *)
(* rewrites one row, in one of the few ways RowStep lists; the invariants  *)
(* of the table are proved about those, the invariants about what handlers *)
(* have read about the actions themselves.                                 *)
(***************************************************************************)
EXTENDS RideDispatch, FiniteSetTheorems, TLAPS

USE AttemptsAssumption, FaultsAssumption, NoOneAssumption

-----------------------------------------------------------------------------
(* Rows *)

(* Every way a statement rewrites a row yields a row. *)
LEMMA MovedIsRow ==
  ASSUME NEW row \in Row, NEW to \in Status
  PROVE  Moved(row, to) \in Row
<1>1. row.been \cup {to} \subseteq Status
  BY DEF Row
<1> QED
  BY <1>1 DEF Moved, Row

LEMMA CancelledIsRow ==
  ASSUME NEW row \in Row,
         NEW who \in {"none", "customer", "driver", "admin"},
         NEW why \in {"none", "customer", "driver", "no_drivers_available", "stale"}
  PROVE  Cancelled(row, who, why) \in Row
<1>1. Moved(row, "cancelled") \in Row
  BY MovedIsRow DEF Status, Terminal
<1> QED
  BY <1>1 DEF Cancelled, Row

LEMMA ReleasedIsRow ==
  ASSUME NEW row \in Row, NEW d \in Driver
  PROVE  Released(row, d) \in Row
<1>1. row.attempts < MaxAttempts => row.attempts + 1 \in 0 .. MaxAttempts
  BY DEF Row
<1> QED
  BY <1>1 DEF Released, Row

LEMMA NoRowIsRow == NoRow \in Row
BY DEF NoRow, Row, Status

LEMMA NewRowIsRow ==
  ASSUME NEW c \in Rider
  PROVE  NewRow(c) \in Row
BY NoRowIsRow DEF NewRow, Row, Status, Active

-----------------------------------------------------------------------------
(* Row steps *)

Books(r, new) ==
  \E c \in Rider : ride[r].status = "none" /\ RiderIndexAllows(r, c) /\ new = NewRow(c)

(* The loop that makes an offer drops the ride from its list. *)
IsOffered(r, new) ==
  \E m \in Matcher, d \in Driver :
    /\ Offered(NoOne, r) /\ DriverIndexAllows(r, d)
    /\ new = [ride[r] EXCEPT !.driver = d]
    /\ loop'[m].unassigned = Without(loop[m].unassigned, r)

LosesOffer(r, new) == \E d \in Driver : new = Released(ride[r], d)

IsAccepted(r, new) ==
  \E d \in Driver : /\ Offered(d, r)
                    /\ new = [Moved(ride[r], "arriving") EXCEPT !.accepted = TRUE]

Proceeds(r, new) ==
  \/ ride[r].status = "arriving" /\ new = Moved(ride[r], "arrived")
  \/ ride[r].status \in {"arriving", "arrived"} /\ new = Moved(ride[r], "in_progress")
  \/ ride[r].status = "in_progress" /\ new = Moved(ride[r], "completed")

(* The late fee is what some cancellation in flight has read. *)
IsCancelledByRider(r, new) ==
  \E q \in Request :
    /\ req[q].op = "cancel" /\ req[q].on = r
    /\ ride[r].status \in Cancellable
    /\ new = [Cancelled(ride[r], "customer", "customer") EXCEPT !.fee = req[q].late]

IsCancelled(r, new) ==
  \/ /\ ride[r].status \in {"arriving", "arrived"}
     /\ new = Cancelled(ride[r], "driver", "driver")
  \/ ride[r].status \in Committed /\ new = Cancelled(ride[r], "admin", "stale")

IsGivenUp(r, new) ==
  /\ \E m \in Matcher : \E u \in loop[m].unassigned : u.ride = r
  /\ new = [Moved(ride[r], "cancelled") EXCEPT !.reason = "no_drivers_available"]

ComesDue(r, new) == new = [ride[r] EXCEPT !.due = TRUE]

RowStep(r, new) ==
  \/ Books(r, new) \/ IsOffered(r, new) \/ LosesOffer(r, new) \/ IsAccepted(r, new)
  \/ Proceeds(r, new) \/ IsCancelledByRider(r, new) \/ IsCancelled(r, new)
  \/ IsGivenUp(r, new) \/ ComesDue(r, new)

OneRow == \E r \in Ride, new \in Row :
            RowStep(r, new) /\ ride' = [ride EXCEPT ![r] = new]

LEMMA RowStepYieldsRow ==
  ASSUME TypeOK, NEW r \in Ride, NEW new, RowStep(r, new)
  PROVE  new \in Row
<1>1. ride[r] \in Row
  BY DEF TypeOK
<1>2. Committed \subseteq Status /\ {"none", "completed", "cancelled"} \subseteq Status
  BY DEF Status, Active, Terminal
<1>3. CASE Books(r, new)
  BY <1>3, NewRowIsRow DEF Books
<1>4. CASE IsOffered(r, new)
  BY <1>1, <1>4 DEF IsOffered, Row
<1>5. CASE LosesOffer(r, new)
  BY <1>1, <1>5, ReleasedIsRow DEF LosesOffer
<1>6. CASE IsAccepted(r, new)
  <2>1. Moved(ride[r], "arriving") \in Row
    BY <1>1, <1>2, MovedIsRow DEF Committed
  <2> QED
    BY <1>6, <2>1 DEF IsAccepted, Row
<1>7. CASE Proceeds(r, new)
  <2>1. \A to \in {"arrived", "in_progress", "completed"} : Moved(ride[r], to) \in Row
    BY <1>1, <1>2, MovedIsRow DEF Committed
  <2> QED
    BY <1>7, <2>1 DEF Proceeds
<1>8. CASE IsCancelledByRider(r, new)
  <2>1. Cancelled(ride[r], "customer", "customer") \in Row
    BY <1>1, CancelledIsRow
  <2>2. \A q \in Request : req[q].late \in BOOLEAN
    BY DEF TypeOK, InFlight
  <2> QED
    BY <1>8, <2>1, <2>2 DEF IsCancelledByRider, Row
<1>9. CASE IsCancelled(r, new)
  BY <1>1, <1>9, CancelledIsRow DEF IsCancelled
<1>10. CASE IsGivenUp(r, new)
  <2>1. Moved(ride[r], "cancelled") \in Row
    BY <1>1, <1>2, MovedIsRow
  <2> QED
    BY <1>10, <2>1 DEF IsGivenUp, Row
<1>11. CASE ComesDue(r, new)
  BY <1>1, <1>11 DEF ComesDue, Row
<1> QED
  BY <1>3, <1>4, <1>5, <1>6, <1>7, <1>8, <1>9, <1>10, <1>11 DEF RowStep

(* What the lists of a pass hold. *)
LEMMA PassFacts ==
  ASSUME TypeOK, NEW m \in Matcher
  PROVE  /\ \A p \in loop[m].stale : p[1] \in Ride /\ p[2] \in Driver
         /\ \A u \in loop[m].unassigned : u \in Unassigned /\ u.ride \in Ride
         /\ \A p \in loop[m].aged : p[1] \in Ride /\ p[2] \in Committed
<1>1. loop[m] \in Pass
  BY DEF TypeOK
<1> QED
  BY <1>1 DEF Pass, Unassigned

(* Every step leaves the table alone or rewrites one row in one of these ways. *)
LEMMA EveryStepIsARowStep ==
  ASSUME TypeOK, Next
  PROVE  UNCHANGED ride \/ OneRow
<1> SUFFICES ASSUME ride' # ride
             PROVE  \E r \in Ride : \E new : RowStep(r, new) /\ ride' = [ride EXCEPT ![r] = new]
  BY RowStepYieldsRow DEF OneRow
<1> USE DEF Put, RowStep
<1>1. ASSUME NEW q \in Request, CustomerBegins(q) \/ Afterwards(q)
      PROVE  FALSE
  BY <1>1 DEF CustomerBegins, CreateRead, CustomerCancelRead, Reads, Afterwards
<1>2. ASSUME NEW q \in Request, CreateInsert(q)
      PROVE  \E r \in Ride : \E new : RowStep(r, new) /\ ride' = [ride EXCEPT ![r] = new]
  BY <1>2 DEF CreateInsert, Writes, Refused, Books, TypeOK, InFlight
<1>3. ASSUME NEW q \in Request, CustomerCancelCommit(q)
      PROVE  \E r \in Ride : \E new : RowStep(r, new) /\ ride' = [ride EXCEPT ![r] = new]
  BY <1>3 DEF CustomerCancelCommit, Writes, Refused, IsCancelledByRider, TypeOK, InFlight
<1>4. ASSUME NEW q \in Request, ReleaseOffer(q)
      PROVE  \E r \in Ride : \E new : RowStep(r, new) /\ ride' = [ride EXCEPT ![r] = new]
  BY <1>4 DEF ReleaseOffer, LosesOffer, TypeOK, InFlight
<1>5. ASSUME NEW q \in Request, LocationArrive(q)
      PROVE  \E r \in Ride : \E new : RowStep(r, new) /\ ride' = [ride EXCEPT ![r] = new]
  BY <1>5 DEF LocationArrive, Writes, Refused, Proceeds, TypeOK, InFlight
<1>6. ASSUME NEW q \in Request, DriverBegins(q)
      PROVE  \E r \in Ride : \E new : RowStep(r, new) /\ ride' = [ride EXCEPT ![r] = new]
  <2>1. PICK d \in Driver, r \in Ride :
          \/ IncomingRead(q, d, r) \/ RejectRead(q, d, r) \/ LocationRead(q, d, r)
          \/ Accept(q, d, r) \/ DriverCancel(q, d, r)
          \/ VerifyOtp(q, d, r) \/ EndRide(q, d, r)
    BY <1>6 DEF DriverBegins
  <2>2. CASE IncomingRead(q, d, r) \/ RejectRead(q, d, r) \/ LocationRead(q, d, r)
    BY <2>2 DEF IncomingRead, RejectRead, LocationRead, Reads
  <2>3. CASE Accept(q, d, r)
    BY <2>3 DEF Accept, DriverMoves, Writes, IsAccepted, Offered
  <2>4. CASE DriverCancel(q, d, r)
    BY <2>4 DEF DriverCancel, DriverMoves, Writes, IsCancelled
  <2>5. CASE VerifyOtp(q, d, r) \/ EndRide(q, d, r)
    BY <2>5 DEF VerifyOtp, EndRide, DriverMoves, Writes, Proceeds
  <2> QED
    BY <2>1, <2>2, <2>3, <2>4, <2>5
<1>7. ASSUME NEW m \in Matcher, Tick(m)
      PROVE  \E r \in Ride : \E new : RowStep(r, new) /\ ride' = [ride EXCEPT ![r] = new]
  <2>1. CASE \/ TickStart(m) \/ ListUnassigned(m) \/ ListBusy(m) \/ CountOffer(m)
             \/ OfferConflict(m) \/ NoOffer(m) \/ ListAged(m) \/ LogCancellation(m)
             \/ TickEnd(m)
    BY <2>1 DEF TickStart, ListUnassigned, ListBusy, CountOffer, OfferConflict,
                NoOffer, ListAged, LogCancellation, TickEnd
  <2>2. CASE ExpireOffer(m)
    <3>1. PICK p \in loop[m].stale : ride' = [ride EXCEPT ![p[1]] = Released(ride[p[1]], p[2])]
      BY <2>2 DEF ExpireOffer
    <3>2. p[1] \in Ride /\ p[2] \in Driver
      BY PassFacts
    <3>3. LosesOffer(p[1], Released(ride[p[1]], p[2]))
      BY <3>2 DEF LosesOffer
    <3> QED
      BY <3>1, <3>2, <3>3
  <2>3. CASE Offer(m)
    <3>1. PICK u \in loop[m].unassigned, d \in Driver :
            /\ Offered(NoOne, u.ride) /\ DriverIndexAllows(u.ride, d)
            /\ ride' = [ride EXCEPT ![u.ride] = [ride[u.ride] EXCEPT !.driver = d]]
            /\ Step(m, [loop[m] EXCEPT !.unassigned = Without(@, u.ride),
                                       !.busy = @ \cup {d}, !.uncounted = d])
      BY <2>3 DEF Offer, Candidates
    <3>2. loop'[m].unassigned = Without(loop[m].unassigned, u.ride)
      BY <3>1 DEF Step, TypeOK, Pass
    <3>3. u.ride \in Ride
      BY PassFacts
    <3>4. IsOffered(u.ride, [ride[u.ride] EXCEPT !.driver = d])
      BY <3>1, <3>2 DEF IsOffered
    <3> QED
      BY <3>1, <3>3, <3>4
  <2>4. CASE CancelUndispatchable(m)
    <3>1. PICK u \in loop[m].unassigned :
            ride' = [ride EXCEPT ![u.ride] = [Moved(ride[u.ride], "cancelled") EXCEPT
                                                !.reason = "no_drivers_available"]]
      BY <2>4 DEF CancelUndispatchable
    <3>2. u.ride \in Ride
      BY PassFacts
    <3>3. IsGivenUp(u.ride, [Moved(ride[u.ride], "cancelled") EXCEPT
                               !.reason = "no_drivers_available"])
      BY <1>7 DEF IsGivenUp
    <3> QED
      BY <3>1, <3>2, <3>3
  <2>5. CASE CancelStale(m)
    <3>1. PICK p \in loop[m].aged :
            /\ ride[p[1]].status = p[2]
            /\ ride' = [ride EXCEPT ![p[1]] = Cancelled(ride[p[1]], "admin", "stale")]
      BY <2>5 DEF CancelStale
    <3>2. p[1] \in Ride /\ p[2] \in Committed
      BY PassFacts
    <3>3. IsCancelled(p[1], Cancelled(ride[p[1]], "admin", "stale"))
      BY <3>1, <3>2 DEF IsCancelled
    <3> QED
      BY <3>1, <3>2, <3>3
  <2> QED
    BY <1>7, <2>1, <2>2, <2>3, <2>4, <2>5 DEF Tick
<1>8. ASSUME NEW r \in Ride, TimePasses(r)
      PROVE  \E s \in Ride : \E new : RowStep(s, new) /\ ride' = [ride EXCEPT ![s] = new]
  BY <1>8 DEF TimePasses, ComesDue
<1>9. CASE Crash \/ (\E q \in Request : RequestFails(q)) \/ (\E m \in Matcher : TickFails(m))
  BY <1>9 DEF Crash, RequestFails, TickFails
<1> QED
  BY <1>1, <1>2, <1>3, <1>4, <1>5, <1>6, <1>7, <1>8, <1>9 DEF Next, Finishes

-----------------------------------------------------------------------------
(* Type correctness *)

LEMMA InitTypeOK == Init => TypeOK
<1> SUFFICES ASSUME Init PROVE TypeOK
  OBVIOUS
<1>1. ride \in [Ride -> Row]
  BY NoRowIsRow DEF Init
<1>2. req \in [Request -> InFlight]
  BY DEF Init, Idle, InFlight, Status
<1>3. loop \in [Matcher -> Pass]
  BY DEF Init, Resting, Pass
<1>4. faults \in 0 .. MaxFaults
  BY DEF Init
<1> QED
  BY <1>1, <1>2, <1>3, <1>4 DEF Init, TypeOK

LEMMA RideTyped ==
  ASSUME TypeOK, [Next]_vars
  PROVE  ride' \in [Ride -> Row]
BY EveryStepIsARowStep DEF TypeOK, OneRow, vars

(* The other tables and the local states, request by request ... *)
LEMMA RequestTyped ==
  ASSUME TypeOK, NEW q \in Request, CustomerBegins(q) \/ DriverBegins(q) \/ Finishes(q)
  PROVE  /\ req' \in [Request -> InFlight]
         /\ history' \in [Ride -> [Status -> Nat]]
         /\ stats' \in [Driver -> [offered : Nat, accepted : Nat]]
         /\ UNCHANGED <<loop, faults>>
<1> DEFINE Good == /\ req' \in [Request -> InFlight]
                   /\ history' \in [Ride -> [Status -> Nat]]
                   /\ stats' \in [Driver -> [offered : Nat, accepted : Nat]]
                   /\ UNCHANGED <<loop, faults>>
<1>1. /\ req \in [Request -> InFlight] /\ req[q] \in InFlight
      /\ history \in [Ride -> [Status -> Nat]]
      /\ stats \in [Driver -> [offered : Nat, accepted : Nat]]
      /\ ride \in [Ride -> Row]
  BY DEF TypeOK
<1>2. \A task \in InFlight : UNCHANGED <<history, stats, loop, faults>> /\ Slot(q, task) => Good
  BY <1>1 DEF Slot
<1>3. Idle \in InFlight
  BY DEF Idle, InFlight, Status
<1>4. ASSUME NEW op \in {"create", "release", "arrive"}, NEW who, NEW on, Reads(q, op, who, on),
             op = "create" => who \in Rider /\ on = NoOne,
             op # "create" => who \in Driver /\ on \in Ride
      PROVE  Good
  <2>1. [Idle EXCEPT !.op = op, !.who = who, !.on = on] \in InFlight
    BY <1>4 DEF Idle, InFlight, Status
  <2> QED
    BY <1>2, <1>4, <2>1 DEF Reads
<1>5. ASSUME NEW who \in Rider \cup Driver, NEW on \in Ride, NEW row \in Row, Writes(q, who, on, row),
             row.status = "arriving" => who \in Driver
      PROVE  Good
  <2>1. [Idle EXCEPT !.op = "after", !.who = who, !.on = on, !.to = row.status] \in InFlight
    BY <1>5 DEF Idle, InFlight, Row
  <2> QED
    BY <1>2, <1>5, <2>1 DEF Writes
<1>6. ASSUME Refused(q)
      PROVE  Good
  BY <1>2, <1>3, <1>6 DEF Refused
<1>7. ASSUME NEW d \in Driver, NEW r \in Ride, NEW from, NEW row \in Row,
             DriverMoves(q, d, r, from, row)
      PROVE  Good
  BY <1>5, <1>7 DEF DriverMoves
<1>8. \A r \in Ride : ride[r] \in Row
  BY <1>1
<1>9. CASE CustomerBegins(q)
  <2>1. CASE \E c \in Rider : CreateRead(q, c)
    BY <1>4, <2>1 DEF CreateRead
  <2>2. ASSUME NEW c \in Rider, NEW r \in Ride, CustomerCancelRead(q, c, r)
        PROVE  Good
    <3>1. [Idle EXCEPT !.op = "cancel", !.who = c, !.on = r,
                       !.late = ride[r].status # "requested"] \in InFlight
      BY DEF Idle, InFlight, Status
    <3> QED
      BY <1>2, <2>2, <3>1 DEF CustomerCancelRead
  <2> QED
    BY <1>9, <2>1, <2>2 DEF CustomerBegins
<1>10. CASE DriverBegins(q)
  <2>1. PICK d \in Driver, r \in Ride :
          \/ IncomingRead(q, d, r) \/ RejectRead(q, d, r) \/ LocationRead(q, d, r)
          \/ Accept(q, d, r) \/ DriverCancel(q, d, r)
          \/ VerifyOtp(q, d, r) \/ EndRide(q, d, r)
    BY <1>10 DEF DriverBegins
  <2>2. CASE IncomingRead(q, d, r) \/ RejectRead(q, d, r) \/ LocationRead(q, d, r)
    BY <1>4, <2>2 DEF IncomingRead, RejectRead, LocationRead
  <2>3. \A to \in {"arriving", "in_progress", "completed"} : Moved(ride[r], to) \in Row
    BY <1>8, MovedIsRow DEF Status, Active, Committed, Terminal
  <2>4. CASE Accept(q, d, r)
    <3>1. [Moved(ride[r], "arriving") EXCEPT !.accepted = TRUE] \in Row
      BY <2>3 DEF Row
    <3> QED
      BY <1>7, <2>4, <3>1 DEF Accept
  <2>5. CASE DriverCancel(q, d, r)
    BY <1>7, <1>8, <2>5, CancelledIsRow DEF DriverCancel
  <2>6. CASE VerifyOtp(q, d, r) \/ EndRide(q, d, r)
    BY <1>7, <2>3, <2>6 DEF VerifyOtp, EndRide
  <2> QED
    BY <2>1, <2>2, <2>4, <2>5, <2>6
<1>11. CASE CreateInsert(q)
  <2>1. req[q].who \in Rider
    BY <1>1, <1>11 DEF CreateInsert, InFlight
  <2>2. NewRow(req[q].who) \in Row /\ NewRow(req[q].who).status # "arriving"
    BY <2>1, NewRowIsRow DEF NewRow, NoRow
  <2> QED
    BY <1>5, <1>6, <1>11, <2>1, <2>2 DEF CreateInsert
<1>12. CASE CustomerCancelCommit(q)
  <2> DEFINE row == [Cancelled(ride[req[q].on], "customer", "customer") EXCEPT !.fee = req[q].late]
  <2>1. /\ req[q].on \in Ride /\ req[q].late \in BOOLEAN
        /\ req[q].who \in Rider \cup Driver \cup {NoOne}
    BY <1>1, <1>12 DEF CustomerCancelCommit, InFlight
  <2>2. row \in Row /\ row.status = "cancelled"
    <3>1. ride[req[q].on] \in Row
      BY <1>8, <2>1
    <3>2. Cancelled(ride[req[q].on], "customer", "customer") \in Row
      BY <3>1, CancelledIsRow
    <3>3. Cancelled(ride[req[q].on], "customer", "customer").status = "cancelled"
      BY <3>1 DEF Cancelled, Moved, Row
    <3> QED
      BY <2>1, <3>2, <3>3 DEF Row
  <2> HIDE DEF row
  <2>3. CASE Writes(q, req[q].who, req[q].on, row)
    <3>1. [Idle EXCEPT !.op = "after", !.who = req[q].who, !.on = req[q].on,
                       !.to = row.status] \in InFlight
      BY <2>1, <2>2 DEF Idle, InFlight, Status, Terminal
    <3> QED
      BY <1>2, <2>3, <3>1 DEF Writes
  <2> QED
    BY <1>6, <1>12, <2>3 DEF CustomerCancelCommit, row
<1>13. CASE ReleaseOffer(q)
  BY <1>2, <1>3, <1>13 DEF ReleaseOffer
<1>14. CASE LocationArrive(q)
  <2>1. req[q].on \in Ride /\ req[q].who \in Driver
    BY <1>1, <1>14 DEF LocationArrive, InFlight
  <2>2. Moved(ride[req[q].on], "arrived") \in Row
    BY <1>8, <2>1, MovedIsRow DEF Status, Active, Committed
  <2> QED
    BY <1>5, <1>6, <1>14, <2>1, <2>2 DEF LocationArrive
<1>15. CASE Afterwards(q)
  <2>1. /\ req[q].on \in Ride /\ req[q].to \in Status
        /\ req[q].to = "arriving" => req[q].who \in Driver
    BY <1>1, <1>15 DEF Afterwards, InFlight
  <2>2. history' \in [Ride -> [Status -> Nat]]
    BY <1>1, <1>15, <2>1 DEF Afterwards
  <2>3. stats' \in [Driver -> [offered : Nat, accepted : Nat]]
    BY <1>1, <1>15, <2>1 DEF Afterwards
  <2> QED
    BY <1>1, <1>3, <1>15, <2>2, <2>3 DEF Afterwards, Slot
<1> QED
  BY <1>9, <1>10, <1>11, <1>12, <1>13, <1>14, <1>15 DEF Finishes

(* ... and loop by loop. *)
LEMMA TickTyped ==
  ASSUME TypeOK, NEW m \in Matcher, Tick(m)
  PROVE  /\ loop' \in [Matcher -> Pass]
         /\ history' \in [Ride -> [Status -> Nat]]
         /\ stats' \in [Driver -> [offered : Nat, accepted : Nat]]
         /\ UNCHANGED <<req, faults>>
<1>1. /\ loop \in [Matcher -> Pass] /\ loop[m] \in Pass
      /\ history \in [Ride -> [Status -> Nat]]
      /\ stats \in [Driver -> [offered : Nat, accepted : Nat]]
      /\ ride \in [Ride -> Row]
  BY DEF TypeOK
<1>2. ASSUME NEW pass \in Pass, Step(m, pass)
      PROVE  /\ loop' \in [Matcher -> Pass]
             /\ UNCHANGED <<history, stats, req, faults>>
  BY <1>1, <1>2 DEF Step
<1>3. Resting \in Pass
  BY DEF Resting, Pass
<1>4. CASE TickStart(m)
  BY <1>2, <1>1, <1>4 DEF TickStart, Resting, Pass
<1>5. CASE ExpireOffer(m)
  BY <1>2, <1>1, <1>5 DEF ExpireOffer, Pass
<1>6. CASE ListUnassigned(m)
  <2> DEFINE Found == {[ride |-> r, excluded |-> ride[r].excluded,
                        full |-> ride[r].attempts >= MaxAttempts] :
                       r \in {s \in Ride : Offered(NoOne, s)}}
  <2>1. \A r \in Ride : [ride |-> r, excluded |-> ride[r].excluded,
                        full |-> ride[r].attempts >= MaxAttempts] \in Unassigned
    BY <1>1 DEF Unassigned, Row
  <2>2. Found \in SUBSET Unassigned
    BY <2>1
  <2>3. Step(m, [loop[m] EXCEPT !.pc = "listed", !.unassigned = Found])
    BY <1>6 DEF ListUnassigned
  <2> HIDE DEF Found
  <2>4. [loop[m] EXCEPT !.pc = "listed", !.unassigned = Found] \in Pass
    BY <1>1, <2>2 DEF Pass
  <2> QED
    BY <1>1, <1>2, <1>6, <2>3, <2>4 DEF ListUnassigned, Step
<1>7. CASE ListBusy(m)
  BY <1>2, <1>1, <1>7 DEF ListBusy, Pass
<1>8. CASE Offer(m)
  <2>1. PICK u \in loop[m].unassigned, d \in Driver :
          Step(m, [loop[m] EXCEPT !.unassigned = Without(@, u.ride),
                                  !.busy = @ \cup {d}, !.uncounted = d])
    BY <1>8 DEF Offer, Candidates
  <2>2. Without(loop[m].unassigned, u.ride) \subseteq loop[m].unassigned
    BY DEF Without
  <2>3. [loop[m] EXCEPT !.unassigned = Without(@, u.ride),
                        !.busy = @ \cup {d}, !.uncounted = d] \in Pass
    BY <1>1, <2>2 DEF Pass
  <2> QED
    BY <1>1, <1>2, <1>8, <2>1, <2>3 DEF Offer, Step
<1>9. CASE CountOffer(m)
  <2>1. loop[m].uncounted \in Driver
    BY <1>1, <1>9 DEF CountOffer, Pass
  <2>2. stats' \in [Driver -> [offered : Nat, accepted : Nat]]
    BY <1>1, <1>9, <2>1 DEF CountOffer
  <2>3. [loop[m] EXCEPT !.uncounted = NoOne] \in Pass
    BY <1>1 DEF Pass
  <2>4. loop' \in [Matcher -> Pass]
    BY <1>1, <1>9, <2>3 DEF CountOffer
  <2> QED
    BY <1>1, <1>9, <2>2, <2>4 DEF CountOffer
<1>10. CASE OfferConflict(m) \/ TickEnd(m)
  BY <1>2, <1>3, <1>1, <1>10 DEF OfferConflict, TickEnd
<1>11. CASE NoOffer(m)
  BY <1>2, <1>1, <1>11 DEF NoOffer, Without, Pass
<1>12. CASE CancelUndispatchable(m)
  BY <1>2, <1>1, <1>12 DEF CancelUndispatchable, Without, Pass, Unassigned
<1>13. CASE ListAged(m)
  BY <1>2, <1>1, <1>13 DEF ListAged, Pass
<1>14. CASE CancelStale(m)
  BY <1>2, <1>1, <1>14 DEF CancelStale, Pass
<1>15. CASE LogCancellation(m)
  <2>1. loop[m].unlogged \in Ride /\ "cancelled" \in Status
    BY <1>1, <1>15 DEF LogCancellation, Pass, Status, Terminal
  <2>2. history' \in [Ride -> [Status -> Nat]]
    BY <1>1, <1>15, <2>1 DEF LogCancellation
  <2>3. [loop[m] EXCEPT !.unlogged = NoOne] \in Pass
    BY <1>1 DEF Pass
  <2>4. loop' \in [Matcher -> Pass]
    BY <1>1, <1>15, <2>3 DEF LogCancellation
  <2> QED
    BY <1>1, <1>15, <2>2, <2>4 DEF LogCancellation
<1> QED
  BY <1>4, <1>5, <1>6, <1>7, <1>8, <1>9, <1>10, <1>11, <1>12, <1>13, <1>14, <1>15 DEF Tick
LEMMA NextTypeOK ==
  ASSUME TypeOK, [Next]_vars
  PROVE  TypeOK'
<1>1. ride' \in [Ride -> Row]
  BY RideTyped
<1>2. CASE \E q \in Request : CustomerBegins(q) \/ DriverBegins(q) \/ Finishes(q)
  BY <1>1, <1>2, RequestTyped DEF TypeOK
<1>3. CASE \E m \in Matcher : Tick(m)
  BY <1>1, <1>3, TickTyped DEF TypeOK
<1>4. CASE \E r \in Ride : TimePasses(r)
  BY <1>1, <1>4 DEF TimePasses, TypeOK
<1>5. CASE Crash \/ (\E q \in Request : RequestFails(q)) \/ (\E m \in Matcher : TickFails(m))
  <2>1. Idle \in InFlight /\ Resting \in Pass
    BY DEF Idle, InFlight, Status, Resting, Pass
  <2>2. faults' \in 0 .. MaxFaults
    BY <1>5 DEF Crash, RequestFails, TickFails, Faulty, TypeOK
  <2>3. req' \in [Request -> InFlight] /\ loop' \in [Matcher -> Pass]
    <3>1. CASE Crash
      BY <2>1, <3>1 DEF Crash
    <3>2. CASE \E q \in Request : RequestFails(q)
      BY <2>1, <3>2 DEF RequestFails, Slot, TypeOK
    <3>3. CASE \E m \in Matcher : TickFails(m)
      BY <2>1, <3>3 DEF TickFails, TypeOK
    <3> QED
      BY <1>5, <3>1, <3>2, <3>3
  <2> QED
    BY <1>1, <1>5, <2>2, <2>3 DEF Crash, RequestFails, TickFails, TypeOK
<1>6. CASE UNCHANGED vars
  BY <1>6 DEF vars, TypeOK
<1> QED
  BY <1>2, <1>3, <1>4, <1>5, <1>6 DEF Next

(* Every table and every local state keeps its type, whatever interleaves. *)
THEOREM TypeCorrect == Spec => []TypeOK
BY InitTypeOK, NextTypeOK, PTL DEF Spec
-----------------------------------------------------------------------------
(* What a row step keeps *)

LEMMA MovedKeeps ==
  ASSUME NEW row \in Row, NEW to
  PROVE  /\ Moved(row, to).status = to
         /\ Moved(row, to).rider = row.rider
         /\ Moved(row, to).driver = row.driver
         /\ Moved(row, to).accepted = row.accepted
         /\ Moved(row, to).fee = row.fee
         /\ Moved(row, to).by = row.by
BY DEF Moved, Row

LEMMA CancelledKeeps ==
  ASSUME NEW row \in Row, NEW who, NEW why
  PROVE  /\ Cancelled(row, who, why).status = "cancelled"
         /\ Cancelled(row, who, why).rider = row.rider
         /\ Cancelled(row, who, why).driver = row.driver
         /\ Cancelled(row, who, why).accepted = row.accepted
         /\ Cancelled(row, who, why).fee = row.fee
         /\ Cancelled(row, who, why).by = who
BY DEF Cancelled, Moved, Row

LEMMA ReleasedKeeps ==
  ASSUME NEW row \in Row, NEW d
  PROVE  /\ Released(row, d).status = row.status
         /\ Released(row, d).rider = row.rider
         /\ Released(row, d).driver = NoOne
         /\ Released(row, d).accepted = row.accepted
         /\ Released(row, d).fee = row.fee
         /\ Released(row, d).by = row.by
BY DEF Released, Row

(* The fields the invariants speak of, for each kind of row step. *)
Keeps(r, new) == new.rider = ride[r].rider /\ new.accepted = ride[r].accepted

LEMMA BooksEffect ==
  ASSUME TypeOK, NEW r \in Ride, NEW new, Books(r, new)
  PROVE  /\ ride[r].status = "none" /\ new.status = "requested"
         /\ new.driver = NoOne /\ new.by = "none" /\ ~new.accepted /\ ~new.fee
         /\ \E c \in Rider : new.rider = c /\ RiderIndexAllows(r, c)
BY DEF Books, NewRow, NoRow, TypeOK

LEMMA IsOfferedEffect ==
  ASSUME TypeOK, NEW r \in Ride, NEW new, IsOffered(r, new)
  PROVE  /\ ride[r].status = "requested" /\ new.status = "requested"
         /\ Keeps(r, new) /\ new.fee = ride[r].fee /\ new.by = ride[r].by
         /\ \E d \in Driver : new.driver = d /\ DriverIndexAllows(r, d)
BY DEF IsOffered, Offered, Keeps, TypeOK, Row

LEMMA LosesOfferEffect ==
  ASSUME TypeOK, NEW r \in Ride, NEW new, LosesOffer(r, new)
  PROVE  /\ new.status = ride[r].status /\ new.driver = NoOne
         /\ Keeps(r, new) /\ new.fee = ride[r].fee /\ new.by = ride[r].by
BY ReleasedKeeps DEF LosesOffer, Keeps, TypeOK

LEMMA IsAcceptedEffect ==
  ASSUME TypeOK, NEW r \in Ride, NEW new, IsAccepted(r, new)
  PROVE  /\ ride[r].status = "requested" /\ new.status = "arriving"
         /\ ride[r].driver \in Driver /\ new.driver = ride[r].driver
         /\ new.rider = ride[r].rider /\ new.by = ride[r].by
         /\ new.accepted /\ new.fee = ride[r].fee
BY DEF IsAccepted, Offered, Moved, TypeOK, Row

LEMMA ProceedsEffect ==
  ASSUME TypeOK, NEW r \in Ride, NEW new, Proceeds(r, new)
  PROVE  /\ \/ ride[r].status = "arriving" /\ new.status = "arrived"
            \/ ride[r].status \in {"arriving", "arrived"} /\ new.status = "in_progress"
            \/ ride[r].status = "in_progress" /\ new.status = "completed"
         /\ Keeps(r, new) /\ new.fee = ride[r].fee
         /\ new.by = ride[r].by /\ new.driver = ride[r].driver
BY MovedKeeps DEF Proceeds, Keeps, TypeOK

LEMMA IsCancelledByRiderEffect ==
  ASSUME TypeOK, NEW r \in Ride, NEW new, IsCancelledByRider(r, new)
  PROVE  /\ ride[r].status \in Cancellable /\ new.status = "cancelled"
         /\ Keeps(r, new) /\ new.by = "customer" /\ new.driver = ride[r].driver
         /\ \E q \in Request : req[q].op = "cancel" /\ req[q].on = r /\ new.fee = req[q].late
BY DEF IsCancelledByRider, Cancelled, Moved, Keeps, TypeOK, Row

LEMMA IsCancelledEffect ==
  ASSUME TypeOK, NEW r \in Ride, NEW new, IsCancelled(r, new)
  PROVE  /\ \/ ride[r].status \in {"arriving", "arrived"} /\ new.by = "driver"
            \/ ride[r].status \in Committed /\ new.by = "admin"
         /\ new.status = "cancelled" /\ new.fee = ride[r].fee
         /\ Keeps(r, new) /\ new.driver = ride[r].driver
BY CancelledKeeps DEF IsCancelled, Keeps, TypeOK

LEMMA IsGivenUpEffect ==
  ASSUME TypeOK, NEW r \in Ride, NEW new, IsGivenUp(r, new)
  PROVE  /\ \E m \in Matcher : \E u \in loop[m].unassigned : u.ride = r
         /\ new.status = "cancelled" /\ new.fee = ride[r].fee
         /\ Keeps(r, new) /\ new.by = ride[r].by /\ new.driver = ride[r].driver
BY DEF IsGivenUp, Moved, Keeps, TypeOK, Row

LEMMA ComesDueEffect ==
  ASSUME TypeOK, NEW r \in Ride, NEW new, ComesDue(r, new)
  PROVE  /\ new.status = ride[r].status /\ new.fee = ride[r].fee
         /\ Keeps(r, new) /\ new.by = ride[r].by /\ new.driver = ride[r].driver
BY DEF ComesDue, Keeps, TypeOK, Row

(* No write forgets what a ride has been through. *)
Remembers(r, new) ==
  /\ ride[r].status # "none" => ride[r].been \subseteq new.been
  /\ new.status = ride[r].status \/ new.status \in new.been

LEMMA MovedRemembers ==
  ASSUME NEW row \in Row, NEW to
  PROVE  row.been \subseteq Moved(row, to).been /\ to \in Moved(row, to).been
BY DEF Moved, Row

LEMMA RowStepRemembers ==
  ASSUME TypeOK, NEW r \in Ride, NEW new, RowStep(r, new)
  PROVE  Remembers(r, new)
<1>1. ride[r] \in Row
  BY DEF TypeOK
<1>2. CASE Books(r, new)
  BY <1>2 DEF Books, NewRow, NoRow, Remembers
<1>3. CASE IsOffered(r, new) \/ LosesOffer(r, new) \/ ComesDue(r, new)
  BY <1>1, <1>3 DEF IsOffered, LosesOffer, ComesDue, Released, Row, Remembers
<1>4. ASSUME NEW to, NEW moved, moved.been = Moved(ride[r], to).been, moved.status = to,
             new = moved
      PROVE  Remembers(r, new)
  BY <1>1, <1>4, MovedRemembers DEF Remembers
<1>5. CASE IsAccepted(r, new)
  <2>1. /\ new.been = Moved(ride[r], "arriving").been
        /\ new.status = "arriving"
    BY <1>1, <1>5 DEF IsAccepted, Moved, Row
  <2> QED
    BY <1>4, <2>1
<1>6. CASE Proceeds(r, new)
  BY <1>1, <1>4, <1>6, MovedKeeps DEF Proceeds
<1>7. CASE IsCancelledByRider(r, new) \/ IsCancelled(r, new) \/ IsGivenUp(r, new)
  <2>1. /\ new.been = Moved(ride[r], "cancelled").been
        /\ new.status = "cancelled"
    BY <1>1, <1>7 DEF IsCancelledByRider, IsCancelled, IsGivenUp, Cancelled, Moved, Row
  <2> QED
    BY <1>4, <2>1
<1> QED
  BY <1>2, <1>3, <1>5, <1>6, <1>7 DEF RowStep

-----------------------------------------------------------------------------
(* One active ride per rider and per driver *)

(* Only an INSERT gives a row its rider and only an offer gives it a driver;  *)
(* neither gets past its unique index, and no other write revives a ride.     *)
LEMMA RowStepKeepsActors ==
  ASSUME TypeOK, NEW r \in Ride, NEW new, RowStep(r, new)
  PROVE  /\ \/ \E c \in Rider : new.rider = c /\ RiderIndexAllows(r, c)
            \/ /\ new.rider = ride[r].rider
               /\ new.status \in Active => ride[r].status \in Active
         /\ \/ \E d \in Driver : new.driver = d /\ DriverIndexAllows(r, d)
            \/ new.driver = NoOne
            \/ /\ new.driver = ride[r].driver
               /\ new.status \in Active => ride[r].status \in Active
BY BooksEffect, IsOfferedEffect, LosesOfferEffect, IsAcceptedEffect, ProceedsEffect,
     IsCancelledByRiderEffect, IsCancelledEffect, IsGivenUpEffect, ComesDueEffect
   DEF RowStep, Keeps, Active, Committed

LEMMA RiderStep ==
  ASSUME TypeOK, OneActiveRidePerRider, [Next]_vars
  PROVE  OneActiveRidePerRider'
<1>1. CASE UNCHANGED ride
  BY <1>1 DEF OneActiveRidePerRider
<1>2. CASE OneRow
  <2>1. PICK r \in Ride, new \in Row : RowStep(r, new) /\ ride' = [ride EXCEPT ![r] = new]
    BY <1>2 DEF OneRow
  <2>2. ride'[r] = new /\ \A s \in Ride \ {r} : ride'[s] = ride[s]
    BY <2>1 DEF TypeOK
  <2>3. ASSUME NEW s \in Ride, s # r, ride'[s].status \in Active, new.status \in Active
        PROVE  ride'[s].rider # new.rider
    BY <2>1, <2>2, <2>3, RowStepKeepsActors DEF RiderIndexAllows, OneActiveRidePerRider
  <2> QED
    BY <2>2, <2>3 DEF OneActiveRidePerRider
<1> QED
  BY <1>1, <1>2, EveryStepIsARowStep DEF vars

LEMMA DriverStep ==
  ASSUME TypeOK, OneActiveRidePerDriver, [Next]_vars
  PROVE  OneActiveRidePerDriver'
<1>1. CASE UNCHANGED ride
  BY <1>1 DEF OneActiveRidePerDriver
<1>2. CASE OneRow
  <2>1. PICK r \in Ride, new \in Row : RowStep(r, new) /\ ride' = [ride EXCEPT ![r] = new]
    BY <1>2 DEF OneRow
  <2>2. ride'[r] = new /\ \A s \in Ride \ {r} : ride'[s] = ride[s]
    BY <2>1 DEF TypeOK
  <2>3. ASSUME NEW s \in Ride, s # r, ride'[s].status \in Active, new.status \in Active,
               new.driver # NoOne
        PROVE  ride'[s].driver # new.driver
    BY <2>1, <2>2, <2>3, RowStepKeepsActors DEF DriverIndexAllows, OneActiveRidePerDriver
  <2> QED
    BY <2>2, <2>3 DEF OneActiveRidePerDriver
<1> QED
  BY <1>1, <1>2, EveryStepIsARowStep DEF vars

(* The rider index holds whatever creates overlap ... *)
THEOREM RiderExclusion == Spec => []OneActiveRidePerRider
<1>1. Init => OneActiveRidePerRider
  BY DEF Init, OneActiveRidePerRider, NoRow, Active, Committed
<1> QED
  BY <1>1, RiderStep, TypeCorrect, PTL DEF Spec

(* ... and the driver index however many processes offer rides at once. *)
THEOREM DriverExclusion == Spec => []OneActiveRidePerDriver
<1>1. Init => OneActiveRidePerDriver
  BY DEF Init, OneActiveRidePerDriver, NoRow
<1> QED
  BY <1>1, DriverStep, TypeCorrect, PTL DEF Spec
-----------------------------------------------------------------------------
(* Acceptance: fees and drivers *)

(* A ride is accepted exactly from "arriving" on, and pays for nothing else.  *)
RowOK(row) ==
  /\ row.status = "none" => row.rider = NoOne /\ row.by = "none" /\ ~row.accepted
  /\ row.status # "matched"
  /\ row.status # "none" => row.status \in row.been
  /\ row.status \in Committed \cup {"completed"} => row.accepted
  /\ row.accepted => row.status \in Committed \cup Terminal
  /\ row.fee => row.accepted

(* What a cancellation in flight read as late has since only moved on.        *)
LateReads ==
  \A q \in Request :
    req[q].op = "cancel" /\ req[q].late =>
      ride[req[q].on].accepted \/ ride[req[q].on].status \in Terminal

Acceptance == (\A r \in Ride : RowOK(ride[r])) /\ LateReads

LEMMA RowOKStep ==
  ASSUME TypeOK, Acceptance, NEW r \in Ride, NEW new, RowStep(r, new)
  PROVE  /\ RowOK(new)
         /\ ride[r].accepted => new.accepted
         /\ ride[r].status \in Terminal => new.status \in Terminal
         /\ ride[r].accepted => new.driver \in {ride[r].driver, NoOne}
<1>1. RowOK(ride[r]) /\ Remembers(r, new)
  BY RowStepRemembers DEF Acceptance
<1> USE DEF Committed, Terminal, Cancellable, RowOK, Keeps, Remembers
<1>2. CASE Books(r, new)
  BY <1>1, <1>2, BooksEffect
<1>3. CASE IsOffered(r, new)
  BY <1>1, <1>3, IsOfferedEffect
<1>4. CASE LosesOffer(r, new) \/ ComesDue(r, new)
  BY <1>1, <1>4, LosesOfferEffect, ComesDueEffect
<1>5. CASE IsAccepted(r, new)
  BY <1>1, <1>5, IsAcceptedEffect
<1>6. CASE Proceeds(r, new)
  BY <1>1, <1>6, ProceedsEffect
<1>7. CASE IsCancelledByRider(r, new)
  <2>1. new.fee => ride[r].accepted
    BY <1>7, IsCancelledByRiderEffect DEF Acceptance, LateReads
  <2> QED
    BY <1>1, <1>7, <2>1, IsCancelledByRiderEffect
<1>8. CASE IsCancelled(r, new) \/ IsGivenUp(r, new)
  BY <1>1, <1>8, IsCancelledEffect, IsGivenUpEffect
<1> QED
  BY <1>2, <1>3, <1>4, <1>5, <1>6, <1>7, <1>8 DEF RowStep

(* Rows only move on: acceptance and the end of a ride are for good. *)
LEMMA RowsMoveOn ==
  ASSUME TypeOK, Acceptance, [Next]_vars
  PROVE  \A r \in Ride :
           /\ RowOK(ride'[r])
           /\ ride[r].accepted => ride'[r].accepted
           /\ ride[r].status \in Terminal => ride'[r].status \in Terminal
           /\ ride[r].accepted => ride'[r].driver \in {ride[r].driver, NoOne}
<1>1. CASE UNCHANGED ride
  BY <1>1 DEF Acceptance
<1>2. CASE OneRow
  <2>1. PICK r \in Ride, new \in Row : RowStep(r, new) /\ ride' = [ride EXCEPT ![r] = new]
    BY <1>2 DEF OneRow
  <2>2. ride'[r] = new /\ \A s \in Ride \ {r} : ride'[s] = ride[s]
    BY <2>1 DEF TypeOK
  <2> QED
    BY <2>1, <2>2, RowOKStep DEF Acceptance
<1> QED
  BY <1>1, <1>2, EveryStepIsARowStep DEF vars

(* A request slot either keeps its cancellation or has just read one. *)
LEMMA CancellationsRead ==
  ASSUME TypeOK, [Next]_vars, NEW q \in Request, req'[q].op = "cancel"
  PROVE  \/ req'[q] = req[q]
         \/ /\ req'[q].on \in Ride /\ UNCHANGED ride
            /\ ride[req'[q].on].rider \in Rider
            /\ req'[q].late = (ride[req'[q].on].status # "requested")
<1> SUFFICES ASSUME req'[q] # req[q]
             PROVE  /\ req'[q].on \in Ride /\ UNCHANGED ride
                    /\ ride[req'[q].on].rider \in Rider
                    /\ req'[q].late = (ride[req'[q].on].status # "requested")
  OBVIOUS
<1>1. req \in [Request -> InFlight]
  BY DEF TypeOK
<1>2. ASSUME NEW p \in Request, NEW task, Slot(p, task), task.op # "cancel"
      PROVE  FALSE
  BY <1>1, <1>2 DEF Slot
<1>3. ASSUME NEW p \in Request, NEW who, NEW on,
             \E op \in {"create", "release", "arrive"} : Reads(p, op, who, on)
      PROVE  FALSE
  BY <1>2, <1>3 DEF Reads, Idle
<1>4. ASSUME NEW p \in Request, NEW who, NEW on, NEW row, Writes(p, who, on, row)
      PROVE  FALSE
  BY <1>2, <1>4 DEF Writes, Idle
<1>5. ASSUME NEW p \in Request, Slot(p, Idle)
      PROVE  FALSE
  BY <1>2, <1>5 DEF Idle
<1>6. ASSUME NEW p \in Request, NEW c \in Rider, NEW r \in Ride, CustomerCancelRead(p, c, r)
      PROVE  /\ req'[q].on \in Ride /\ UNCHANGED ride
             /\ ride[req'[q].on].rider \in Rider
             /\ req'[q].late = (ride[req'[q].on].status # "requested")
  BY <1>1, <1>6 DEF CustomerCancelRead, Slot, Idle
<1>7. ASSUME NEW p \in Request, DriverBegins(p)
      PROVE  FALSE
  BY <1>3, <1>4, <1>7 DEF DriverBegins, IncomingRead, RejectRead, LocationRead, Accept,
     DriverCancel, VerifyOtp, EndRide, DriverMoves
<1>8. ASSUME NEW p \in Request, Finishes(p)
      PROVE  FALSE
  BY <1>4, <1>5, <1>8 DEF Finishes, CreateInsert, CustomerCancelCommit, ReleaseOffer,
     LocationArrive, Afterwards, Refused
<1>9. ASSUME NEW p \in Request, CustomerBegins(p)
      PROVE  \E c \in Rider, r \in Ride : CustomerCancelRead(p, c, r)
  BY <1>3, <1>9 DEF CustomerBegins, CreateRead
<1>10. ASSUME NEW m \in Matcher, Tick(m)
       PROVE  FALSE
  BY <1>10, TickTyped
<1>11. CASE \E r \in Ride : TimePasses(r)
  BY <1>11 DEF TimePasses
<1>12. CASE Crash \/ (\E p \in Request : RequestFails(p)) \/ (\E m \in Matcher : TickFails(m))
  <2>1. CASE Crash \/ (\E m \in Matcher : TickFails(m))
    BY <2>1 DEF Crash, TickFails, Idle
  <2>2. CASE \E p \in Request : RequestFails(p)
    BY <1>5, <2>2 DEF RequestFails
  <2> QED
    BY <1>12, <2>1, <2>2
<1>13. CASE UNCHANGED vars
  BY <1>13 DEF vars
<1> QED
  BY <1>6, <1>7, <1>8, <1>9, <1>10, <1>11, <1>12, <1>13 DEF Next

LEMMA AcceptanceStep ==
  ASSUME TypeOK, Acceptance, [Next]_vars
  PROVE  Acceptance'
<1>1. \A r \in Ride : RowOK(ride'[r])
  BY RowsMoveOn
<1>2. ASSUME NEW q \in Request, req'[q].op = "cancel", req'[q].late
      PROVE  ride'[req'[q].on].accepted \/ ride'[req'[q].on].status \in Terminal
  <2>1. CASE req'[q] = req[q]
    <3>1. req[q].on \in Ride
      BY <1>2, <2>1 DEF TypeOK, InFlight
    <3> QED
      BY <1>2, <2>1, <3>1, RowsMoveOn DEF Acceptance, LateReads
  <2>2. ASSUME req'[q].on \in Ride, UNCHANGED ride,
               ride[req'[q].on].rider \in Rider,
               ride[req'[q].on].status # "requested"
        PROVE  ride'[req'[q].on].accepted \/ ride'[req'[q].on].status \in Terminal
    <3> DEFINE row == ride[req'[q].on]
    <3>1. RowOK(row) /\ row \in Row
      BY <2>2 DEF Acceptance, TypeOK
    <3>2. row.status \in Committed \cup Terminal
      BY <2>2, <3>1 DEF RowOK, Row, Status, Active
    <3> QED
      BY <2>2, <3>1, <3>2 DEF RowOK, Terminal
  <2> QED
    BY <1>2, <2>1, <2>2, CancellationsRead
<1> QED
  BY <1>1, <1>2 DEF Acceptance, LateReads

LEMMA InitAcceptance == Init => Acceptance
BY DEF Init, Acceptance, LateReads, RowOK, NoRow, Idle, Committed, Terminal

LEMMA AcceptanceHolds == Spec => []Acceptance
BY InitAcceptance, AcceptanceStep, TypeCorrect, PTL DEF Spec

(* Nobody pays a late fee for a ride that no driver had accepted. *)
THEOREM FeesFollowAcceptance == Spec => []NoFeeBeforeAcceptance
<1>1. Acceptance => NoFeeBeforeAcceptance
  BY DEF Acceptance, RowOK, NoFeeBeforeAcceptance
<1> QED
  BY <1>1, AcceptanceHolds, PTL

(* An accepted ride keeps its driver or loses it, but never gets another. *)
THEOREM AcceptedRidesStay == Spec => NeverReassigned
<1>1. TypeOK /\ Acceptance /\ [Next]_vars =>
        [\A r \in Ride : ride[r].accepted =>
                            ride'[r].driver \in {ride[r].driver, NoOne}]_vars
  BY RowsMoveOn
<1> QED
  BY <1>1, TypeCorrect, AcceptanceHolds, PTL DEF Spec, NeverReassigned
-----------------------------------------------------------------------------
(* The refinement of RideLifecycle: when one process runs the matching loop.  *)
(* cancelUndispatchableRide cancels by id what the tick listed as unassigned, *)
(* so the argument is that such a ride is still unassigned, or cancelled by   *)
(* its rider, when the loop comes to it.                                      *)

SingleMatcher == \A m, n \in Matcher : m = n

StillUnassigned(r) == ride[r].status = "cancelled" \/ Offered(NoOne, r)

Listed == \A m \in Matcher : \A u \in loop[m].unassigned : StillUnassigned(u.ride)

(* Only an offer makes an unassigned ride anything but unassigned or cancelled. *)
LEMMA OnlyOffersAssign ==
  ASSUME TypeOK, NEW r \in Ride, NEW new, RowStep(r, new), StillUnassigned(r)
  PROVE  \/ IsOffered(r, new)
         \/ new.status = "cancelled"
         \/ new.status = "requested" /\ new.driver = NoOne
BY BooksEffect, LosesOfferEffect, IsAcceptedEffect, ProceedsEffect,
   IsCancelledByRiderEffect, IsCancelledEffect, IsGivenUpEffect, ComesDueEffect
   DEF RowStep, StillUnassigned, Offered, Committed

(* A list is read as unassigned rides, and then only gets shorter. *)
LEMMA ListsShrink ==
  ASSUME TypeOK, [Next]_vars, NEW m \in Matcher, NEW u \in loop'[m].unassigned
  PROVE  \/ u \in loop[m].unassigned
         \/ u.ride \in Ride /\ Offered(NoOne, u.ride) /\ UNCHANGED ride
<1>1. loop \in [Matcher -> Pass]
  BY DEF TypeOK
<1>2. ASSUME NEW n \in Matcher, NEW pass, Step(n, pass),
             pass.unassigned \subseteq loop[n].unassigned
      PROVE  u \in loop[m].unassigned
  BY <1>1, <1>2 DEF Step
<1>3. ASSUME NEW n \in Matcher, Tick(n)
      PROVE  \/ u \in loop[m].unassigned
             \/ u.ride \in Ride /\ Offered(NoOne, u.ride) /\ UNCHANGED ride
  <2>1. CASE TickStart(n) \/ OfferConflict(n) \/ TickEnd(n)
    <3>1. Resting.unassigned = {} /\ \A l : [Resting EXCEPT !.pc = "expiring", !.stale = l].unassigned = {}
      BY DEF Resting
    <3> QED
      BY <1>2, <2>1, <3>1 DEF TickStart, OfferConflict, TickEnd
  <2>2. CASE ExpireOffer(n)
    <3>1. PICK p :
            Step(n, [loop[n] EXCEPT !.stale = @ \ {p}])
      BY <2>2, Zenon DEF ExpireOffer
    <3> QED
      BY <1>1, <3>1 DEF Step, Pass
  <2>3. CASE ListBusy(n)
    <3>1. PICK b :
            Step(n, [loop[n] EXCEPT !.pc = "offering", !.busy = b])
      BY <2>3, Zenon DEF ListBusy
    <3> QED
      BY <1>1, <3>1 DEF Step, Pass
  <2>4. CASE ListAged(n)
    <3>1. PICK l :
            Step(n, [loop[n] EXCEPT !.pc = "sweeping", !.busy = {}, !.aged = l])
      BY <2>4, Zenon DEF ListAged
    <3> QED
      BY <1>1, <3>1 DEF Step, Pass
  <2>6. CASE CancelStale(n)
    <3>1. PICK p :
            \/ Step(n, [loop[n] EXCEPT !.aged = @ \ {p}])
            \/ Step(n, [[loop[n] EXCEPT !.aged = @ \ {p}] EXCEPT !.unlogged = p[1]])
      BY <2>6, Zenon DEF CancelStale
    <3>2. CASE Step(n, [loop[n] EXCEPT !.aged = @ \ {p}])
      BY <1>1, <3>2 DEF Step, Pass
    <3>3. CASE Step(n, [[loop[n] EXCEPT !.aged = @ \ {p}] EXCEPT !.unlogged = p[1]])
      <4> DEFINE rest == [loop[n] EXCEPT !.aged = @ \ {p}]
      <4>1. rest.unassigned = loop[n].unassigned /\ rest \in Pass
        BY <1>1 DEF Pass
      <4>2. Step(n, [rest EXCEPT !.unlogged = p[1]])
        BY <3>3
      <4> HIDE DEF rest
      <4> QED
        BY <1>1, <4>1, <4>2 DEF Step, Pass
    <3> QED
      BY <3>1, <3>2, <3>3
  <2>7. CASE CountOffer(n) \/ LogCancellation(n)
    BY <1>1, <2>7 DEF CountOffer, LogCancellation, Pass
  <2>8. CASE Offer(n)
    <3>1. PICK v \in loop[n].unassigned, d \in Driver :
            Step(n, [loop[n] EXCEPT !.unassigned = Without(@, v.ride),
                                    !.busy = @ \cup {d}, !.uncounted = d])
      BY <2>8, Zenon DEF Offer, Candidates
    <3> QED
      BY <1>1, <3>1 DEF Step, Pass, Without
  <2>9. CASE NoOffer(n)
    <3>1. PICK v \in loop[n].unassigned :
            Step(n, [loop[n] EXCEPT !.unassigned = Without(@, v.ride)])
      BY <2>9, Zenon DEF NoOffer
    <3> QED
      BY <1>1, <3>1 DEF Step, Pass, Without
  <2>10. CASE CancelUndispatchable(n)
    <3>1. PICK v \in loop[n].unassigned :
            Step(n, [loop[n] EXCEPT !.unassigned = Without(@, v.ride), !.unlogged = v.ride])
      BY <2>10, Zenon DEF CancelUndispatchable
    <3> QED
      BY <1>1, <3>1 DEF Step, Pass, Without
  <2>5. CASE ListUnassigned(n)
    <3>1. loop'[n].unassigned = {[ride |-> r, excluded |-> ride[r].excluded,
                                  full |-> ride[r].attempts >= MaxAttempts] :
                                 r \in {s \in Ride : Offered(NoOne, s)}}
      BY <1>1, <2>5 DEF ListUnassigned, Step, Pass
    <3>2. ASSUME n # m
          PROVE  loop'[m] = loop[m]
      BY <1>1, <2>5, <3>2 DEF ListUnassigned, Step
    <3> QED
      BY <2>5, <3>1, <3>2 DEF ListUnassigned
  <2> QED
    BY <1>3, <2>1, <2>2, <2>3, <2>4, <2>5, <2>6, <2>7, <2>8, <2>9, <2>10 DEF Tick
<1>4. ASSUME NEW q \in Request, CustomerBegins(q) \/ DriverBegins(q) \/ Finishes(q)
      PROVE  u \in loop[m].unassigned
  BY <1>4, RequestTyped
<1>5. CASE \E r \in Ride : TimePasses(r)
  BY <1>5 DEF TimePasses
<1>6. CASE Crash \/ (\E q \in Request : RequestFails(q)) \/ (\E n \in Matcher : TickFails(n))
  BY <1>1, <1>6 DEF Crash, RequestFails, TickFails, Resting
<1>7. CASE UNCHANGED vars
  BY <1>7 DEF vars
<1> QED
  BY <1>3, <1>4, <1>5, <1>6, <1>7 DEF Next

LEMMA ListedStep ==
  ASSUME SingleMatcher, TypeOK, Listed, [Next]_vars
  PROVE  Listed'
<1> SUFFICES ASSUME NEW m \in Matcher, NEW u \in loop'[m].unassigned
             PROVE  ride'[u.ride].status = "cancelled"
                      \/ (ride'[u.ride].status = "requested" /\ ride'[u.ride].driver = NoOne)
  BY DEF Listed, StillUnassigned, Offered
<1>1. u.ride \in Ride /\ StillUnassigned(u.ride)
  BY ListsShrink, PassFacts DEF Listed, StillUnassigned
<1>2. CASE UNCHANGED ride
  BY <1>1, <1>2 DEF StillUnassigned, Offered
<1>3. ASSUME ~UNCHANGED ride
      PROVE  ride'[u.ride].status = "cancelled"
               \/ (ride'[u.ride].status = "requested" /\ ride'[u.ride].driver = NoOne)
  <2>1. PICK r \in Ride, new \in Row : RowStep(r, new) /\ ride' = [ride EXCEPT ![r] = new]
    BY <1>3, EveryStepIsARowStep DEF OneRow, vars
  <2>2. ride'[r] = new /\ \A s \in Ride \ {r} : ride'[s] = ride[s]
    BY <2>1 DEF TypeOK
  <2>3. CASE u.ride # r
    BY <1>1, <2>2, <2>3 DEF StillUnassigned, Offered
  <2>4. CASE u.ride = r
    <3>1. ~IsOffered(r, new)
      BY <2>4 DEF IsOffered, Without, SingleMatcher
    <3> QED
      BY <1>1, <2>1, <2>2, <2>4, <3>1, OnlyOffersAssign
  <2> QED
    BY <2>3, <2>4
<1> QED
  BY <1>2, <1>3

-----------------------------------------------------------------------------
(* Steps of the table are steps of the lifecycle *)

StatusOf == [r \in Ride |-> ride[r].status]
RiderOf  == [r \in Ride |-> ride[r].rider]
ByOf     == [r \in Ride |-> ride[r].by]

LEMMA LifecycleStep ==
  ASSUME TypeOK, Acceptance, Listed, [Next]_vars
  PROVE  [Lifecycle!Next]_(Lifecycle!lvars)
<1>1. CASE UNCHANGED ride
  BY <1>1 DEF Lifecycle!lvars
<1>2. ASSUME ~UNCHANGED ride
      PROVE  [Lifecycle!Next]_(Lifecycle!lvars)
  <2>1. PICK r \in Ride, new \in Row : RowStep(r, new) /\ ride' = [ride EXCEPT ![r] = new]
    BY <1>2, EveryStepIsARowStep DEF OneRow, vars
  <2>2. /\ StatusOf' = [StatusOf EXCEPT ![r] = new.status]
        /\ RiderOf' = [RiderOf EXCEPT ![r] = new.rider]
        /\ ByOf' = [ByOf EXCEPT ![r] = new.by]
    BY <2>1 DEF StatusOf, RiderOf, ByOf, TypeOK
  <2>3. /\ StatusOf[r] = ride[r].status /\ RiderOf[r] = ride[r].rider /\ ByOf[r] = ride[r].by
        /\ \A s \in Ride : StatusOf[s] = ride[s].status /\ RiderOf[s] = ride[s].rider
    BY DEF StatusOf, RiderOf, ByOf
  <2>4. /\ new.status = ride[r].status => UNCHANGED StatusOf
        /\ new.rider = ride[r].rider => UNCHANGED RiderOf
        /\ new.by = ride[r].by => UNCHANGED ByOf
    BY <2>1 DEF StatusOf, RiderOf, ByOf, TypeOK
  <2> DEFINE Advances(from, to) == /\ StatusOf[r] \in from
                                   /\ StatusOf' = [StatusOf EXCEPT ![r] = to]
                                   /\ UNCHANGED <<RiderOf, ByOf>>
             Cancels(from, who) == /\ StatusOf[r] \in from
                                   /\ StatusOf' = [StatusOf EXCEPT ![r] = "cancelled"]
                                   /\ ByOf' = [ByOf EXCEPT ![r] = who]
                                   /\ UNCHANGED RiderOf
  <2>5. ASSUME NEW from, NEW to, Advances(from, to)
        PROVE  Lifecycle!Advance(r, from, to)
    BY <2>5 DEF Lifecycle!Advance, StatusOf, RiderOf, ByOf
  <2>6. ASSUME NEW from, NEW who, Cancels(from, who)
        PROVE  Lifecycle!CancelFrom(r, from, who)
    BY <2>6 DEF Lifecycle!CancelFrom, StatusOf, RiderOf, ByOf
  <2>7. CASE Books(r, new)
    <3>1. PICK c \in Rider : new.rider = c /\ RiderIndexAllows(r, c)
      BY <2>7, BooksEffect
    <3>2. \A s \in Ride : RiderOf[s] = c => StatusOf[s] \notin Active
      BY <2>3, <2>7, <3>1, BooksEffect DEF RiderIndexAllows, Active, Committed
    <3>3. /\ StatusOf[r] = "none"
          /\ StatusOf' = [StatusOf EXCEPT ![r] = "requested"]
          /\ RiderOf' = [RiderOf EXCEPT ![r] = c]
      <4>1. ride[r].status = "none" /\ new.status = "requested" /\ new.rider = c
        BY <2>7, <3>1, BooksEffect
      <4> QED
        BY <2>2, <2>3, <4>1
    <3>4. UNCHANGED ByOf
      BY <2>4, <2>7, BooksEffect DEF Acceptance, RowOK
    <3>5. Lifecycle!Book(r, c)
      BY <3>2, <3>3, <3>4 DEF Lifecycle!Book, Lifecycle!Active, Lifecycle!Committed,
         Active, Committed, StatusOf, RiderOf, ByOf
    <3> QED
      BY <3>5 DEF Lifecycle!Next
  <2>8. CASE IsOffered(r, new) \/ LosesOffer(r, new) \/ ComesDue(r, new)
    <3>1. UNCHANGED <<StatusOf, RiderOf, ByOf>>
      BY <2>4, <2>8, IsOfferedEffect, LosesOfferEffect, ComesDueEffect DEF Keeps
    <3> QED
      BY <3>1 DEF Lifecycle!lvars, StatusOf, RiderOf, ByOf
  <2>9. CASE IsAccepted(r, new)
    <3>1. Advances({"requested"}, "arriving")
      BY <2>2, <2>3, <2>4, <2>9, IsAcceptedEffect
    <3> QED
      BY <2>5, <3>1 DEF Lifecycle!Next, Lifecycle!Accept
  <2>10. CASE Proceeds(r, new)
    <3>1. UNCHANGED <<RiderOf, ByOf>>
      BY <2>4, <2>10, ProceedsEffect DEF Keeps
    <3>2. \/ Advances({"arriving"}, "arrived")
          \/ Advances({"arriving", "arrived"}, "in_progress")
          \/ Advances({"in_progress"}, "completed")
      <4>1. \/ ride[r].status = "arriving" /\ new.status = "arrived"
            \/ ride[r].status \in {"arriving", "arrived"} /\ new.status = "in_progress"
            \/ ride[r].status = "in_progress" /\ new.status = "completed"
        BY <2>10, ProceedsEffect
      <4>2. StatusOf' = [StatusOf EXCEPT ![r] = new.status] /\ StatusOf[r] = ride[r].status
        BY <2>2, <2>3
      <4> QED
        BY <3>1, <4>1, <4>2
    <3> QED
      BY <2>5, <3>2 DEF Lifecycle!Next, Lifecycle!Arrive, Lifecycle!Start, Lifecycle!Complete
  <2>11. CASE IsCancelledByRider(r, new)
    <3>1. UNCHANGED RiderOf
      BY <2>4, <2>11, IsCancelledByRiderEffect DEF Keeps
    <3>2. Cancels({"requested", "matched", "arriving"}, "customer")
      <4>1. /\ ride[r].status \in {"requested", "matched", "arriving"}
            /\ new.status = "cancelled" /\ new.by = "customer"
        BY <2>11, IsCancelledByRiderEffect DEF Cancellable
      <4> QED
        BY <2>2, <2>3, <3>1, <4>1
    <3> QED
      BY <2>6, <3>2 DEF Lifecycle!Next, Lifecycle!CancelByRider
  <2>12. CASE IsCancelled(r, new)
    <3>1. \/ Cancels({"arriving", "arrived"}, "driver")
          \/ Cancels(Committed, "admin")
      <4>1. /\ \/ ride[r].status \in {"arriving", "arrived"} /\ new.by = "driver"
               \/ ride[r].status \in Committed /\ new.by = "admin"
            /\ new.status = "cancelled" /\ new.rider = ride[r].rider
        BY <2>12, IsCancelledEffect DEF Keeps
      <4>2. UNCHANGED RiderOf
        BY <2>4, <4>1
      <4>3. CASE ride[r].status \in {"arriving", "arrived"} /\ new.by = "driver"
        BY <2>2, <2>3, <4>1, <4>2, <4>3
      <4>4. CASE ride[r].status \in Committed /\ new.by = "admin"
        BY <2>2, <2>3, <4>1, <4>2, <4>4
      <4> QED
        BY <4>1, <4>3, <4>4
    <3> QED
      BY <2>6, <3>1 DEF Lifecycle!Next, Lifecycle!CancelByDriver, Lifecycle!CancelStale,
         Lifecycle!Committed, Committed
  <2>13. CASE IsGivenUp(r, new)
    <3>1. StillUnassigned(r)
      BY <2>13 DEF IsGivenUp, Listed
    <3>2. CASE ride[r].status = "cancelled"
      <4>1. UNCHANGED <<StatusOf, RiderOf, ByOf>>
        BY <2>4, <2>13, <3>2, IsGivenUpEffect DEF Keeps
      <4> QED
        BY <4>1 DEF Lifecycle!lvars, StatusOf, RiderOf, ByOf
    <3>3. CASE ride[r].status = "requested"
      <4>1. UNCHANGED <<RiderOf, ByOf>>
        BY <2>4, <2>13, IsGivenUpEffect DEF Keeps
      <4>2. Advances({"requested"}, "cancelled")
        <5>1. ride[r].status \in {"requested"} /\ new.status = "cancelled"
          BY <2>13, <3>3, IsGivenUpEffect
        <5> QED
          BY <2>2, <2>3, <4>1, <5>1
      <4> QED
        BY <2>5, <4>2 DEF Lifecycle!Next, Lifecycle!GiveUp
    <3> QED
      BY <3>1, <3>2, <3>3 DEF StillUnassigned, Offered
  <2> QED
    BY <2>1, <2>7, <2>8, <2>9, <2>10, <2>11, <2>12, <2>13 DEF RowStep
<1> QED
  BY <1>1, <1>2
LEMMA LifecycleInit == Init => Lifecycle!Init
BY DEF Init, Lifecycle!Init, NoRow

(* With one process matching, whatever the handlers have read and however     *)
(* often the process restarts, the table only takes steps of RideLifecycle.   *)
THEOREM Refinement ==
  ASSUME SingleMatcher
  PROVE  Spec => ImplementsLifecycle
<1>1. Init => Listed
  BY DEF Init, Listed, Resting
<1>2. TypeOK /\ Listed /\ [Next]_vars => Listed'
  BY ListedStep
<1>3. TypeOK /\ Acceptance /\ Listed /\ [Next]_vars => [Lifecycle!Next]_(Lifecycle!lvars)
  BY LifecycleStep
<1> QED
  BY <1>1, <1>2, <1>3, LifecycleInit, TypeCorrect, AcceptanceHolds, PTL
     DEF Spec, ImplementsLifecycle, Lifecycle!Spec

-----------------------------------------------------------------------------
(* The audit trail, when one process runs the matching loop *)

(* What a ride has been through for good: a ride that passed s has had it and *)
(* does not enter it again.                                                   *)
Passed(row, s) ==
  /\ s \in row.been
  /\ CASE s = "requested"   -> row.status # "none"
       [] s = "arriving"    -> row.accepted
       [] s = "arrived"     -> row.accepted /\ row.status # "arriving"
       [] s = "in_progress" -> row.accepted /\ row.status \notin {"arriving", "arrived"}
       [] s \in Terminal    -> row.status = s
       [] OTHER             -> FALSE

(* A status has been written whose history row is still to come. *)
Pending(q, r, s) == req[q].op = "after" /\ req[q].on = r /\ req[q].to = s

(* Statuses are logged after they are written, and one handler logs each of   *)
(* them once; a cancellation alone may be written twice.                      *)
Audit ==
  /\ \A r \in Ride, s \in Status :
       history[r][s] > 0 \/ (\E q \in Request : Pending(q, r, s)) => Passed(ride[r], s)
  /\ \A r \in Ride, s \in Status \ {"cancelled"} :
       /\ history[r][s] <= 1
       /\ \A q \in Request : Pending(q, r, s) => history[r][s] = 0
       /\ \A p, q \in Request : Pending(p, r, s) /\ Pending(q, r, s) => p = q
  /\ \A m \in Matcher :
       loop[m].unlogged # NoOne => ride[loop[m].unlogged].status = "cancelled"

LEMMA PassedInARow ==
  ASSUME TypeOK, Acceptance, Listed, NEW r \in Ride, NEW new, RowStep(r, new),
         NEW s \in Status, Passed(ride[r], s)
  PROVE  Passed(new, s)
<1>1. RowOK(ride[r]) /\ Remembers(r, new)
  BY RowStepRemembers DEF Acceptance
<1> USE DEF Passed, Remembers, RowOK, Committed, Terminal, Cancellable, Keeps
<1>2. CASE Books(r, new)
  BY <1>1, <1>2, BooksEffect
<1>3. CASE IsOffered(r, new) \/ LosesOffer(r, new) \/ ComesDue(r, new)
  BY <1>1, <1>3, IsOfferedEffect, LosesOfferEffect, ComesDueEffect
<1>4. CASE IsAccepted(r, new)
  BY <1>1, <1>4, IsAcceptedEffect
<1>5. CASE Proceeds(r, new)
  BY <1>1, <1>5, ProceedsEffect
<1>6. CASE IsCancelledByRider(r, new) \/ IsCancelled(r, new)
  BY <1>1, <1>6, IsCancelledByRiderEffect, IsCancelledEffect
<1>7. CASE IsGivenUp(r, new)
  <2>1. ride[r].status \in {"cancelled", "requested"}
    BY <1>7 DEF IsGivenUp, Listed, StillUnassigned, Offered
  <2> QED
    BY <1>1, <1>7, <2>1, IsGivenUpEffect
<1> QED
  BY <1>2, <1>3, <1>4, <1>5, <1>6, <1>7 DEF RowStep

LEMMA PassedForGood ==
  ASSUME TypeOK, Acceptance, Listed, [Next]_vars, NEW r \in Ride, NEW s \in Status,
         Passed(ride[r], s)
  PROVE  Passed(ride'[r], s)
<1>1. CASE UNCHANGED ride
  BY <1>1
<1>2. CASE OneRow
  <2>1. PICK t \in Ride, new \in Row : RowStep(t, new) /\ ride' = [ride EXCEPT ![t] = new]
    BY <1>2 DEF OneRow
  <2>2. ride'[t] = new /\ \A u \in Ride \ {t} : ride'[u] = ride[u]
    BY <2>1 DEF TypeOK
  <2> QED
    BY <2>1, <2>2, PassedInARow
<1> QED
  BY <1>1, <1>2, EveryStepIsARowStep DEF vars

(* A status is entered from the one before it, never from one after it.      *)
Enters(row, to) ==
  \/ to = "requested" /\ row.status = "none"
  \/ to = "arriving" /\ row.status = "requested"
  \/ to = "arrived" /\ row.status = "arriving"
  \/ to = "in_progress" /\ row.status \in {"arriving", "arrived"}
  \/ to = "completed" /\ row.status = "in_progress"
  \/ to = "cancelled"

LEMMA EntersAfresh ==
  ASSUME NEW row, RowOK(row), NEW to, Enters(row, to), to # "cancelled"
  PROVE  ~Passed(row, to)
BY DEF RowOK, Enters, Passed, Committed, Terminal

LEMMA EnteredIsPassed ==
  ASSUME NEW row, RowOK(row), row.status \in Status \ {"none"}
  PROVE  Passed(row, row.status)
BY DEF RowOK, Passed, Status, Active, Committed, Terminal

-----------------------------------------------------------------------------
(* Slot q has just written the status of a ride. *)
Wrote(q) ==
  /\ UNCHANGED history
  /\ req[q].op # "after" /\ req'[q].on \in Ride
  /\ req'[q].to = ride'[req'[q].on].status
  /\ Enters(ride[req'[q].on], req'[q].to)
  /\ \A p \in Request \ {q} : req'[p] = req[p]

Quiet == UNCHANGED history /\ \A p \in Request : req'[p].op = "after" => req'[p] = req[p]

LEMMA SlotsMove ==
  ASSUME TypeOK, [Next]_vars
  PROVE  \/ Quiet
         \/ \E q \in Request : Wrote(q) \/ Afterwards(q)
         \/ \E m \in Matcher : LogCancellation(m)
<1>1. req \in [Request -> InFlight] /\ ride \in [Ride -> Row]
  BY DEF TypeOK
<1>2. ASSUME NEW q \in Request, NEW task, Slot(q, task), task.op # "after", UNCHANGED history
      PROVE  Quiet
  BY <1>1, <1>2 DEF Slot, Quiet
<1>3. ASSUME NEW q \in Request, NEW op \in {"create", "release", "arrive"}, NEW who, NEW on,
             Reads(q, op, who, on)
      PROVE  Quiet
  BY <1>2, <1>3 DEF Reads, Idle
<1>4. ASSUME NEW q \in Request, Refused(q)
      PROVE  Quiet
  BY <1>2, <1>4 DEF Refused, Idle
<1>5. ASSUME NEW q \in Request, NEW who, NEW r \in Ride, NEW row, Writes(q, who, r, row),
             req[q].op # "after", Enters(ride[r], row.status)
      PROVE  Wrote(q)
  <2>1. ride'[r] = row
    BY <1>1, <1>5 DEF Writes, Put
  <2>2. req'[q].on = r /\ req'[q].to = row.status /\ \A p \in Request \ {q} : req'[p] = req[p]
    BY <1>1, <1>5 DEF Writes, Slot, Idle
  <2> QED
    BY <1>5, <2>1, <2>2 DEF Wrote, Writes
<1>6. \A r \in Ride, to \in Status : Moved(ride[r], to).status = to
  BY <1>1, MovedKeeps
<1>7. \A r \in Ride : \A who, why : Cancelled(ride[r], who, why).status = "cancelled"
  BY <1>1, CancelledKeeps
<1>8. ASSUME NEW q \in Request, CustomerBegins(q)
      PROVE  Quiet
  <2>1. ASSUME NEW c \in Rider, NEW r \in Ride, CustomerCancelRead(q, c, r)
        PROVE  Quiet
    BY <1>2, <2>1 DEF CustomerCancelRead, Idle
  <2> QED
    BY <1>3, <1>8, <2>1 DEF CustomerBegins, CreateRead
<1>9. ASSUME NEW q \in Request, DriverBegins(q)
      PROVE  Quiet \/ Wrote(q)
  <2>1. PICK d \in Driver, r \in Ride :
          \/ IncomingRead(q, d, r) \/ RejectRead(q, d, r) \/ LocationRead(q, d, r)
          \/ Accept(q, d, r) \/ DriverCancel(q, d, r)
          \/ VerifyOtp(q, d, r) \/ EndRide(q, d, r)
    BY <1>9 DEF DriverBegins
  <2>2. CASE IncomingRead(q, d, r) \/ RejectRead(q, d, r) \/ LocationRead(q, d, r)
    BY <1>3, <2>2 DEF IncomingRead, RejectRead, LocationRead
  <2>3. CASE Accept(q, d, r)
    <3>1. [Moved(ride[r], "arriving") EXCEPT !.accepted = TRUE].status = "arriving"
      BY <1>1 DEF Moved, Row
    <3> QED
      BY <1>5, <2>3, <3>1 DEF Accept, DriverMoves, Enters
  <2>4. CASE DriverCancel(q, d, r)
    BY <1>5, <1>7, <2>4 DEF DriverCancel, DriverMoves, Enters
  <2>5. CASE VerifyOtp(q, d, r) \/ EndRide(q, d, r)
    <3>1. Moved(ride[r], "in_progress").status = "in_progress"
          /\ Moved(ride[r], "completed").status = "completed"
      BY <1>1, MovedKeeps
    <3> QED
      BY <1>5, <2>5, <3>1 DEF VerifyOtp, EndRide, DriverMoves, Enters
  <2> QED
    BY <2>1, <2>2, <2>3, <2>4, <2>5
<1>10. ASSUME NEW q \in Request, CreateInsert(q)
       PROVE  Quiet \/ Wrote(q)
  <2>1. \A c : NewRow(c).status = "requested"
    BY DEF NewRow, NoRow
  <2> QED
    BY <1>4, <1>5, <1>10, <2>1 DEF CreateInsert, Enters
<1>11. ASSUME NEW q \in Request, CustomerCancelCommit(q)
       PROVE  Quiet \/ Wrote(q)
  <2>1. req[q].on \in Ride
    BY <1>1, <1>11 DEF CustomerCancelCommit, InFlight
  <2>2. [Cancelled(ride[req[q].on], "customer", "customer") EXCEPT !.fee = req[q].late].status
          = "cancelled"
    BY <1>1, <2>1 DEF Cancelled, Moved, Row
  <2> QED
    BY <1>4, <1>5, <1>11, <2>1, <2>2 DEF CustomerCancelCommit, Enters
<1>12. ASSUME NEW q \in Request, ReleaseOffer(q)
       PROVE  Quiet
  BY <1>2, <1>12 DEF ReleaseOffer, Idle
<1>13. ASSUME NEW q \in Request, LocationArrive(q)
       PROVE  Quiet \/ Wrote(q)
  <2>1. req[q].on \in Ride
    BY <1>1, <1>13 DEF LocationArrive, InFlight
  <2>2. Moved(ride[req[q].on], "arrived").status = "arrived"
    BY <1>1, <2>1, MovedKeeps
  <2> QED
    BY <1>4, <1>5, <1>13, <2>1, <2>2 DEF LocationArrive, Enters
<1>14. ASSUME NEW m \in Matcher, Tick(m), ~LogCancellation(m)
       PROVE  Quiet
  BY <1>14 DEF Quiet, Tick, Step, TickStart, ExpireOffer, ListUnassigned, ListBusy, Offer,
     CountOffer, OfferConflict, NoOffer, CancelUndispatchable, ListAged, CancelStale, TickEnd
<1>15. CASE (\E r \in Ride : TimePasses(r)) \/ (\E m \in Matcher : TickFails(m)) \/ UNCHANGED vars
  BY <1>15 DEF Quiet, TimePasses, TickFails, vars
<1>16. CASE Crash \/ (\E q \in Request : RequestFails(q))
  BY <1>1, <1>16 DEF Quiet, Crash, RequestFails, Slot, Idle
<1> QED
  BY <1>8, <1>9, <1>10, <1>11, <1>12, <1>13, <1>14, <1>15, <1>16 DEF Next, Finishes

(* A loop logs the cancellation it has just written. *)
LEMMA CancellationsLogged ==
  ASSUME TypeOK, [Next]_vars, NEW m \in Matcher, loop'[m].unlogged # NoOne
  PROVE  \/ loop'[m].unlogged = loop[m].unlogged
         \/ ride'[loop'[m].unlogged].status = "cancelled"
<1>1. loop \in [Matcher -> Pass] /\ ride \in [Ride -> Row]
  BY DEF TypeOK
<1> DEFINE Good == \/ loop'[m].unlogged = loop[m].unlogged
                   \/ ride'[loop'[m].unlogged].status = "cancelled"
<1>2. ASSUME NEW n \in Matcher, NEW pass, Step(n, pass),
             pass.unlogged \in {loop[n].unlogged, NoOne}
      PROVE  Good
  BY <1>1, <1>2 DEF Step
<1>3. ASSUME NEW n \in Matcher, NEW pass, Step(n, pass), pass.unlogged \in Ride,
             ride'[pass.unlogged].status = "cancelled"
      PROVE  Good
  BY <1>1, <1>3 DEF Step
<1>4. ASSUME NEW n \in Matcher, Tick(n)
      PROVE  Good
  <2>1. CASE TickStart(n) \/ OfferConflict(n) \/ TickEnd(n)
    <3>1. PICK l : Step(n, Resting) \/ Step(n, [Resting EXCEPT !.pc = "expiring", !.stale = l])
      BY <2>1, Zenon DEF TickStart, OfferConflict, TickEnd
    <3>2. Resting.unlogged = NoOne
          /\ [Resting EXCEPT !.pc = "expiring", !.stale = l].unlogged = NoOne
      BY DEF Resting
    <3> QED
      BY <1>2, <3>1, <3>2
  <2>2. CASE ExpireOffer(n)
    <3>1. PICK p :
            Step(n, [loop[n] EXCEPT !.stale = @ \ {p}])
      BY <2>2, Zenon DEF ExpireOffer
    <3> QED
      BY <1>1, <3>1 DEF Step, Pass
  <2>3. CASE ListUnassigned(n)
    <3>1. PICK l :
            Step(n, [loop[n] EXCEPT !.pc = "listed", !.unassigned = l])
      BY <2>3, Zenon DEF ListUnassigned
    <3> QED
      BY <1>1, <3>1 DEF Step, Pass
  <2>4. CASE ListBusy(n)
    <3>1. PICK b :
            Step(n, [loop[n] EXCEPT !.pc = "offering", !.busy = b])
      BY <2>4, Zenon DEF ListBusy
    <3> QED
      BY <1>1, <3>1 DEF Step, Pass
  <2>5. CASE ListAged(n)
    <3>1. PICK l :
            Step(n, [loop[n] EXCEPT !.pc = "sweeping", !.busy = {}, !.aged = l])
      BY <2>5, Zenon DEF ListAged
    <3> QED
      BY <1>1, <3>1 DEF Step, Pass
  <2>6. CASE CountOffer(n) \/ LogCancellation(n)
    BY <1>1, <2>6 DEF CountOffer, LogCancellation, Pass
  <2>7. CASE Offer(n)
    <3>1. PICK v \in loop[n].unassigned, d \in Driver :
            Step(n, [loop[n] EXCEPT !.unassigned = Without(@, v.ride),
                                    !.busy = @ \cup {d}, !.uncounted = d])
      BY <2>7, Zenon DEF Offer, Candidates
    <3> QED
      BY <1>1, <3>1 DEF Step, Pass
  <2>8. CASE NoOffer(n)
    <3>1. PICK v \in loop[n].unassigned :
            Step(n, [loop[n] EXCEPT !.unassigned = Without(@, v.ride)])
      BY <2>8, Zenon DEF NoOffer
    <3> QED
      BY <1>1, <3>1 DEF Step, Pass
  <2>9. CASE CancelUndispatchable(n)
    <3>1. PICK v \in loop[n].unassigned :
            /\ ride' = [ride EXCEPT ![v.ride] = [Moved(ride[v.ride], "cancelled") EXCEPT
                                                   !.reason = "no_drivers_available"]]
            /\ Step(n, [loop[n] EXCEPT !.unassigned = Without(@, v.ride), !.unlogged = v.ride])
      BY <2>9, Zenon DEF CancelUndispatchable, Put
    <3>2. v.ride \in Ride
      BY PassFacts
    <3>3. ride'[v.ride].status = "cancelled"
      BY <1>1, <3>1, <3>2 DEF Moved, Row
    <3>4. [loop[n] EXCEPT !.unassigned = Without(@, v.ride), !.unlogged = v.ride].unlogged = v.ride
      BY <1>1 DEF Pass
    <3> QED
      BY <1>3, <3>1, <3>2, <3>3, <3>4
  <2>10. CASE CancelStale(n)
    <3>1. PICK p \in loop[n].aged :
            \/ Step(n, [loop[n] EXCEPT !.aged = @ \ {p}])
            \/ /\ Step(n, [[loop[n] EXCEPT !.aged = @ \ {p}] EXCEPT !.unlogged = p[1]])
               /\ ride' = [ride EXCEPT ![p[1]] = Cancelled(ride[p[1]], "admin", "stale")]
      BY <2>10, Zenon DEF CancelStale, Put
    <3>2. CASE Step(n, [loop[n] EXCEPT !.aged = @ \ {p}])
      BY <1>1, <3>2 DEF Step, Pass
    <3>3. CASE /\ Step(n, [[loop[n] EXCEPT !.aged = @ \ {p}] EXCEPT !.unlogged = p[1]])
               /\ ride' = [ride EXCEPT ![p[1]] = Cancelled(ride[p[1]], "admin", "stale")]
      <4>1. p[1] \in Ride
        BY PassFacts
      <4>2. ride'[p[1]].status = "cancelled"
        BY <1>1, <3>3, <4>1, CancelledKeeps
      <4> DEFINE rest == [loop[n] EXCEPT !.aged = @ \ {p}]
      <4>3. rest \in Pass
        BY <1>1 DEF Pass
      <4>4. Step(n, [rest EXCEPT !.unlogged = p[1]])
        BY <3>3
      <4> HIDE DEF rest
      <4>5. [rest EXCEPT !.unlogged = p[1]].unlogged = p[1]
        BY <4>3 DEF Pass
      <4> QED
        BY <1>3, <4>1, <4>2, <4>4, <4>5
    <3> QED
      BY <3>1, <3>2, <3>3
  <2> QED
    BY <1>4, <2>1, <2>2, <2>3, <2>4, <2>5, <2>6, <2>7, <2>8, <2>9, <2>10 DEF Tick
<1>5. ASSUME NEW q \in Request, CustomerBegins(q) \/ DriverBegins(q) \/ Finishes(q)
      PROVE  Good
  BY <1>5, RequestTyped
<1>6. CASE \E r \in Ride : TimePasses(r)
  BY <1>6 DEF TimePasses
<1>7. CASE Crash \/ (\E q \in Request : RequestFails(q)) \/ (\E n \in Matcher : TickFails(n))
  BY <1>1, <1>7 DEF Crash, RequestFails, TickFails, Resting
<1>8. CASE UNCHANGED vars
  BY <1>8 DEF vars
<1> QED
  BY <1>4, <1>5, <1>6, <1>7, <1>8 DEF Next

-----------------------------------------------------------------------------
LEMMA AuditStep ==
  ASSUME TypeOK, Acceptance, Listed, Audit, [Next]_vars
  PROVE  Audit'
<1>1. /\ \A r \in Ride, s \in Status : Passed(ride[r], s) => Passed(ride'[r], s)
      /\ \A r \in Ride : RowOK(ride[r]) /\ RowOK(ride'[r])
  BY PassedForGood, RowsMoveOn DEF Acceptance
<1>2. /\ req \in [Request -> InFlight] /\ history \in [Ride -> [Status -> Nat]]
      /\ loop \in [Matcher -> Pass]
  BY DEF TypeOK
<1>3. \A m \in Matcher :
        loop'[m].unlogged # NoOne => ride'[loop'[m].unlogged].status = "cancelled"
  <2> SUFFICES ASSUME NEW m \in Matcher, loop'[m].unlogged # NoOne,
                      loop'[m].unlogged = loop[m].unlogged
               PROVE  ride'[loop[m].unlogged].status = "cancelled"
    BY CancellationsLogged
  <2>1. loop[m].unlogged \in Ride /\ ride[loop[m].unlogged].status = "cancelled"
    BY <1>2 DEF Pass, Audit
  <2>2. Passed(ride[loop[m].unlogged], "cancelled")
    BY <1>1, <2>1 DEF Passed, Terminal, RowOK
  <2>3. "cancelled" \in Status
    BY DEF Status, Terminal
  <2>4. Passed(ride'[loop[m].unlogged], "cancelled")
    BY <1>1, <2>1, <2>2, <2>3
  <2> QED
    BY <2>4 DEF Passed, Terminal
<1> DEFINE Trail(rows, h, slots) ==
      /\ \A r \in Ride, s \in Status :
           h[r][s] > 0 \/ (\E q \in Request : slots[q].op = "after" /\ slots[q].on = r
                                                /\ slots[q].to = s)
             => Passed(rows[r], s)
      /\ \A r \in Ride, s \in Status \ {"cancelled"} :
           /\ h[r][s] <= 1
           /\ \A q \in Request : slots[q].op = "after" /\ slots[q].on = r /\ slots[q].to = s
                                   => h[r][s] = 0
           /\ \A p, q \in Request :
                /\ slots[p].op = "after" /\ slots[p].on = r /\ slots[p].to = s
                /\ slots[q].op = "after" /\ slots[q].on = r /\ slots[q].to = s
                => p = q
<1>4. Trail(ride, history, req)
  BY DEF Audit, Pending
<1>5. ASSUME Trail(ride', history', req')
      PROVE  Audit'
  BY <1>3, <1>5 DEF Audit, Pending
<1>6. CASE Quiet
  BY <1>1, <1>4, <1>5, <1>6 DEF Quiet
<1>7. ASSUME NEW q \in Request, Wrote(q)
      PROVE  Audit'
  <2> DEFINE r == req'[q].on
             s == req'[q].to
  <2>1. /\ r \in Ride /\ s = ride'[r].status /\ Enters(ride[r], s)
        /\ \A p \in Request \ {q} : req'[p] = req[p]
        /\ history' = history /\ req[q].op # "after"
    BY <1>7 DEF Wrote
  <2>2. s \in Status \ {"none"}
    BY <2>1 DEF Enters, Status, Active, Committed, Terminal
  <2>3. Passed(ride'[r], s)
    BY <1>1, <2>1, <2>2, EnteredIsPassed
  <2>4. s # "cancelled" => ~Passed(ride[r], s)
    BY <1>1, <2>1, EntersAfresh
  <2>5. history[r][s] \in Nat
    BY <1>2, <2>1, <2>2
  <2>6. s # "cancelled" =>
          /\ history[r][s] = 0
          /\ \A p \in Request : ~(req[p].op = "after" /\ req[p].on = r /\ req[p].to = s)
    BY <1>4, <2>1, <2>2, <2>4, <2>5
  <2> HIDE DEF r, s
  <2>7. Trail(ride', history', req')
    <3>1. ASSUME NEW t \in Ride, NEW u \in Status,
                 \/ history'[t][u] > 0
                 \/ \E p \in Request : req'[p].op = "after" /\ req'[p].on = t /\ req'[p].to = u
          PROVE  Passed(ride'[t], u)
      BY <1>1, <1>4, <2>1, <2>3, <3>1 DEF r, s
    <3>2. ASSUME NEW t \in Ride, NEW u \in Status \ {"cancelled"}
          PROVE  /\ history'[t][u] <= 1
                 /\ \A p \in Request :
                      req'[p].op = "after" /\ req'[p].on = t /\ req'[p].to = u
                        => history'[t][u] = 0
                 /\ \A p, o \in Request :
                      /\ req'[p].op = "after" /\ req'[p].on = t /\ req'[p].to = u
                      /\ req'[o].op = "after" /\ req'[o].on = t /\ req'[o].to = u
                      => p = o
      BY <1>4, <2>1, <2>6 DEF r, s
    <3> QED
      BY <3>1, <3>2
  <2> QED
    BY <1>5, <2>7
<1>8. ASSUME NEW q \in Request, Afterwards(q)
      PROVE  Audit'
  <2> DEFINE r == req[q].on
             s == req[q].to
  <2>1. r \in Ride /\ s \in Status /\ req[q].op = "after"
    BY <1>2, <1>8 DEF Afterwards, InFlight
  <2>2. /\ history' = [history EXCEPT ![r][s] = history[r][s] + 1]
        /\ req' = [req EXCEPT ![q] = Idle] /\ ride' = ride
    BY <1>8 DEF Afterwards, Slot
  <2> HIDE DEF r, s
  <2>3. /\ \A t \in Ride, u \in Status :
             history'[t][u] = IF t = r /\ u = s THEN history[r][s] + 1 ELSE history[t][u]
        /\ \A p \in Request : req'[p].op = "after" => p # q /\ req'[p] = req[p]
    BY <1>2, <2>1, <2>2 DEF Idle
  <2>4. Passed(ride[r], s) /\ (s # "cancelled" => history[r][s] = 0)
    BY <1>4, <2>1 DEF r, s
  <2>5. Trail(ride', history', req')
    <3>1. ASSUME NEW t \in Ride, NEW u \in Status,
                 \/ history'[t][u] > 0
                 \/ \E p \in Request : req'[p].op = "after" /\ req'[p].on = t /\ req'[p].to = u
          PROVE  Passed(ride'[t], u)
      BY <1>4, <2>2, <2>3, <2>4, <3>1
    <3>2. ASSUME NEW t \in Ride, NEW u \in Status \ {"cancelled"}
          PROVE  /\ history'[t][u] <= 1
                 /\ \A p \in Request :
                      req'[p].op = "after" /\ req'[p].on = t /\ req'[p].to = u
                        => history'[t][u] = 0
                 /\ \A p, o \in Request :
                      /\ req'[p].op = "after" /\ req'[p].on = t /\ req'[p].to = u
                      /\ req'[o].op = "after" /\ req'[o].on = t /\ req'[o].to = u
                      => p = o
      BY <1>4, <2>1, <2>3, <2>4 DEF r, s
    <3> QED
      BY <3>1, <3>2
  <2> QED
    BY <1>5, <2>5
<1>9. ASSUME NEW m \in Matcher, LogCancellation(m)
      PROVE  Audit'
  <2> DEFINE r == loop[m].unlogged
  <2>1. r \in Ride /\ ride[r].status = "cancelled"
    BY <1>2, <1>9 DEF LogCancellation, Audit, Pass
  <2>2. /\ history' = [history EXCEPT ![r]["cancelled"] = history[r]["cancelled"] + 1]
        /\ req' = req /\ ride' = ride
    BY <1>9 DEF LogCancellation
  <2>3. Passed(ride[r], "cancelled")
    BY <1>1, <2>1 DEF Passed, Terminal, RowOK
  <2> HIDE DEF r
  <2>4. \A t \in Ride, u \in Status :
          (t # r \/ u # "cancelled") => history'[t][u] = history[t][u]
    BY <1>2, <2>1, <2>2
  <2>5. Trail(ride', history', req')
    BY <1>4, <2>2, <2>3, <2>4
  <2> QED
    BY <1>5, <2>5
<1> QED
  BY <1>6, <1>7, <1>8, <1>9, SlotsMove

LEMMA InitAudit == Init => Audit
BY DEF Init, Audit, Pending, Idle, Resting

(* With one process matching, the history of a ride invents nothing and       *)
(* repeats nothing, although its rows are inserted after the status has been   *)
(* written, by handlers that may overlap or die (rideHistory.ts:5-12).         *)
THEOREM HistoryFollowsRides ==
  ASSUME SingleMatcher
  PROVE  Spec => []HistoryIsFaithful
<1>1. Init => Listed
  BY DEF Init, Listed, Resting
<1>2. TypeOK /\ Listed /\ [Next]_vars => Listed'
  BY ListedStep
<1>3. TypeOK /\ Acceptance /\ Listed /\ Audit /\ [Next]_vars => Audit'
  BY AuditStep
<1>4. Audit => HistoryIsFaithful
  <2> SUFFICES ASSUME Audit, NEW r \in Ride, NEW s \in Status
               PROVE  /\ history[r][s] > 0 => s \in ride[r].been
                      /\ s # "cancelled" => history[r][s] <= 1
    BY DEF HistoryIsFaithful
  <2>1. Passed(ride[r], s) => s \in ride[r].been
    BY DEF Passed
  <2> QED
    BY <2>1 DEF Audit
<1> QED
  BY <1>1, <1>2, <1>3, <1>4, InitAudit, TypeCorrect, AcceptanceHolds, PTL DEF Spec

-----------------------------------------------------------------------------
(* The acceptance rate.  Each acceptance answers one offer and each is        *)
(* counted after the write it counts: Tally balances the counters with what   *)
(* is still to be counted and the offer that is still out.                    *)

Accepting(d) ==
  {q \in Request : req[q].op = "after" /\ req[q].to = "arriving" /\ req[q].who = d}

Counting(d) == {m \in Matcher : loop[m].uncounted = d}

Holding(d) == \E r \in Ride : Offered(d, r)

Uncounted(d) == Cardinality(Accepting(d)) + (IF Holding(d) THEN 1 ELSE 0)

Tally(d) == stats[d].accepted + Uncounted(d) <= stats[d].offered + Cardinality(Counting(d))

(* Only finitely many requests and loops have ever begun anything. *)
FewAtWork ==
  /\ IsFiniteSet({q \in Request : req[q].op # "idle"})
  /\ IsFiniteSet({m \in Matcher : loop[m].uncounted # NoOne})

Tallies == FewAtWork /\ (faults = 0 => \A d \in Driver : Tally(d))

LEMMA CountsTyped ==
  ASSUME TypeOK, FewAtWork, NEW d \in Driver
  PROVE  /\ IsFiniteSet(Accepting(d)) /\ Cardinality(Accepting(d)) \in Nat
         /\ IsFiniteSet(Counting(d)) /\ Cardinality(Counting(d)) \in Nat
         /\ stats[d].accepted \in Nat /\ stats[d].offered \in Nat
<1>1. Accepting(d) \in SUBSET {q \in Request : req[q].op # "idle"}
  BY DEF Accepting
<1>2. Counting(d) \in SUBSET {m \in Matcher : loop[m].uncounted # NoOne}
  BY DEF Counting
<1>3. IsFiniteSet(Accepting(d)) /\ IsFiniteSet(Counting(d))
  BY <1>1, <1>2, FS_Subset DEF FewAtWork
<1> QED BY <1>3, FS_CardinalityType DEF TypeOK

(* A slot more or less leaves finitely many. *)
LEMMA FewStep ==
  ASSUME TypeOK, FewAtWork,
         \/ UNCHANGED req
         \/ \E q \in Request : \E task : Slot(q, task)
         \/ req' = [q \in Request |-> Idle],
         \/ UNCHANGED loop
         \/ \E m \in Matcher : \E pass : loop' = [loop EXCEPT ![m] = pass]
         \/ loop' = [m \in Matcher |-> Resting]
  PROVE  FewAtWork'
<1> DEFINE busy == {q \in Request : req[q].op # "idle"}
           counting == {m \in Matcher : loop[m].uncounted # NoOne}
<1>1. IsFiniteSet({q \in Request : req'[q].op # "idle"})
  <2>1. CASE UNCHANGED req
    BY <2>1 DEF FewAtWork
  <2>2. CASE \E q \in Request : \E task : Slot(q, task)
    <3>1. PICK q \in Request : \E task : Slot(q, task)
      BY <2>2
    <3>2. \A p \in Request \ {q} : req'[p] = req[p]
      BY <3>1 DEF Slot, TypeOK
    <3>3. IsFiniteSet(busy \cup {q})
      BY FS_AddElement DEF FewAtWork
    <3>4. {p \in Request : req'[p].op # "idle"} \in SUBSET (busy \cup {q})
      BY <3>2
    <3> QED BY <3>3, <3>4, FS_Subset
  <2>3. CASE req' = [q \in Request |-> Idle]
    <3>1. {p \in Request : req'[p].op # "idle"} = {}
      BY <2>3 DEF Idle
    <3> QED BY <3>1, FS_EmptySet
  <2> QED BY <2>1, <2>2, <2>3
<1>2. IsFiniteSet({m \in Matcher : loop'[m].uncounted # NoOne})
  <2>1. CASE UNCHANGED loop
    BY <2>1 DEF FewAtWork
  <2>2. CASE \E m \in Matcher : \E pass : loop' = [loop EXCEPT ![m] = pass]
    <3>1. PICK m \in Matcher : \E pass : loop' = [loop EXCEPT ![m] = pass]
      BY <2>2
    <3>2. \A n \in Matcher \ {m} : loop'[n] = loop[n]
      BY <3>1 DEF TypeOK
    <3>3. IsFiniteSet(counting \cup {m})
      BY FS_AddElement DEF FewAtWork
    <3>4. {n \in Matcher : loop'[n].uncounted # NoOne} \in SUBSET (counting \cup {m})
      BY <3>2
    <3> QED BY <3>3, <3>4, FS_Subset
  <2>3. CASE loop' = [m \in Matcher |-> Resting]
    <3>1. {n \in Matcher : loop'[n].uncounted # NoOne} = {}
      BY <2>3 DEF Resting
    <3> QED BY <3>1, FS_EmptySet
  <2> QED BY <2>1, <2>2, <2>3
<1> QED BY <1>1, <1>2 DEF FewAtWork

(* What neither counts nor offers nor accepts leaves the balance alone. *)
LEMMA TallyKept ==
  ASSUME TypeOK, FewAtWork, NEW d \in Driver, Tally(d),
         UNCHANGED stats[d], Accepting(d)' \subseteq Accepting(d),
         Counting(d)' = Counting(d), Holding(d)' => Holding(d)
  PROVE  Tally(d)'
<1>1. Accepting(d)' \in SUBSET Accepting(d)
  OBVIOUS
<1>2. /\ Cardinality(Accepting(d)') \in Nat
      /\ Cardinality(Accepting(d)') <= Cardinality(Accepting(d))
  BY <1>1, CountsTyped, FS_Subset, FS_CardinalityType
<1>3. Cardinality(Accepting(d))' = Cardinality(Accepting(d)')
      /\ Cardinality(Counting(d))' = Cardinality(Counting(d))
  OBVIOUS
<1> QED BY <1>2, <1>3, CountsTyped DEF Tally, Uncounted

LEMMA NotAccepting ==
  ASSUME TypeOK, NEW q \in Request, NEW task, Slot(q, task),
         task.op # "after" \/ task.to # "arriving", NEW d \in Driver
  PROVE  Accepting(d)' \subseteq Accepting(d)
<1>1. req'[q] = task /\ \A p \in Request \ {q} : req'[p] = req[p]
  BY DEF Slot, TypeOK
<1> QED BY <1>1 DEF Accepting

LEMMA SameCounting ==
  ASSUME TypeOK, NEW m \in Matcher, NEW pass, Step(m, pass),
         pass.uncounted = loop[m].uncounted, NEW d \in Driver
  PROVE  Counting(d)' = Counting(d)
<1>1. loop'[m] = pass /\ \A n \in Matcher \ {m} : loop'[n] = loop[n]
  BY DEF Step, TypeOK
<1> QED BY <1>1 DEF Counting

(* A write that is neither an acceptance nor an offer. *)
LEMMA WriteKeepsTally ==
  ASSUME TypeOK, FewAtWork, NEW q \in Request, NEW who, NEW r \in Ride, NEW row \in Row,
         Writes(q, who, r, row), row.status # "arriving",
         row.status = "requested" => ride[r].status = "none" /\ row.driver = NoOne,
         NEW d \in Driver, Tally(d)
  PROVE  Tally(d)'
<1>1. Put(r, row) /\ UNCHANGED <<stats, loop>>
  BY DEF Writes
<1>2. Accepting(d)' \subseteq Accepting(d)
  <2> DEFINE task == [Idle EXCEPT !.op = "after", !.who = who, !.on = r, !.to = row.status]
  <2>1. Slot(q, task)
    BY DEF Writes
  <2>2. task.to # "arriving"
    BY DEF Idle
  <2> HIDE DEF task
  <2> QED BY <2>1, <2>2, NotAccepting
<1>3. Holding(d)' => Holding(d)
  <2>1. ride'[r] = row /\ \A s \in Ride \ {r} : ride'[s] = ride[s]
    BY <1>1 DEF Put, TypeOK
  <2> QED BY <2>1 DEF Holding, Offered
<1>4. Counting(d)' = Counting(d)
  BY <1>1 DEF Counting
<1> QED BY <1>1, <1>2, <1>3, <1>4, TallyKept

LEMMA RefusalKeepsTally ==
  ASSUME TypeOK, FewAtWork, NEW q \in Request, NEW task, Slot(q, task), task.op # "after",
         UNCHANGED <<ride, stats, loop>>, NEW d \in Driver, Tally(d)
  PROVE  Tally(d)'
<1>1. Accepting(d)' \subseteq Accepting(d)
  BY NotAccepting
<1>2. Counting(d)' = Counting(d) /\ (Holding(d)' => Holding(d))
  BY DEF Counting, Holding, Offered
<1> QED BY <1>1, <1>2, TallyKept

(* The acceptance takes the driver's only offer off the market. *)
LEMMA AcceptKeepsTally ==
  ASSUME TypeOK, FewAtWork, OneActiveRidePerDriver,
         NEW q \in Request, NEW a \in Driver, NEW r \in Ride, Accept(q, a, r),
         NEW d \in Driver, Tally(d)
  PROVE  Tally(d)'
<1> DEFINE row  == [Moved(ride[r], "arriving") EXCEPT !.accepted = TRUE]
           task == [Idle EXCEPT !.op = "after", !.who = a, !.on = r, !.to = row.status]
<1>1. Put(r, row) /\ Slot(q, task) /\ UNCHANGED <<stats, loop>>
  BY DEF Accept, DriverMoves, Writes
<1>2. row.status = "arriving" /\ row.driver = a
  BY DEF Moved, Row, Accept, DriverMoves, TypeOK
<1>3. task.op = "after" /\ task.to = "arriving" /\ task.who = a
  BY <1>2 DEF Idle
<1>4. req[q].op = "idle" /\ Offered(a, r)
  BY DEF Accept, DriverMoves, Offered
<1>5. ride'[r] = row /\ \A s \in Ride \ {r} : ride'[s] = ride[s]
  BY <1>1 DEF Put, TypeOK
<1>6. req'[q] = task /\ \A p \in Request \ {q} : req'[p] = req[p]
  BY <1>1 DEF Slot, TypeOK
<1>7. Cardinality(Counting(d))' = Cardinality(Counting(d))
  BY <1>1 DEF Counting
<1>8. CASE d # a
  <2>1. Accepting(d)' \subseteq Accepting(d)
    BY <1>3, <1>6, <1>8 DEF Accepting
  <2>2. Holding(d)' => Holding(d)
    BY <1>2, <1>5, <1>8 DEF Holding, Offered
  <2>3. Counting(d)' = Counting(d)
    BY <1>1 DEF Counting
  <2> QED BY <1>1, <2>1, <2>2, <2>3, TallyKept
<1>9. CASE d = a
  <2>1. Holding(d)
    BY <1>4, <1>9 DEF Holding
  <2>2. ~Holding(d)'
    <3> SUFFICES ASSUME NEW s \in Ride, ride'[s].status = "requested", ride'[s].driver = d
                 PROVE  FALSE
      BY DEF Holding, Offered
    <3>1. s # r /\ ride[s].status = "requested" /\ ride[s].driver = d
      BY <1>2, <1>5
    <3> QED BY <1>4, <1>9, <3>1, NoOneAssumption DEF OneActiveRidePerDriver, Offered, Active
  <2>3. Accepting(d)' = Accepting(d) \cup {q} /\ q \notin Accepting(d)
    <3>1. req'[q].op = "after" /\ req'[q].to = "arriving" /\ req'[q].who = d
      BY <1>3, <1>6, <1>9
    <3>2. q \in Accepting(d)' /\ q \notin Accepting(d)
      BY <1>4, <3>1 DEF Accepting
    <3>3. \A p \in Request \ {q} : p \in Accepting(d)' <=> p \in Accepting(d)
      BY <1>6 DEF Accepting
    <3>4. Accepting(d)' \subseteq Request /\ Accepting(d) \subseteq Request
      BY DEF Accepting
    <3> QED BY <3>2, <3>3, <3>4
  <2>4. Cardinality(Accepting(d))' = Cardinality(Accepting(d)) + 1
    BY <2>3, CountsTyped, FS_AddElement
  <2>5. Uncounted(d)' = Uncounted(d)
    BY <2>1, <2>2, <2>4, CountsTyped DEF Uncounted
  <2>6. stats'[d] = stats[d]
    BY <1>1
  <2> QED BY <1>7, <2>5, <2>6 DEF Tally
<1> QED BY <1>8, <1>9

LEMMA AfterwardsKeepsTally ==
  ASSUME TypeOK, FewAtWork, NEW q \in Request, Afterwards(q), NEW d \in Driver, Tally(d)
  PROVE  Tally(d)'
<1>1. /\ req'[q] = Idle /\ \A p \in Request \ {q} : req'[p] = req[p]
      /\ UNCHANGED <<ride, loop>> /\ req[q] \in InFlight /\ req[q].op = "after"
  BY DEF Afterwards, Slot, TypeOK
<1>2. Counting(d)' = Counting(d) /\ Holding(d)' = Holding(d)
  BY <1>1 DEF Counting, Holding, Offered
<1>3. Accepting(d)' = Accepting(d) \ {q}
  BY <1>1 DEF Accepting, Idle
<1>4. CASE q \in Accepting(d)
  <2>1. req[q].to = "arriving" /\ req[q].who = d
    BY <1>4 DEF Accepting
  <2>2. stats' = [stats EXCEPT ![d].accepted = @ + 1]
    BY <2>1 DEF Afterwards
  <2>3. stats'[d].accepted = stats[d].accepted + 1 /\ stats'[d].offered = stats[d].offered
    BY <2>2 DEF TypeOK
  <2>4. Cardinality(Accepting(d))' = Cardinality(Accepting(d)) - 1
    <3>1. IsFiniteSet(Accepting(d))
      BY CountsTyped
    <3>2. Cardinality(Accepting(d) \ {q}) = Cardinality(Accepting(d)) - 1
      BY <1>4, <3>1, FS_RemoveElement
    <3> QED BY <1>3, <3>2
  <2>5. Uncounted(d)' = Uncounted(d) - 1
    BY <1>2, <2>4, CountsTyped DEF Uncounted
  <2>6. Uncounted(d) \in Nat
    BY CountsTyped DEF Uncounted
  <2> QED BY <1>2, <2>3, <2>5, <2>6, CountsTyped DEF Tally
<1>5. CASE q \notin Accepting(d)
  <2>1. stats'[d] = stats[d]
    <3>1. CASE req[q].to # "arriving"
      BY <3>1 DEF Afterwards
    <3>2. CASE req[q].to = "arriving"
      <4>1. req[q].who \in Driver /\ req[q].who # d
        BY <1>1, <1>5, <3>2 DEF Accepting, InFlight
      <4>2. stats' = [stats EXCEPT ![req[q].who].accepted = @ + 1]
        BY <3>2 DEF Afterwards
      <4> QED BY <4>1, <4>2 DEF TypeOK
    <3> QED BY <3>1, <3>2
  <2> QED BY <1>2, <1>3, <2>1, TallyKept
<1> QED BY <1>4, <1>5

(* An offer is out before it is counted, and its loop knows whom to count. *)
LEMMA OfferKeepsTally ==
  ASSUME TypeOK, FewAtWork, NEW m \in Matcher, Offer(m), NEW d \in Driver, Tally(d)
  PROVE  Tally(d)'
<1>1. PICK u \in loop[m].unassigned, o \in Driver :
        /\ Offered(NoOne, u.ride)
        /\ Put(u.ride, [ride[u.ride] EXCEPT !.driver = o])
        /\ Step(m, [loop[m] EXCEPT !.unassigned = Without(@, u.ride),
                                   !.busy = @ \cup {o}, !.uncounted = o])
  BY DEF Offer, Candidates
<1>2. loop[m].uncounted = NoOne /\ u.ride \in Ride
  BY PassFacts DEF Offer, At
<1>3. loop'[m].uncounted = o /\ \A n \in Matcher \ {m} : loop'[n] = loop[n]
  BY <1>1 DEF Step, TypeOK, Pass
<1>4. /\ ride'[u.ride] = [ride[u.ride] EXCEPT !.driver = o]
      /\ \A s \in Ride \ {u.ride} : ride'[s] = ride[s]
      /\ UNCHANGED <<stats, req>>
  BY <1>1, <1>2 DEF Put, Step, TypeOK
<1>5. Accepting(d)' = Accepting(d)
  BY <1>4 DEF Accepting
<1>6. CASE d # o
  <2>1. Counting(d)' = Counting(d)
    BY <1>2, <1>3, <1>6, NoOneAssumption DEF Counting
  <2>2. ride'[u.ride].driver # d
    BY <1>2, <1>4, <1>6 DEF TypeOK, Row
  <2>3. Holding(d)' => Holding(d)
    BY <1>4, <2>2 DEF Holding, Offered
  <2> QED BY <1>4, <1>5, <2>1, <2>3, TallyKept
<1>7. CASE d = o
  <2>1. Counting(d)' = Counting(d) \cup {m} /\ m \notin Counting(d)
    BY <1>2, <1>3, <1>7, NoOneAssumption DEF Counting
  <2>2. Cardinality(Counting(d))' = Cardinality(Counting(d)) + 1
    BY <2>1, CountsTyped, FS_AddElement
  <2>3. Uncounted(d)' <= Uncounted(d) + 1 /\ Uncounted(d)' \in Nat /\ Uncounted(d) \in Nat
    BY <1>5, CountsTyped DEF Uncounted
  <2> QED BY <1>4, <2>2, <2>3, CountsTyped DEF Tally
<1> QED BY <1>6, <1>7

LEMMA CountKeepsTally ==
  ASSUME TypeOK, FewAtWork, NEW m \in Matcher, CountOffer(m), NEW d \in Driver, Tally(d)
  PROVE  Tally(d)'
<1>1. loop'[m].uncounted = NoOne /\ \A n \in Matcher \ {m} : loop'[n] = loop[n]
  BY DEF CountOffer, TypeOK, Pass
<1>2. Accepting(d)' = Accepting(d) /\ Holding(d)' = Holding(d)
  BY DEF CountOffer, Accepting, Holding, Offered
<1>3. loop[m].uncounted \in Driver
  BY DEF CountOffer, TypeOK, Pass
<1>4. CASE loop[m].uncounted = d
  <2>1. Counting(d)' = Counting(d) \ {m} /\ m \in Counting(d)
    BY <1>1, <1>4, NoOneAssumption DEF Counting
  <2>2. Cardinality(Counting(d))' = Cardinality(Counting(d)) - 1
    <3>1. IsFiniteSet(Counting(d))
      BY CountsTyped
    <3>2. Cardinality(Counting(d) \ {m}) = Cardinality(Counting(d)) - 1
      BY <2>1, <3>1, FS_RemoveElement
    <3> QED BY <2>1, <3>2
  <2>3. stats'[d].offered = stats[d].offered + 1 /\ stats'[d].accepted = stats[d].accepted
    BY <1>4 DEF CountOffer, TypeOK
  <2>4. Uncounted(d)' = Uncounted(d) /\ Uncounted(d) \in Nat
    BY <1>2, CountsTyped DEF Uncounted
  <2> QED BY <2>2, <2>3, <2>4, CountsTyped DEF Tally
<1>5. CASE loop[m].uncounted # d
  <2>1. Counting(d)' = Counting(d)
    BY <1>1, <1>5, NoOneAssumption DEF Counting
  <2>2. stats'[d] = stats[d]
    BY <1>3, <1>5 DEF CountOffer, TypeOK
  <2> QED BY <1>2, <2>1, <2>2, TallyKept
<1> QED BY <1>4, <1>5

(* The other steps of the loop look, take back and cancel. *)
LEMMA TickKeepsTally ==
  ASSUME TypeOK, FewAtWork, NEW m \in Matcher, Tick(m), NEW d \in Driver, Tally(d)
  PROVE  Tally(d)'
<1>1. CASE Offer(m)
  BY <1>1, OfferKeepsTally
<1>2. CASE CountOffer(m)
  BY <1>2, CountKeepsTally
<1>3. ASSUME UNCHANGED <<stats, req>>, Counting(d)' = Counting(d), Holding(d)' => Holding(d)
      PROVE  Tally(d)'
  <2>1. Accepting(d)' = Accepting(d)
    BY <1>3 DEF Accepting
  <2> QED BY <1>3, <2>1, TallyKept
<1>4. loop[m] \in Pass
  BY DEF TypeOK
<1>5. CASE LogCancellation(m)
  <2>1. Counting(d)' = Counting(d)
    BY <1>4, <1>5 DEF LogCancellation, Counting, TypeOK, Pass
  <2>2. Holding(d)' = Holding(d)
    BY <1>5 DEF LogCancellation, Holding, Offered
  <2> QED BY <1>3, <1>5, <2>1, <2>2 DEF LogCancellation
<1>6. ASSUME NEW pass, Step(m, pass), pass.uncounted = loop[m].uncounted,
             Holding(d)' => Holding(d)
      PROVE  Tally(d)'
  BY <1>3, <1>6, SameCounting DEF Step
<1>7. CASE ExpireOffer(m)
  <2>1. PICK p \in loop[m].stale : /\ Put(p[1], Released(ride[p[1]], p[2]))
                                   /\ Step(m, [loop[m] EXCEPT !.stale = @ \ {p}])
    BY <1>7 DEF ExpireOffer
  <2>2. p[1] \in Ride /\ ride[p[1]] \in Row
    BY PassFacts DEF TypeOK
  <2>3. /\ Released(ride[p[1]], p[2]).driver = NoOne
        /\ Released(ride[p[1]], p[2]).status = ride[p[1]].status
    BY <2>2 DEF Released, Row
  <2>4. Holding(d)' => Holding(d)
    <3>1. ride'[p[1]].driver = NoOne /\ \A s \in Ride \ {p[1]} : ride'[s] = ride[s]
      BY <2>1, <2>2, <2>3 DEF Put, TypeOK
    <3> QED BY <3>1, NoOneAssumption DEF Holding, Offered
  <2>5. [loop[m] EXCEPT !.stale = @ \ {p}].uncounted = loop[m].uncounted
    BY <1>4 DEF Pass
  <2> QED BY <1>6, <2>1, <2>4, <2>5
<1>8. CASE CancelUndispatchable(m) \/ CancelStale(m)
  <2>1. PICK pass : Step(m, pass) /\ pass.uncounted = loop[m].uncounted
    <3>1. CASE CancelUndispatchable(m)
      <4>1. PICK u \in loop[m].unassigned :
              Step(m, [loop[m] EXCEPT !.unassigned = Without(@, u.ride), !.unlogged = u.ride])
        BY <3>1 DEF CancelUndispatchable
      <4>2. [loop[m] EXCEPT !.unassigned = Without(@, u.ride), !.unlogged = u.ride].uncounted
              = loop[m].uncounted
        BY <1>4 DEF Pass
      <4> QED BY <4>1, <4>2
    <3>2. CASE CancelStale(m)
      <4>1. PICK p \in loop[m].aged :
              \/ Step(m, [[loop[m] EXCEPT !.aged = @ \ {p}] EXCEPT !.unlogged = p[1]])
              \/ Step(m, [loop[m] EXCEPT !.aged = @ \ {p}])
        BY <3>2 DEF CancelStale
      <4>2. CASE Step(m, [[loop[m] EXCEPT !.aged = @ \ {p}] EXCEPT !.unlogged = p[1]])
        <5>1. [[loop[m] EXCEPT !.aged = @ \ {p}] EXCEPT !.unlogged = p[1]].uncounted
                = loop[m].uncounted
          BY <1>4 DEF Pass
        <5> QED BY <4>2, <5>1
      <4>3. CASE Step(m, [loop[m] EXCEPT !.aged = @ \ {p}])
        BY <1>4, <4>3 DEF Pass
      <4> QED BY <4>1, <4>2, <4>3
    <3> QED BY <1>8, <3>1, <3>2
  <2>2. \/ UNCHANGED ride
        \/ \E r \in Ride, row \in Row : Put(r, row) /\ row.status = "cancelled"
    <3>1. CASE CancelUndispatchable(m)
      <4>1. PICK u \in loop[m].unassigned :
              Put(u.ride, [Moved(ride[u.ride], "cancelled") EXCEPT !.reason = "no_drivers_available"])
        BY <3>1 DEF CancelUndispatchable
      <4>2. u.ride \in Ride /\ ride[u.ride] \in Row
        BY PassFacts DEF TypeOK
      <4>3. Moved(ride[u.ride], "cancelled") \in Row /\ Moved(ride[u.ride], "cancelled").status = "cancelled"
        BY <4>2, MovedIsRow DEF Moved, Row, Status, Terminal
      <4>4. [Moved(ride[u.ride], "cancelled") EXCEPT !.reason = "no_drivers_available"] \in Row
        BY <4>3 DEF Row
      <4>5. [Moved(ride[u.ride], "cancelled") EXCEPT !.reason = "no_drivers_available"].status
              = "cancelled"
        BY <4>3 DEF Row
      <4> QED BY <4>1, <4>2, <4>4, <4>5
    <3>2. CASE CancelStale(m)
      <4>1. PICK p \in loop[m].aged : \/ Put(p[1], Cancelled(ride[p[1]], "admin", "stale"))
                                      \/ UNCHANGED ride
        BY <3>2 DEF CancelStale
      <4>2. p[1] \in Ride /\ ride[p[1]] \in Row
        BY PassFacts DEF TypeOK
      <4>3. Cancelled(ride[p[1]], "admin", "stale") \in Row
        BY <4>2, CancelledIsRow
      <4>4. Moved(ride[p[1]], "cancelled") \in Row /\ Moved(ride[p[1]], "cancelled").status = "cancelled"
        BY <4>2, MovedIsRow DEF Moved, Row, Status, Terminal
      <4>5. Cancelled(ride[p[1]], "admin", "stale").status = "cancelled"
        BY <4>4 DEF Cancelled, Row
      <4> QED BY <4>1, <4>2, <4>3, <4>5
    <3> QED BY <1>8, <3>1, <3>2
  <2>3. Holding(d)' => Holding(d)
    BY <2>2 DEF Put, TypeOK, Holding, Offered
  <2> QED BY <1>6, <2>1, <2>3
<1>9. CASE UNCHANGED ride /\ ~CountOffer(m) /\ ~LogCancellation(m) /\ ~Offer(m)
  <2>1. Holding(d)' = Holding(d)
    BY <1>9 DEF Holding, Offered
  <2>4. CASE TickStart(m)
    BY <1>6, <2>1, <2>4 DEF TickStart, At, Resting
  <2>5. CASE OfferConflict(m) \/ TickEnd(m)
    BY <1>6, <2>1, <2>5 DEF OfferConflict, TickEnd, At, Resting
  <2>6. CASE ListUnassigned(m)
    BY <1>4, <1>6, <2>1, <2>6 DEF ListUnassigned, Pass
  <2>7. CASE ListBusy(m)
    BY <1>4, <1>6, <2>1, <2>7 DEF ListBusy, Pass
  <2>8. CASE NoOffer(m)
    BY <1>4, <1>6, <2>1, <2>8 DEF NoOffer, Pass
  <2>9. CASE ListAged(m)
    BY <1>4, <1>6, <2>1, <2>9 DEF ListAged, Pass
  <2> QED BY <1>7, <1>8, <1>9, <2>4, <2>5, <2>6, <2>7, <2>8, <2>9 DEF Tick
<1>10. \/ UNCHANGED ride \/ ExpireOffer(m) \/ Offer(m)
       \/ CancelUndispatchable(m) \/ CancelStale(m)
  BY DEF Tick, TickStart, ListUnassigned, ListBusy, CountOffer, OfferConflict, NoOffer, ListAged,
     LogCancellation, TickEnd
<1> QED BY <1>1, <1>2, <1>5, <1>7, <1>8, <1>9, <1>10

LEMMA RequestKeepsTally ==
  ASSUME TypeOK, FewAtWork, OneActiveRidePerDriver, NEW q \in Request,
         CustomerBegins(q) \/ DriverBegins(q) \/ Finishes(q),
         NEW d \in Driver, Tally(d)
  PROVE  Tally(d)'
<1>1. ASSUME NEW op, op # "after", NEW who, NEW r, Reads(q, op, who, r)
      PROVE  Tally(d)'
  <2> DEFINE task == [Idle EXCEPT !.op = op, !.who = who, !.on = r]
  <2>1. Slot(q, task) /\ task.op # "after" /\ UNCHANGED <<ride, stats, loop>>
    BY <1>1 DEF Reads, Idle
  <2> HIDE DEF task
  <2> QED BY <2>1, RefusalKeepsTally
<1>2. ASSUME Refused(q)
      PROVE  Tally(d)'
  <2>1. Slot(q, Idle) /\ Idle.op # "after" /\ UNCHANGED <<ride, stats, loop>>
    BY <1>2 DEF Refused, Idle
  <2> QED BY <2>1, RefusalKeepsTally
<1>3. ASSUME NEW who, NEW r \in Ride, NEW to \in Status \ {"arriving", "requested"},
             Writes(q, who, r, Moved(ride[r], to))
      PROVE  Tally(d)'
  <2>1. ride[r] \in Row
    BY DEF TypeOK
  <2>2. Moved(ride[r], to) \in Row /\ Moved(ride[r], to).status = to
    BY <2>1, MovedIsRow DEF Moved, Row
  <2> QED BY <1>3, <2>2, WriteKeepsTally
<1>4. CASE CustomerBegins(q)
  <2>1. ASSUME NEW c \in Rider, NEW r \in Ride, CustomerCancelRead(q, c, r)
        PROVE  Tally(d)'
    <3> DEFINE task == [Idle EXCEPT !.op = "cancel", !.who = c, !.on = r,
                                    !.late = ride[r].status # "requested"]
    <3>1. Slot(q, task) /\ task.op # "after" /\ UNCHANGED <<ride, stats, loop>>
      BY <2>1 DEF CustomerCancelRead, Idle
    <3> HIDE DEF task
    <3> QED BY <3>1, RefusalKeepsTally
  <2> QED BY <1>1, <1>4, <2>1 DEF CustomerBegins, CreateRead
<1>5. CASE DriverBegins(q)
  <2>1. PICK a \in Driver, r \in Ride :
          \/ IncomingRead(q, a, r) \/ RejectRead(q, a, r) \/ LocationRead(q, a, r)
          \/ Accept(q, a, r) \/ DriverCancel(q, a, r)
          \/ VerifyOtp(q, a, r) \/ EndRide(q, a, r)
    BY <1>5 DEF DriverBegins
  <2>2. CASE IncomingRead(q, a, r) \/ RejectRead(q, a, r) \/ LocationRead(q, a, r)
    BY <1>1, <2>2 DEF IncomingRead, RejectRead, LocationRead
  <2>3. CASE Accept(q, a, r)
    BY <2>3, AcceptKeepsTally
  <2>4. CASE DriverCancel(q, a, r)
    <3>1. ride[r] \in Row
      BY DEF TypeOK
    <3>2. Cancelled(ride[r], "driver", "driver") \in Row
      BY <3>1, CancelledIsRow
    <3>3. Cancelled(ride[r], "driver", "driver").status = "cancelled"
      BY <3>1 DEF Cancelled, Moved, Row
    <3> QED BY <2>4, <3>2, <3>3, WriteKeepsTally DEF DriverCancel, DriverMoves
  <2>5. CASE VerifyOtp(q, a, r) \/ EndRide(q, a, r)
    BY <1>3, <2>5 DEF VerifyOtp, EndRide, DriverMoves, Status, Active, Committed, Terminal
  <2> QED BY <2>1, <2>2, <2>3, <2>4, <2>5
<1>6. CASE CreateInsert(q)
  <2>1. req[q].who \in Rider
    BY <1>6 DEF CreateInsert, TypeOK, InFlight
  <2>2. /\ NewRow(req[q].who) \in Row /\ NewRow(req[q].who).status = "requested"
        /\ NewRow(req[q].who).driver = NoOne
    BY <2>1, NewRowIsRow DEF NewRow, NoRow
  <2> QED BY <1>2, <1>6, <2>2, WriteKeepsTally DEF CreateInsert
<1>7. CASE CustomerCancelCommit(q)
  <2> DEFINE r == req[q].on
             row == [Cancelled(ride[r], "customer", "customer") EXCEPT !.fee = req[q].late]
  <2>1. r \in Ride /\ req[q].late \in BOOLEAN
    BY <1>7 DEF CustomerCancelCommit, TypeOK, InFlight
  <2>2. ride[r] \in Row
    BY <2>1 DEF TypeOK
  <2>3. Cancelled(ride[r], "customer", "customer") \in Row
    BY <2>2, CancelledIsRow
  <2>4. Cancelled(ride[r], "customer", "customer").status = "cancelled"
    BY <2>2 DEF Cancelled, Moved, Row
  <2>5. row \in Row /\ row.status = "cancelled"
    BY <2>1, <2>3, <2>4 DEF Row
  <2> QED BY <1>2, <1>7, <2>1, <2>5, WriteKeepsTally DEF CustomerCancelCommit
<1>8. CASE ReleaseOffer(q)
  <2> DEFINE r == req[q].on
             row == Released(ride[r], req[q].who)
  <2>1. r \in Ride /\ Put(r, row) /\ Slot(q, Idle) /\ UNCHANGED <<stats, loop>>
    BY <1>8 DEF ReleaseOffer, TypeOK, InFlight
  <2>2. row.driver = NoOne /\ Idle.op # "after"
    BY <2>1 DEF Released, TypeOK, Row, Idle
  <2>3. ride'[r].driver = NoOne /\ \A s \in Ride \ {r} : ride'[s] = ride[s]
    BY <2>1, <2>2 DEF Put, TypeOK
  <2>4. Holding(d)' => Holding(d)
    BY <2>3, NoOneAssumption DEF Holding, Offered
  <2>5. Accepting(d)' \subseteq Accepting(d) /\ Counting(d)' = Counting(d)
    BY <2>1, <2>2, NotAccepting DEF Counting
  <2> QED BY <2>1, <2>4, <2>5, TallyKept
<1>9. CASE LocationArrive(q)
  <2>1. req[q].on \in Ride
    BY <1>9 DEF LocationArrive, TypeOK, InFlight
  <2> QED BY <1>2, <1>3, <1>9, <2>1 DEF LocationArrive, Status, Active, Committed
<1>10. CASE Afterwards(q)
  BY <1>10, AfterwardsKeepsTally
<1> QED BY <1>4, <1>5, <1>6, <1>7, <1>8, <1>9, <1>10 DEF Finishes

LEMMA TalliesStep ==
  ASSUME TypeOK, OneActiveRidePerDriver, Tallies, [Next]_vars
  PROVE  Tallies'
<1>1. FewAtWork'
  <2>1. ASSUME NEW q \in Request, CustomerBegins(q) \/ DriverBegins(q) \/ Finishes(q)
        PROVE  UNCHANGED loop /\ \E task : Slot(q, task)
    BY <2>1, ZenonT(60) DEF CustomerBegins, DriverBegins, Finishes, CreateRead,
       CustomerCancelRead, IncomingRead, RejectRead, LocationRead, Accept, DriverCancel,
       VerifyOtp, EndRide, DriverMoves, CreateInsert, CustomerCancelCommit, ReleaseOffer,
       LocationArrive, Afterwards, Reads, Writes, Refused
  <2>2. ASSUME NEW m \in Matcher, Tick(m)
        PROVE  UNCHANGED req /\ \E pass : loop' = [loop EXCEPT ![m] = pass]
    <3>1. CASE CountOffer(m) \/ LogCancellation(m)
      <4>1. \/ loop' = [loop EXCEPT ![m] = [loop[m] EXCEPT !.uncounted = NoOne]]
            \/ loop' = [loop EXCEPT ![m] = [loop[m] EXCEPT !.unlogged = NoOne]]
        BY <3>1 DEF CountOffer, LogCancellation, TypeOK
      <4> QED BY <3>1, <4>1 DEF CountOffer, LogCancellation
    <3>2. CASE ~(CountOffer(m) \/ LogCancellation(m))
      BY <2>2, <3>2, Zenon DEF Tick, TickStart, ExpireOffer, ListUnassigned, ListBusy, Offer,
         OfferConflict, NoOffer, CancelUndispatchable, ListAged, CancelStale, TickEnd, Step
    <3> QED BY <3>1, <3>2
  <2>3. CASE (\E r \in Ride : TimePasses(r)) \/ UNCHANGED vars
    BY <2>3, FewStep DEF TimePasses, vars, Tallies
  <2>4. CASE \E q \in Request : RequestFails(q)
    BY <2>4, FewStep DEF RequestFails, Tallies
  <2>5. CASE \E m \in Matcher : TickFails(m)
    BY <2>5, FewStep DEF TickFails, Tallies
  <2>6. CASE Crash
    BY <2>6, FewStep DEF Crash, Tallies
  <2> QED BY <2>1, <2>2, <2>3, <2>4, <2>5, <2>6, FewStep DEF Next, Tallies
<1>2. ASSUME faults' = 0, NEW d \in Driver
      PROVE  Tally(d)'
  <2>1. faults \in Nat /\ MaxFaults \in Nat
    BY FaultsAssumption DEF TypeOK
  <2>2. ~Crash /\ (\A q \in Request : ~RequestFails(q)) /\ (\A m \in Matcher : ~TickFails(m))
    BY <1>2, <2>1 DEF Crash, RequestFails, TickFails, Faulty
  <2>3. faults = 0
    <3>1. ASSUME NEW q \in Request, CustomerBegins(q) \/ DriverBegins(q) \/ Finishes(q)
          PROVE  UNCHANGED faults
      BY <3>1, RequestTyped
    <3>2. ASSUME NEW m \in Matcher, Tick(m)
          PROVE  UNCHANGED faults
      BY <3>2 DEF Tick, TickStart, ExpireOffer, ListUnassigned, ListBusy, Offer, CountOffer,
         OfferConflict, NoOffer, CancelUndispatchable, ListAged, CancelStale, LogCancellation,
         TickEnd, Step
    <3> QED BY <1>2, <2>2, <3>1, <3>2 DEF Next, TimePasses, vars
  <2>4. FewAtWork /\ Tally(d)
    BY <2>3 DEF Tallies
  <2>5. CASE (\E r \in Ride : TimePasses(r)) \/ UNCHANGED vars
    <3>1. UNCHANGED <<stats, req, loop>>
      BY <2>5 DEF TimePasses, vars
    <3>2. Accepting(d)' = Accepting(d) /\ Counting(d)' = Counting(d)
      BY <3>1 DEF Accepting, Counting
    <3>3. Holding(d)' => Holding(d)
      <4>1. \A r \in Ride : ride'[r].status = ride[r].status /\ ride'[r].driver = ride[r].driver
        BY <2>5 DEF TimePasses, Put, vars, TypeOK, Row
      <4> QED BY <4>1 DEF Holding, Offered
    <3> QED BY <2>4, <3>1, <3>2, <3>3, TallyKept
  <2> QED BY <2>2, <2>4, <2>5, RequestKeepsTally, TickKeepsTally DEF Next
<1> QED BY <1>1, <1>2 DEF Tallies

LEMMA InitTallies == Init => Tallies
<1> SUFFICES ASSUME Init PROVE Tallies
  OBVIOUS
<1>1. /\ {q \in Request : req[q].op # "idle"} = {}
      /\ {m \in Matcher : loop[m].uncounted # NoOne} = {}
  BY DEF Init, Idle, Resting
<1>2. FewAtWork
  BY <1>1, FS_EmptySet DEF FewAtWork
<1>3. ASSUME NEW d \in Driver
      PROVE  Tally(d)
  <2>1. Accepting(d) = {} /\ Counting(d) = {} /\ ~Holding(d)
    BY NoOneAssumption DEF Init, Accepting, Counting, Holding, Offered, Idle, Resting, NoRow
  <2>2. Cardinality({}) = 0
    BY FS_EmptySet
  <2>3. stats[d].accepted = 0 /\ stats[d].offered = 0
    BY DEF Init
  <2> QED BY <2>1, <2>2, <2>3 DEF Tally, Uncounted
<1> QED BY <1>2, <1>3 DEF Tallies

(* For any number of drivers, rides, overlapping requests and API processes,  *)
(* a driver whose offers have been counted has accepted no more of them.      *)
THEOREM AcceptancesAreAnswers == Spec => []AcceptanceRateIsAShare
<1>1. TypeOK /\ Tallies => AcceptanceRateIsAShare
  <2> SUFFICES ASSUME TypeOK, Tallies, NEW d \in Driver, faults = 0,
                      \A m \in Matcher : loop[m].uncounted # d
               PROVE  stats[d].accepted <= stats[d].offered
    BY DEF AcceptanceRateIsAShare
  <2>1. Counting(d) = {}
    BY DEF Counting
  <2>2. Cardinality(Counting(d)) = 0
    BY <2>1, FS_EmptySet
  <2>3. FewAtWork /\ Tally(d)
    BY DEF Tallies
  <2>4. Uncounted(d) \in Nat
    BY <2>3, CountsTyped DEF Uncounted
  <2> QED BY <2>2, <2>3, <2>4, CountsTyped DEF Tally
<1>2. TypeOK /\ OneActiveRidePerDriver /\ Tallies /\ [Next]_vars => Tallies'
  BY TalliesStep
<1> QED BY <1>1, <1>2, InitTallies, TypeCorrect, DriverExclusion, PTL DEF Spec
=============================================================================
