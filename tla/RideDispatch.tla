---------------------------- MODULE RideDispatch ----------------------------
(***************************************************************************)
(* The dispatch core of the TRYLO API: table Ride in PostgreSQL, the HTTP  *)
(* handlers of customers and drivers that write it, and the matching loop, *)
(* all interleaving at every awaited database statement.                   *)
(*                                                                         *)
(* One action is one statement (or one transaction).  A handler of several *)
(* statements keeps what it has read in a request slot q until its last    *)
(* statement; whatever happened in between, it acts on what it read.       *)
(* Checks that only refuse a request (bad input, suspended account, fare   *)
(* that does not verify) are the request not being made.  Scores, radius   *)
(* and eligibility of candidates are abstracted: any driver that is        *)
(* neither busy nor excluded may or may not be a candidate.  Pushes and     *)
(* notifications are left out.                                              *)
(***************************************************************************)
EXTENDS Naturals

CONSTANTS Rider, Driver, Ride,
          Request,       \* slots for HTTP requests in flight
          Matcher,       \* API processes running startMatchingLoop
          NoOne,         \* null
          MaxAttempts,   \* MAX_MATCH_ATTEMPTS
          MaxFaults     \* bound on restarts and failing statements

ASSUME AttemptsAssumption == MaxAttempts \in Nat \ {0}
ASSUME FaultsAssumption  == MaxFaults \in Nat
ASSUME NoOneAssumption    == NoOne \notin Rider \cup Driver \cup Ride

VARIABLES ride,      \* table Ride
          history,   \* table RideStatusHistory: rows per ride and status
          stats,     \* offeredCount and acceptedCount of each driver
          req,       \* what each request in flight has read or still has to do
          loop,      \* the same for each matching loop
          faults    \* restarts and failures so far

vars == <<ride, history, stats, req, loop, faults>>

-----------------------------------------------------------------------------
(* Statuses and rows *)

Committed   == {"arriving", "arrived", "in_progress"}
Active      == {"requested", "matched"} \cup Committed
Cancellable == {"requested", "matched", "arriving"}
Terminal    == {"completed", "cancelled"}
Status      == {"none"} \cup Active \cup Terminal

(* due: the deadline the status carries has passed - offerExpiresAt while an  *)
(* offer is out, the STALE_*_MS window while the ride is committed.           *)
(* excluded, attempts: the members and the length of excludedDriverIds, the   *)
(* length counted up to MaxAttempts, where it stops mattering.                *)
(* accepted: acceptedAt is set.  fee: the late-fee branch was taken.          *)
(* been: a history variable, every status ever written to the row; no action  *)
(* reads it.                                                                  *)
Row == [status   : Status,
        rider    : Rider \cup {NoOne},
        driver   : Driver \cup {NoOne},
        due      : BOOLEAN,
        excluded : SUBSET Driver,
        attempts : 0 .. MaxAttempts,
        accepted : BOOLEAN,
        been     : SUBSET Status,
        fee      : BOOLEAN,
        by       : {"none", "customer", "driver", "admin"},
        reason   : {"none", "customer", "driver", "no_drivers_available", "stale"}]

NoRow == [status |-> "none", rider |-> NoOne, driver |-> NoOne, due |-> FALSE,
          excluded |-> {}, attempts |-> 0, accepted |-> FALSE, been |-> {},
          fee |-> FALSE, by |-> "none", reason |-> "none"]

NewRow(c) == [NoRow EXCEPT !.status = "requested", !.rider = c, !.been = {"requested"}]

(* Mutations: the migration that created the unique indexes is not applied.  *)
RiderIndexMissing(r, c)  == TRUE
DriverIndexMissing(r, d) == TRUE

(* The partial unique indexes Ride_one_active_per_rider and _per_driver: may *)
(* row r become an active row of rider c, of driver d?                       *)
RiderIndexAllows(r, c) ==
  \A s \in Ride \ {r} : ride[s].status \in Active => ride[s].rider # c

DriverIndexAllows(r, d) ==
  \A s \in Ride \ {r} : ride[s].status \in Active => ride[s].driver # d

(* Mutation: the withdrawal puts the ride back on the market as well. *)
ReleasedReopening(row, d) ==
  [row EXCEPT !.driver   = NoOne,
              !.status   = "requested",
              !.due      = FALSE,
              !.excluded = @ \cup {d},
              !.attempts = IF @ < MaxAttempts THEN @ + 1 ELSE @]

(* The UPDATE by id that takes an offer back from driver d: its WHERE names   *)
(* neither the status nor the driver, so it applies whatever the row is now.  *)
Released(row, d) ==
  [row EXCEPT !.driver   = NoOne,
              !.due      = IF row.status = "requested" THEN FALSE ELSE row.due,
              !.excluded = @ \cup {d},
              !.attempts = IF @ < MaxAttempts THEN @ + 1 ELSE @]

Moved(row, to) == [row EXCEPT !.status = to, !.due = FALSE, !.been = @ \cup {to}]

Cancelled(row, who, why) ==
  [Moved(row, "cancelled") EXCEPT !.by = who, !.reason = why]

-----------------------------------------------------------------------------
(* Requests in flight *)

Idle == [op |-> "idle", who |-> NoOne, on |-> NoOne, late |-> FALSE, to |-> "none"]

(* late: the cancellation read a late status.  to: the status just written,   *)
(* whose history row is still to be inserted.                                 *)
InFlight ==
  {task \in [op   : {"idle", "create", "cancel", "release", "arrive", "after"},
             who  : Rider \cup Driver \cup {NoOne},
             on   : Ride \cup {NoOne},
             late : BOOLEAN,
             to   : Status] :
    /\ task.op = "create" => task.who \in Rider
    /\ task.op \in {"release", "arrive"} \/ task.to = "arriving" => task.who \in Driver
    /\ task.op \notin {"idle", "create"} => task.on \in Ride}

Put(r, row) == ride' = [ride EXCEPT ![r] = row]
Slot(q, task) == req' = [req EXCEPT ![q] = task]

(* A request reads and keeps what it has read. *)
Reads(q, op, who, r) ==
  /\ req[q].op = "idle"
  /\ Slot(q, [Idle EXCEPT !.op = op, !.who = who, !.on = r])
  /\ UNCHANGED <<ride, history, stats, loop, faults>>

(* A status write commits; what follows it in the handler is Afterwards. *)
Writes(q, who, r, row) ==
  /\ Put(r, row)
  /\ Slot(q, [Idle EXCEPT !.op = "after", !.who = who, !.on = r, !.to = row.status])
  /\ UNCHANGED <<history, stats, loop, faults>>

(* The write matched no row: count is 0 and the handler only answers. *)
Refused(q) == Slot(q, Idle) /\ UNCHANGED <<ride, history, stats, loop, faults>>

(* recordRideStatus and, after an acceptance, acceptedCount + 1. *)
Afterwards(q) ==
  LET task == req[q] IN
  /\ task.op = "after"
  /\ history' = [history EXCEPT ![task.on][task.to] = @ + 1]
  /\ stats' = IF task.to = "arriving"
                THEN [stats EXCEPT ![task.who].accepted = @ + 1]
                ELSE stats
  /\ Slot(q, Idle)
  /\ UNCHANGED <<ride, loop, faults>>

-----------------------------------------------------------------------------
(* Customer handlers *)

(* POST /customer/rides: look for an active ride of this rider ... *)
CreateRead(q, c) ==
  /\ \A r \in Ride : ride[r].rider = c => ride[r].status \notin Active
  /\ Reads(q, "create", c, NoOne)

(* ... then INSERT; the unique index turns a duplicate into a 409. *)
CreateInsert(q) ==
  LET c == req[q].who IN
  /\ req[q].op = "create"
  /\ \E r \in Ride :
       /\ ride[r].status = "none"
       /\ IF RiderIndexAllows(r, c) THEN Writes(q, c, r, NewRow(c)) ELSE Refused(q)

(* Mutation: a ride that is merely offered to a driver already counts as late. *)
CustomerCancelReadOffered(q, c, r) ==
  /\ ride[r].rider = c
  /\ req[q].op = "idle"
  /\ Slot(q, [Idle EXCEPT !.op = "cancel", !.who = c, !.on = r,
                          !.late = ride[r].driver # NoOne])
  /\ UNCHANGED <<ride, history, stats, loop, faults>>

(* POST /customer/rides/:id/cancel: isLateCancellation of the status read ... *)
CustomerCancelRead(q, c, r) ==
  /\ ride[r].rider = c
  /\ req[q].op = "idle"
  /\ Slot(q, [Idle EXCEPT !.op = "cancel", !.who = c, !.on = r,
                          !.late = ride[r].status # "requested"])
  /\ UNCHANGED <<ride, history, stats, loop, faults>>

(* ... then one transaction: the guarded UPDATE and, if late, the fee. *)
CustomerCancelCommit(q) ==
  LET r == req[q].on IN
  /\ req[q].op = "cancel"
  /\ IF ride[r].status \in Cancellable
       THEN Writes(q, req[q].who, r,
                   [Cancelled(ride[r], "customer", "customer") EXCEPT !.fee = req[q].late])
       ELSE Refused(q)

-----------------------------------------------------------------------------
(* Driver handlers *)

Offered(d, r) == ride[r].status = "requested" /\ ride[r].driver = d

(* GET /driver/requests/incoming, when the offer it finds has expired ... *)
IncomingRead(q, d, r) == Offered(d, r) /\ ride[r].due /\ Reads(q, "release", d, r)

(* ... or POST /driver/requests/:rideId/reject, when it finds the offer ... *)
RejectRead(q, d, r) == Offered(d, r) /\ Reads(q, "release", d, r)

(* ... then takes the offer back. *)
ReleaseOffer(q) ==
  LET r == req[q].on IN
  /\ req[q].op = "release"
  /\ Put(r, Released(ride[r], req[q].who))
  /\ Slot(q, Idle)
  /\ UNCHANGED <<history, stats, loop, faults>>

(* One guarded UPDATE by the ride's driver, then the rest of the handler. *)
DriverMoves(q, d, r, from, row) ==
  /\ req[q].op = "idle"
  /\ ride[r].driver = d /\ ride[r].status \in from
  /\ Writes(q, d, r, row)

(* Mutation: an accept that is sent again is taken for another one. *)
AcceptAgain(q, d, r) ==
  DriverMoves(q, d, r, {"requested", "arriving"},
              [Moved(ride[r], "arriving") EXCEPT !.accepted = TRUE])

(* POST /driver/requests/:rideId/accept; the expiry of the offer is not looked at. *)
Accept(q, d, r) ==
  DriverMoves(q, d, r, {"requested"},
              [Moved(ride[r], "arriving") EXCEPT !.accepted = TRUE])

(* POST /driver/rides/:rideId/cancel *)
DriverCancel(q, d, r) ==
  DriverMoves(q, d, r, {"arriving", "arrived"}, Cancelled(ride[r], "driver", "driver"))

(* POST /driver/rides/:rideId/verify-otp with the right code *)
VerifyOtp(q, d, r) ==
  DriverMoves(q, d, r, {"arriving", "arrived"}, Moved(ride[r], "in_progress"))

(* POST /driver/rides/:rideId/end, one transaction; Settlement has its payments. *)
EndRide(q, d, r) ==
  DriverMoves(q, d, r, {"in_progress"}, Moved(ride[r], "completed"))

(* POST /driver/location: the ping that confirms arrival reads the active ride ... *)
LocationRead(q, d, r) ==
  /\ ride[r].driver = d /\ ride[r].status = "arriving"
  /\ Reads(q, "arrive", d, r)

(* Mutation: the UPDATE by id only, as two overlapping pings would both do. *)
LocationArriveUnguarded(q) ==
  /\ req[q].op = "arrive"
  /\ Writes(q, req[q].who, req[q].on, Moved(ride[req[q].on], "arrived"))

(* ... then UPDATEs it WHERE status = "arriving", whoever its driver is by now. *)
LocationArrive(q) ==
  LET r == req[q].on IN
  /\ req[q].op = "arrive"
  /\ IF ride[r].status = "arriving"
       THEN Writes(q, req[q].who, r, Moved(ride[r], "arrived"))
       ELSE Refused(q)

-----------------------------------------------------------------------------
(* The matching loop: one tick is a pass over three lists it reads in turn.  *)

(* stale: offers read as expired.  unassigned: rides read without a driver,   *)
(* with the exclusions read.  busy: drivers tied up.  aged: (ride, status)    *)
(* pairs read as past their window.  uncounted: the driver of the offer just  *)
(* made.  unlogged: the ride just cancelled.                                  *)
Resting == [pc |-> "idle", stale |-> {}, unassigned |-> {}, busy |-> {},
            aged |-> {}, uncounted |-> NoOne, unlogged |-> NoOne]

Unassigned == [ride : Ride, excluded : SUBSET Driver, full : BOOLEAN]

Pass == [pc         : {"idle", "expiring", "listed", "offering", "sweeping"},
         stale      : SUBSET (Ride \X Driver),
         unassigned : SUBSET Unassigned,
         busy       : SUBSET Driver,
         aged       : SUBSET (Ride \X Committed),
         uncounted  : Driver \cup {NoOne},
         unlogged   : Ride \cup {NoOne}]

(* The loop is at pc and the statement before has been followed up. *)
At(m, pc) ==
  loop[m].pc = pc /\ loop[m].uncounted = NoOne /\ loop[m].unlogged = NoOne

Step(m, pass) ==
  loop' = [loop EXCEPT ![m] = pass] /\ UNCHANGED <<history, stats, req, faults>>

(* Mutation: the comparison with offerExpiresAt is the wrong way round. *)
TickStartUnexpired(m) ==
  /\ At(m, "idle")
  /\ Step(m, [Resting EXCEPT
       !.pc = "expiring",
       !.stale = {p \in Ride \X Driver : Offered(p[2], p[1]) /\ ~ride[p[1]].due}])
  /\ UNCHANGED ride

(* Reads the expired offers; running keeps ticks of one process from overlapping. *)
TickStart(m) ==
  /\ At(m, "idle")
  /\ Step(m, [Resting EXCEPT
       !.pc = "expiring",
       !.stale = {p \in Ride \X Driver : Offered(p[2], p[1]) /\ ride[p[1]].due}])
  /\ UNCHANGED ride

(* expireStaleOffers, one iteration *)
ExpireOffer(m) ==
  \E p \in loop[m].stale :
    /\ Put(p[1], Released(ride[p[1]], p[2]))
    /\ Step(m, [loop[m] EXCEPT !.stale = @ \ {p}])

(* offerUnassignedRides: the unassigned rides ... *)
ListUnassigned(m) ==
  /\ At(m, "expiring") /\ loop[m].stale = {}
  /\ Step(m, [loop[m] EXCEPT
       !.pc = "listed",
       !.unassigned = {[ride |-> r, excluded |-> ride[r].excluded,
                        full |-> ride[r].attempts >= MaxAttempts] :
                       r \in {s \in Ride : Offered(NoOne, s)}}])
  /\ UNCHANGED ride

(* ... and the drivers offered or on a ride. *)
ListBusy(m) ==
  /\ At(m, "listed")
  /\ Step(m, [loop[m] EXCEPT
       !.pc = "offering",
       !.busy = {d \in Driver : \E r \in Ride : /\ ride[r].status \in Active
                                                /\ ride[r].driver = d}])
  /\ UNCHANGED ride

Without(list, r) == {v \in list : v.ride # r}

Candidates(m, u) == Driver \ (loop[m].busy \cup u.excluded)

(* The guarded UPDATE of an offer takes effect; offeredCount is next. *)
Offer(m) ==
  /\ At(m, "offering")
  /\ \E u \in loop[m].unassigned : \E d \in Candidates(m, u) :
       /\ ~u.full
       /\ Offered(NoOne, u.ride) /\ DriverIndexAllows(u.ride, d)
       /\ Put(u.ride, [ride[u.ride] EXCEPT !.driver = d])
       /\ Step(m, [loop[m] EXCEPT !.unassigned = Without(@, u.ride),
                                  !.busy = @ \cup {d}, !.uncounted = d])

CountOffer(m) ==
  /\ loop[m].uncounted # NoOne
  /\ stats' = [stats EXCEPT ![loop[m].uncounted].offered = @ + 1]
  /\ loop' = [loop EXCEPT ![m].uncounted = NoOne]
  /\ UNCHANGED <<ride, history, req, faults>>

(* The driver index refuses the UPDATE: the exception ends the tick. *)
OfferConflict(m) ==
  /\ At(m, "offering")
  /\ \E u \in loop[m].unassigned : \E d \in Candidates(m, u) :
       ~u.full /\ Offered(NoOne, u.ride) /\ ~DriverIndexAllows(u.ride, d)
  /\ Step(m, Resting)
  /\ UNCHANGED ride

(* No candidate in any radius, or the ride has moved on: the next one. *)
NoOffer(m) ==
  /\ At(m, "offering")
  /\ \E u \in loop[m].unassigned :
       /\ ~u.full
       /\ Step(m, [loop[m] EXCEPT !.unassigned = Without(@, u.ride)])
  /\ UNCHANGED ride

(* An UPDATE by id: status and reason are overwritten whatever they are now. *)
CancelUndispatchable(m) ==
  /\ At(m, "offering")
  /\ \E u \in loop[m].unassigned :
       /\ u.full
       /\ Put(u.ride, [Moved(ride[u.ride], "cancelled") EXCEPT
                         !.reason = "no_drivers_available"])
       /\ Step(m, [loop[m] EXCEPT !.unassigned = Without(@, u.ride),
                                  !.unlogged = u.ride])

(* Mutation: the sweep forgets the rides whose driver is on the way. *)
ListAgedOnceArrived(m) ==
  /\ At(m, "offering") /\ loop[m].unassigned = {}
  /\ Step(m, [loop[m] EXCEPT
       !.pc = "sweeping",
       !.busy = {},
       !.aged = {p \in Ride \X {"arrived", "in_progress"} :
                   ride[p[1]].status = p[2] /\ ride[p[1]].due}])
  /\ UNCHANGED ride

(* expireStaleActiveRides: the rides past the window of their status ... *)
ListAged(m) ==
  /\ At(m, "offering") /\ loop[m].unassigned = {}
  /\ Step(m, [loop[m] EXCEPT
       !.pc = "sweeping",
       !.busy = {},
       !.aged = {p \in Ride \X Committed : /\ ride[p[1]].status = p[2]
                                           /\ ride[p[1]].due}])
  /\ UNCHANGED ride

(* Mutation: the sweep cancels by id, whatever status the ride has by now. *)
CancelStaleUnguarded(m) ==
  /\ At(m, "sweeping")
  /\ \E p \in loop[m].aged :
       /\ Put(p[1], Cancelled(ride[p[1]], "admin", "stale"))
       /\ Step(m, [loop[m] EXCEPT !.aged = @ \ {p}, !.unlogged = p[1]])

(* ... each cancelled only if it still has the status observed. *)
CancelStale(m) ==
  /\ At(m, "sweeping")
  /\ \E p \in loop[m].aged :
       LET rest == [loop[m] EXCEPT !.aged = @ \ {p}] IN
       IF ride[p[1]].status = p[2]
         THEN /\ Put(p[1], Cancelled(ride[p[1]], "admin", "stale"))
              /\ Step(m, [rest EXCEPT !.unlogged = p[1]])
         ELSE Step(m, rest) /\ UNCHANGED ride

(* recordRideStatus after either cancellation *)
LogCancellation(m) ==
  /\ loop[m].unlogged # NoOne
  /\ history' = [history EXCEPT ![loop[m].unlogged]["cancelled"] = @ + 1]
  /\ loop' = [loop EXCEPT ![m].unlogged = NoOne]
  /\ UNCHANGED <<ride, stats, req, faults>>

TickEnd(m) ==
  /\ At(m, "sweeping") /\ loop[m].aged = {}
  /\ Step(m, Resting)
  /\ UNCHANGED ride

-----------------------------------------------------------------------------
(* Environment *)

(* The 15 s of an offer, or the hours a committed ride is given, run out. *)
TimePasses(r) ==
  /\ ~ride[r].due
  /\ \/ ride[r].status = "requested" /\ ride[r].driver # NoOne
     \/ ride[r].status \in Committed
  /\ Put(r, [ride[r] EXCEPT !.due = TRUE])
  /\ UNCHANGED <<history, stats, req, loop, faults>>

Faulty == faults < MaxFaults /\ faults' = faults + 1

(* A statement throws in a handler, which ends there ... *)
RequestFails(q) ==
  /\ req[q].op # "idle"
  /\ Faulty
  /\ Slot(q, Idle)
  /\ UNCHANGED <<ride, history, stats, loop>>

(* ... or in the loop, which catches it and waits for the next tick. *)
TickFails(m) ==
  /\ loop[m].pc # "idle"
  /\ Faulty
  /\ loop' = [loop EXCEPT ![m] = Resting]
  /\ UNCHANGED <<ride, history, stats, req>>

(* The process restarts: requests in flight and the tick are lost. *)
Crash ==
  /\ Faulty
  /\ req'  = [q \in Request |-> Idle]
  /\ loop' = [m \in Matcher |-> Resting]
  /\ UNCHANGED <<ride, history, stats>>

-----------------------------------------------------------------------------
Init ==
  /\ ride    = [r \in Ride |-> NoRow]
  /\ history = [r \in Ride |-> [s \in Status |-> 0]]
  /\ stats   = [d \in Driver |-> [offered |-> 0, accepted |-> 0]]
  /\ req     = [q \in Request |-> Idle]
  /\ loop    = [m \in Matcher |-> Resting]
  /\ faults = 0

CustomerBegins(q) ==
  \E c \in Rider : \/ CreateRead(q, c)
                   \/ \E r \in Ride : CustomerCancelRead(q, c, r)

DriverBegins(q) ==
  \E d \in Driver, r \in Ride :
    \/ IncomingRead(q, d, r) \/ RejectRead(q, d, r) \/ LocationRead(q, d, r)
    \/ Accept(q, d, r) \/ DriverCancel(q, d, r)
    \/ VerifyOtp(q, d, r) \/ EndRide(q, d, r)

Finishes(q) ==
  \/ CreateInsert(q) \/ CustomerCancelCommit(q)
  \/ ReleaseOffer(q) \/ LocationArrive(q) \/ Afterwards(q)

Tick(m) ==
  \/ TickStart(m) \/ ExpireOffer(m) \/ ListUnassigned(m) \/ ListBusy(m)
  \/ Offer(m) \/ CountOffer(m) \/ OfferConflict(m) \/ NoOffer(m)
  \/ CancelUndispatchable(m) \/ ListAged(m) \/ CancelStale(m)
  \/ LogCancellation(m) \/ TickEnd(m)

Next ==
  \/ \E q \in Request : CustomerBegins(q) \/ DriverBegins(q) \/ Finishes(q)
  \/ \E m \in Matcher : Tick(m)
  \/ \E r \in Ride : TimePasses(r)
  \/ \E q \in Request : RequestFails(q)
  \/ \E m \in Matcher : TickFails(m)
  \/ Crash

Spec == Init /\ [][Next]_vars

(* Handlers that have begun finish, setInterval keeps ticking, time passes; *)
(* no user is obliged to do anything and no candidate need ever exist.      *)
FairSpec ==
  /\ Spec
  /\ \A q \in Request : WF_vars(Finishes(q))
  /\ \A m \in Matcher : WF_vars(Tick(m))
  /\ \A r \in Ride : WF_vars(TimePasses(r))
-----------------------------------------------------------------------------
(* Properties *)

(* Type correctness of the table, the request slots and the matching loops. *)
TypeOK ==
  /\ ride \in [Ride -> Row]
  /\ req \in [Request -> InFlight]
  /\ loop \in [Matcher -> Pass]
  /\ history \in [Ride -> [Status -> Nat]]
  /\ stats \in [Driver -> [offered : Nat, accepted : Nat]]
  /\ faults \in 0 .. MaxFaults

(* However many creates of one rider overlap, at most one of that rider's    *)
(* rides is active (customerRide.routes.ts:97-148).                          *)
OneActiveRidePerRider ==
  \A r, s \in Ride :
    /\ r # s
    /\ ride[r].status \in Active /\ ride[s].status \in Active
    => ride[r].rider # ride[s].rider

(* No driver holds two offers or rides at once, even when the busy set a     *)
(* tick has read is out of date (matcher.ts:165-210).                        *)
OneActiveRidePerDriver ==
  \A r, s \in Ride :
    /\ r # s
    /\ ride[r].status \in Active /\ ride[s].status \in Active
    /\ ride[r].driver # NoOne
    => ride[r].driver # ride[s].driver

Lifecycle == INSTANCE RideLifecycle
               WITH status <- [r \in Ride |-> ride[r].status],
                    rider  <- [r \in Ride |-> ride[r].rider],
                    by     <- [r \in Ride |-> ride[r].by]

(* Stale reads and unguarded writes notwithstanding, every ride follows the  *)
(* status machine and nobody ends it from a status they may not end it from. *)
ImplementsLifecycle == Lifecycle!Spec

(* Once a driver has accepted, the ride is never handed to another driver,   *)
(* by whatever offer, withdrawal or rejection is still in flight.            *)
NeverReassigned ==
  [][\A r \in Ride : ride[r].accepted =>
                        ride'[r].driver \in {ride[r].driver, NoOne}]_vars

(* A rider pays a late fee only for a ride some driver had accepted: the     *)
(* status may have moved since it was read, never back to "requested".       *)
NoFeeBeforeAcceptance == \A r \in Ride : ride[r].fee => ride[r].accepted

(* The audit trail invents nothing and repeats nothing: a ride has rows only  *)
(* for the statuses that were written to it at some time (been), and at most *)
(* one row for each; "cancelled" alone may be logged again                   *)
(* (rideHistory.ts:5-12).                                                    *)
HistoryIsFaithful ==
  \A r \in Ride, s \in Status :
    /\ history[r][s] > 0 => s \in ride[r].been
    /\ s # "cancelled" => history[r][s] <= 1

(* The acceptance rate that scores a candidate is a share: unless a failure   *)
(* has kept an offer from being counted, a driver whose offers are counted    *)
(* has accepted no more than those, although each counter is incremented      *)
(* after the write it counts, by another process (matcher.ts:129-132).        *)
AcceptanceRateIsAShare ==
  \A d \in Driver :
    faults = 0 /\ (\A m \in Matcher : loop[m].uncounted # d)
      => stats[d].accepted <= stats[d].offered

(* An offer nobody answers is taken back, so a silent driver never holds a   *)
(* ride for good (matcher.ts:95-110).                                        *)
SilentOfferIsWithdrawn ==
  \A r \in Ride, d \in Driver : Offered(d, r) ~> ~Offered(d, r)

(* A ride a driver has accepted ends, whatever phones die and even if its    *)
(* driver was taken off it: the sweep closes it (matcher.ts:215-283).        *)
CommittedRideEnds ==
  \A r \in Ride : ride[r].status \in Committed ~> ride[r].status \in Terminal
=============================================================================
