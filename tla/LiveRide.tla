------------------------------ MODULE LiveRide ------------------------------
(***************************************************************************)
(* One ride as its rider's app or its driver's app follows it: the pages   *)
(* shown, the answers kept in the cache, the polls that renew them and the *)
(* pushes that overtake the polls.  The apps meet in the row only, so a    *)
(* behaviour follows one of them and the other one's requests come when    *)
(* they like.  The server's side of a step is one statement here:          *)
(* RideDispatch takes it apart.  A push may come late, out of order or not *)
(* at all, which stands for rooms not yet joined, lost connections and     *)
(* restarts.                                                               *)
(***************************************************************************)
EXTENDS Naturals

CONSTANTS MaxFaults,   \* bound on requests whose answer is lost
          MaxReloads   \* bound on reloads of the two apps

(* providers.tsx:15, retry: 1 - a query that fails twice is given up, which   *)
(* is not modelled.                                                          *)
ASSUME BoundsAssumption == MaxFaults \in {0, 1} /\ MaxReloads \in Nat

VARIABLES ride,    \* the status of the row; "unassigned": cancelled without a driver
          push,    \* the ride:updated pushes under way to the app followed
          rider,   \* page; activeRideId known; caches activeRide and rideStatus
          fetch,   \* the rider's GET /rides/active in flight
          poll,    \* the rider's GET /rides/:id/status in flight
          order,   \* the rider's POST in flight, with its answer
          driver,  \* page; cache activeDriverRide, and whether it is fresh; summary
          query,   \* the driver's GET /rides/active in flight
          task,    \* the driver's POST in flight, with its answer
          faults,  \* answers lost so far
          reloads

riderVars  == <<rider, fetch, poll, order>>
driverVars == <<driver, query, task>>
lvars      == <<ride, push, riderVars, driverVars, faults, reloads>>

Moving    == {"arriving", "arrived", "in_progress"}
Cancelled == {"cancelled", "unassigned"}
Over      == Cancelled \cup {"completed"}

(* Mutation: a waiting driver is no reason to take the rider back.           *)
RidersActiveNow == ride \in {"requested", "arriving", "in_progress"}

(* ACTIVE_STATUSES *)
RidersActive == ride \in Moving \cup {"requested"}

Idle == [at |-> "idle", value |-> "none"]
Asked(q) == q.at = "asked"
Answered(q) == q.at = "answer"
Ask == [at |-> "asked", value |-> "none"]
Answer(value) == [at |-> "answer", value |-> value]

(* The row moves and both rooms are told; a push that is never taken is lost. *)
Becomes(status) == ride' = status /\ push' = push \cup {status}

Steps == [accept |-> [from |-> {"requested"},           to |-> "arriving"],
          verify |-> [from |-> {"arrived"},             to |-> "in_progress"],
          end    |-> [from |-> {"in_progress"},         to |-> "completed"],
          cancel |-> [from |-> {"arriving", "arrived"}, to |-> "cancelled"]]

(* The guarded UPDATE of a driver's request. *)
DriverMoves(kind) == ride \in Steps[kind].from /\ Becomes(Steps[kind].to)

(* The rider's: a requested ride may have been offered already, or not yet.  *)
RiderMoves ==
  \/ ride = "requested" /\ \E end \in Cancelled : Becomes(end)
  \/ ride = "arriving" /\ Becomes("cancelled")
-----------------------------------------------------------------------------
(* What else moves the row: position reports, the matcher and its sweep, the *)
(* side that is not followed                                                 *)

ArrivesAtPickup == ride = "arriving" /\ Becomes("arrived")
                   /\ UNCHANGED <<riderVars, driverVars, faults, reloads>>
NoDrivers       == ride = "requested" /\ Becomes("unassigned")
                   /\ UNCHANGED <<riderVars, driverVars, faults, reloads>>
SweptUp         == ride \in Moving /\ Becomes("cancelled")
                   /\ UNCHANGED <<riderVars, driverVars, faults, reloads>>

OtherSideMoves ==
  /\ \/ driver.page = "unfollowed" /\ \E kind \in DOMAIN Steps : DriverMoves(kind)
     \/ rider.page = "unfollowed" /\ RiderMoves
     \/ rider.page = "unfollowed" /\ ride = "none" /\ ride' = "requested" /\ UNCHANGED push
  /\ UNCHANGED <<riderVars, driverVars, faults, reloads>>
-----------------------------------------------------------------------------
(* The rider's app *)

Watching == rider.page \in {"matching", "ride"} /\ rider.current
Known(cache) == cache \notin {"unknown", "null"}
RedirectDue == rider.page = "home" /\ Known(rider.active)

RiderPushed(status) ==
  /\ status \in push /\ Watching
  /\ rider' = [rider EXCEPT !.shown = status]
  /\ push' = push \ {status}
  /\ UNCHANGED <<ride, fetch, poll, order, driverVars, faults, reloads>>

(* Mutation: once pushes are to be expected the polls end. *)
StartPollOnce ==
  /\ Watching /\ poll = Idle /\ rider.shown \in {"unknown", "requested"}
  /\ poll' = Ask
  /\ UNCHANGED <<ride, push, rider, fetch, order, driverVars, faults, reloads>>

(* Every second, until the ride is over. *)
StartPoll ==
  /\ Watching /\ poll = Idle /\ rider.shown \notin Over
  /\ poll' = Ask
  /\ UNCHANGED <<ride, push, rider, fetch, order, driverVars, faults, reloads>>

ReadStatus ==
  /\ Asked(poll) /\ poll' = Answer(ride)
  /\ UNCHANGED <<ride, push, rider, fetch, order, driverVars, faults, reloads>>

(* The answer overwrites whatever came since it was read. *)
ShowStatus ==
  /\ Answered(poll)
  /\ rider' = [rider EXCEPT !.shown = poll.value] /\ poll' = Idle
  /\ UNCHANGED <<ride, push, fetch, order, driverVars, faults, reloads>>

(* A first request is repeated; after that the next poll is the repetition.  *)
PollLost ==
  /\ poll # Idle /\ faults < MaxFaults
  /\ poll' = IF rider.shown = "unknown" THEN Ask ELSE Idle
  /\ faults' = faults + 1
  /\ UNCHANGED <<ride, push, rider, fetch, order, driverVars, reloads>>

(* GET /active: on mount when the cache is empty or old, on focus. *)
FetchActive ==
  /\ fetch = Idle
  /\ \/ rider.page = "home"
     \/ rider.page \in {"matching", "ride"} /\ ~rider.current
  /\ fetch' = Ask
  /\ UNCHANGED <<ride, push, rider, poll, order, driverVars, faults, reloads>>

ReadActive ==
  /\ Asked(fetch)
  /\ fetch' = Answer(CASE ~RidersActive      -> "null"
                       [] ride = "requested" -> "requested"
                       [] OTHER              -> "under_way")
  /\ UNCHANGED <<ride, push, rider, poll, order, driverVars, faults, reloads>>

KeepActive ==
  /\ Answered(fetch)
  /\ rider' = [rider EXCEPT !.active = fetch.value] /\ fetch' = Idle
  /\ UNCHANGED <<ride, push, poll, order, driverVars, faults, reloads>>

ActiveLost ==
  /\ fetch # Idle /\ faults < MaxFaults
  /\ fetch' = Ask /\ faults' = faults + 1
  /\ UNCHANGED <<ride, push, rider, poll, order, driverVars, reloads>>

(* The effects of /home, and of /matching and /ride without an activeRideId. *)
HomeRedirects ==
  /\ RedirectDue
  /\ rider' = [rider EXCEPT !.current = TRUE,
                 !.page = IF rider.active = "requested" THEN "matching" ELSE "ride"]
  /\ UNCHANGED <<ride, push, fetch, poll, order, driverVars, faults, reloads>>

Rehydrate ==
  /\ rider.page \in {"matching", "ride"} /\ ~rider.current /\ rider.active # "unknown"
  /\ rider' = IF rider.active = "null" THEN [rider EXCEPT !.page = "home"]
                                       ELSE [rider EXCEPT !.current = TRUE]
  /\ UNCHANGED <<ride, push, fetch, poll, order, driverVars, faults, reloads>>

GoTo(page) == rider' = [rider EXCEPT !.page = page]
              /\ UNCHANGED <<ride, push, fetch, poll, order, driverVars, faults, reloads>>
GoHome == [rider EXCEPT !.page = "home", !.current = FALSE]

OpenBooking == rider.page = "home" /\ ~RedirectDue /\ GoTo("booking")
BackHome    == rider.page \in {"booking", "away"} /\ GoTo("home")
(* /wallet, /profile, /history and /notifications. *)
GoAway      == /\ \/ rider.page = "home" /\ ~RedirectDue
                  \/ rider.page = "complete"
               /\ GoTo("away")
(* A driver is shown, with the ride at whatever stage. *)
Track == /\ rider.page = "matching" /\ rider.current /\ order = Idle
         /\ rider.shown \in Moving \cup {"cancelled", "completed"}
         /\ GoTo("ride")

ShowReceipt == rider.page = "ride" /\ rider.current /\ rider.shown = "completed"
               /\ GoTo("complete")

TellCancelled ==
  /\ rider.page = "ride" /\ rider.current /\ rider.shown \in Cancelled
  /\ rider' = GoHome
  /\ UNCHANGED <<ride, push, fetch, poll, order, driverVars, faults, reloads>>

(* Submit & go home, or Skip. *)
LeaveReceipt ==
  /\ rider.page = "complete"
  /\ rider' = GoHome
  /\ UNCHANGED <<ride, push, fetch, poll, order, driverVars, faults, reloads>>

(* One ride is followed: a rider whose ride is over books no other one.      *)
Book ==
  /\ rider.page = "booking" /\ order = Idle /\ ride \notin Over
  /\ order' = [at |-> "asked", value |-> "create"]
  /\ UNCHANGED <<ride, push, rider, fetch, poll, driverVars, faults, reloads>>

Create ==
  /\ Asked(order) /\ order.value = "create"
  /\ ride' = IF ride = "none" THEN "requested" ELSE ride
  /\ order' = IF ride = "none" THEN Answer("created") ELSE Idle
  /\ UNCHANGED <<push, rider, fetch, poll, driverVars, faults, reloads>>

Created ==
  /\ Answered(order) /\ order.value = "created"
  /\ rider' = [page |-> "matching", current |-> TRUE, active |-> "requested",
               shown |-> "requested"]
  /\ order' = Idle
  /\ UNCHANGED <<ride, push, fetch, poll, driverVars, faults, reloads>>

CancelTap ==
  /\ Watching /\ order = Idle
  /\ \/ rider.shown \in {"requested", "arriving"}
     \/ rider.page = "matching" /\ rider.shown = "unknown"
  /\ order' = [at |-> "asked", value |-> "cancel"]
  /\ UNCHANGED <<ride, push, rider, fetch, poll, driverVars, faults, reloads>>

RiderCancels ==
  /\ Asked(order) /\ order.value = "cancel"
  /\ \/ RiderMoves
     \/ ride \notin {"requested", "arriving"} /\ UNCHANGED <<ride, push>>
  /\ order' = IF ride \in {"requested", "arriving"} \cup Cancelled
                THEN Answer(ride') ELSE Idle
  /\ UNCHANGED <<rider, fetch, poll, driverVars, faults, reloads>>

(* Both pages end on /home: /matching goes there itself, /ride through the   *)
(* status that the answer puts into the cache.                               *)
RiderCancelled ==
  /\ Answered(order) /\ order.value \in Cancelled
  /\ rider' = [rider EXCEPT !.active = "null", !.shown = order.value,
                 !.page = IF @ = "matching" THEN "home" ELSE @,
                 !.current = @ /\ rider.page # "matching"]
  /\ order' = Idle
  /\ UNCHANGED <<ride, push, fetch, poll, driverVars, faults, reloads>>

OrderLost ==
  /\ order # Idle /\ faults < MaxFaults
  /\ order' = Idle /\ faults' = faults + 1
  /\ UNCHANGED <<ride, push, rider, fetch, poll, driverVars, reloads>>

(* A reload loses the store and the caches and stays on a page that can do   *)
(* without them; a new launch is one of /home.                               *)
RiderReloads ==
  /\ rider.page # "unfollowed" /\ reloads < MaxReloads /\ reloads' = reloads + 1
  /\ \E page \in {"home"} \cup ({rider.page} \cap {"matching", "ride"}) :
       rider' = [page |-> page, current |-> FALSE, active |-> "unknown", shown |-> "unknown"]
  /\ fetch' = Idle /\ poll' = Idle /\ order' = Idle
  /\ UNCHANGED <<ride, push, driverVars, faults>>
-----------------------------------------------------------------------------
(* The driver's app *)

InHand == Known(driver.ride)

DriverPushed(status) ==
  /\ status \in push /\ InHand
  /\ driver' = [driver EXCEPT !.ride = status, !.fresh = TRUE]
  /\ push' = push \ {status}
  /\ UNCHANGED <<ride, riderVars, query, task, faults, reloads>>

(* Every two seconds while there is a ride that is not over. *)
StartQuery ==
  /\ query = Idle /\ driver.ride \notin Over \cup {"null"} /\ driver.page # "unfollowed"
  /\ query' = Ask
  /\ UNCHANGED <<ride, push, riderVars, driver, task, faults, reloads>>

ReadDriversRide ==
  /\ Asked(query) /\ query' = Answer(IF ride \in Moving THEN ride ELSE "null")
  /\ UNCHANGED <<ride, push, riderVars, driver, task, faults, reloads>>

KeepDriversRide ==
  /\ Answered(query)
  /\ driver' = [driver EXCEPT !.ride = query.value, !.fresh = TRUE] /\ query' = Idle
  /\ UNCHANGED <<ride, push, riderVars, task, faults, reloads>>

QueryLost ==
  /\ query # Idle /\ faults < MaxFaults
  /\ query' = IF driver.ride = "unknown" THEN Ask ELSE Idle
  /\ faults' = faults + 1
  /\ UNCHANGED <<ride, push, riderVars, driver, task, reloads>>

(* staleTime is over; only a ride that is polled no more can grow that old.  *)
CacheAges ==
  /\ driver.ride \in Over /\ driver.fresh
  /\ driver' = [driver EXCEPT !.fresh = FALSE]
  /\ UNCHANGED <<ride, push, riderVars, query, task, faults, reloads>>

(* Mounting a page fetches again what is old. *)
DriverTo(page) ==
  /\ driver' = [driver EXCEPT !.page = page, !.summary = FALSE]
  /\ query' = IF driver.fresh \/ query # Idle THEN query ELSE Ask
  /\ UNCHANGED <<ride, push, riderVars, task, faults, reloads>>

DashboardRedirects == driver.page = "dashboard" /\ InHand /\ DriverTo("ride")

(* The effects of the ride page: nothing in hand, or cancelled by the other side. *)
RidePageEmpty == driver.page = "ride" /\ ~InHand /\ ~driver.summary /\ DriverTo("dashboard")

(* Mutation: the page looks for the end of the trip only. *)
RidePageCompleted == driver.page = "ride" /\ driver.ride = "completed" /\ ~driver.summary
                     /\ DriverTo("dashboard")

RidePageCancelled == driver.page = "ride" /\ driver.ride \in Cancelled
                     /\ DriverTo("dashboard")

SummaryDone == driver.summary /\ DriverTo("dashboard")

(* What the driver can ask for, and the answer's way into the cache. *)
TakeUp(kind) ==
  /\ task = Idle /\ ~driver.summary
  /\ task' = [at |-> "asked", value |-> kind]
  /\ UNCHANGED <<ride, push, riderVars, driver, query, faults, reloads>>

(* An accept is repeated while the offer is still on the screen. *)
AcceptTap == driver.page = "dashboard" /\ driver.ride = "null"
             /\ ride \in {"requested", "arriving"} /\ TakeUp("accept")
VerifyTap == driver.page = "ride" /\ driver.ride = "arrived" /\ TakeUp("verify")
EndTap    == driver.page = "ride" /\ driver.ride = "in_progress" /\ TakeUp("end")
DriverCancelTap == driver.page = "ride" /\ driver.ride \in {"arriving", "arrived"}
                   /\ TakeUp("cancel")

(* The guarded UPDATE of each route; an accept that succeeded before is      *)
(* answered like the first one.                                              *)
DoTask ==
  /\ Asked(task)
  /\ \/ DriverMoves(task.value) /\ task' = Answer(ride')
     \/ /\ ride \notin Steps[task.value].from /\ UNCHANGED <<ride, push>>
        /\ task' = IF task.value = "accept" /\ ride = "arriving"
                     THEN Answer("arriving") ELSE Idle
  /\ UNCHANGED <<riderVars, driver, query, faults, reloads>>

TaskDone ==
  /\ Answered(task) /\ task' = Idle
  /\ driver' = CASE task.value = "arriving"    -> [driver EXCEPT !.ride = "arriving", !.page = "ride"]
                 [] task.value = "in_progress" -> [driver EXCEPT !.ride = "in_progress"]
                 [] task.value = "completed"   -> [driver EXCEPT !.ride = "null", !.summary = TRUE]
                 [] task.value = "cancelled"   -> [driver EXCEPT !.ride = "null", !.page = "dashboard"]
  /\ UNCHANGED <<ride, push, riderVars, query, faults, reloads>>

TaskLost ==
  /\ task # Idle /\ faults < MaxFaults
  /\ task' = Idle /\ faults' = faults + 1
  /\ UNCHANGED <<ride, push, riderVars, driver, query, reloads>>

DriverReloads ==
  /\ driver.page # "unfollowed" /\ reloads < MaxReloads /\ reloads' = reloads + 1
  /\ driver' = [page |-> "dashboard", ride |-> "unknown", fresh |-> TRUE, summary |-> FALSE]
  /\ query' = Idle /\ task' = Idle
  /\ UNCHANGED <<ride, push, riderVars, faults>>
-----------------------------------------------------------------------------
(* One of the apps is followed; the other one has no state here.             *)
Init ==
  /\ ride = "none" /\ push = {}
  /\ rider \in [page : {"home", "unfollowed"}, current : {FALSE}, active : {"unknown"},
                shown : {"unknown"}]
  /\ driver \in [page : {"dashboard", "unfollowed"}, ride : {"unknown"}, fresh : {TRUE},
                 summary : {FALSE}]
  /\ (rider.page = "unfollowed") # (driver.page = "unfollowed")
  /\ fetch = Idle /\ poll = Idle /\ order = Idle
  /\ query = Idle /\ task = Idle /\ faults = 0 /\ reloads = 0

RideStatusQuery == StartPoll \/ ReadStatus \/ ShowStatus
ActiveRideQuery == ReadActive \/ KeepActive \/ (rider.active = "unknown" /\ FetchActive)
RiderEffects    == HomeRedirects \/ Rehydrate \/ ShowReceipt \/ TellCancelled
DriverRideQuery == StartQuery \/ ReadDriversRide \/ KeepDriversRide
DriverEffects   == DashboardRedirects \/ RidePageEmpty \/ RidePageCancelled

RowNext == ArrivesAtPickup \/ NoDrivers \/ SweptUp \/ OtherSideMoves

RiderNext ==
  \/ \E status \in Moving \cup Over : RiderPushed(status)
  \/ RideStatusQuery \/ PollLost \/ FetchActive \/ ReadActive \/ KeepActive \/ ActiveLost
  \/ RiderEffects \/ OpenBooking \/ BackHome \/ GoAway \/ Track \/ LeaveReceipt
  \/ Book \/ Create \/ Created \/ CancelTap \/ RiderCancels \/ RiderCancelled \/ OrderLost
  \/ RiderReloads

DriverNext ==
  \/ \E status \in Moving \cup Over : DriverPushed(status)
  \/ DriverRideQuery \/ QueryLost \/ CacheAges \/ DriverEffects \/ SummaryDone
  \/ AcceptTap \/ VerifyTap \/ EndTap \/ DriverCancelTap \/ DoTask \/ TaskDone \/ TaskLost
  \/ DriverReloads

Next == RowNext \/ RiderNext \/ DriverNext

Spec == Init /\ [][Next]_lvars

(* Queries are sent and answered, effects run after a render, time passes.   *)
FairSpec ==
  /\ Spec
  /\ WF_lvars(RideStatusQuery) /\ WF_lvars(ActiveRideQuery) /\ WF_lvars(RiderEffects)
  /\ WF_lvars(DriverRideQuery) /\ WF_lvars(DriverEffects) /\ WF_lvars(CacheAges)
-----------------------------------------------------------------------------
Requests(values) == {Idle, Ask} \cup {Answer(v) : v \in values}

(* Row, caches and requests keep their types; nobody sees the end of a trip  *)
(* that is not over: neither the receipt nor the driver's summary.           *)
TypeOK ==
  /\ ride \in {"none", "requested"} \cup Moving \cup Over
  /\ push \in SUBSET (Moving \cup Over)
  /\ rider \in [page : {"home", "booking", "matching", "ride", "complete", "away",
                         "unfollowed"},
                current : BOOLEAN, active : {"unknown", "null", "requested", "under_way"},
                shown : {"unknown", "none", "requested"} \cup Moving \cup Over]
  /\ fetch \in Requests({"null", "requested", "under_way"})
  /\ poll \in Requests({"none", "requested"} \cup Moving \cup Over)
  /\ order \in Requests({"created"} \cup Cancelled)
       \cup [at : {"asked"}, value : {"create", "cancel"}]
  /\ driver \in [page : {"dashboard", "ride", "unfollowed"},
                 ride : {"unknown", "null"} \cup Moving \cup Over,
                 fresh : BOOLEAN, summary : BOOLEAN]
  /\ query \in Requests({"null"} \cup Moving)
  /\ task \in Requests(Moving \cup Over) \cup [at : {"asked"}, value : DOMAIN Steps]
  /\ faults \in 0..MaxFaults /\ reloads \in 0..MaxReloads
  /\ (rider.page = "complete" \/ driver.summary) => ride = "completed"

(* The page of a ride shows its row in the end, whatever pushes were lost or *)
(* overtaken and whichever old answer was the last (useRide.ts:31).          *)
RiderSeesTheRide == []<>(~Watching \/ rider.shown = ride)

(* A refresh in the middle of a ride leads back to it (matching/page.tsx:47, *)
(* ride/page.tsx:85, home/page.tsx:39), unless the rider goes elsewhere.     *)
RefreshKeepsTheRide ==
  LET alive == ride \in Moving \cup {"requested"} IN
  (rider.page # "unfollowed" /\ rider.active = "unknown" /\ fetch = Idle /\ alive)
    ~> (rider.current \/ ~alive \/ rider.page \in {"booking", "away"})

(* A ride cancelled by whomever lets its driver go: no page of it and no     *)
(* trace in the cache, though a cancelled ride is polled no more.            *)
DriverIsReleased ==
  (driver.page # "unfollowed" /\ ride \in Cancelled)
    ~> (driver.page = "dashboard" /\ driver.ride = "null")
=============================================================================
