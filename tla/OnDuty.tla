------------------------------- MODULE OnDuty -------------------------------
(***************************************************************************)
(* One driver on duty: the online switch of the dashboard, the connections *)
(* the server counts and the timers it starts when the last one is lost,   *)
(* the position reports, which keep the driver in the matcher's reach and  *)
(* notice the arrival at the pickup, and an admin who suspends the driver  *)
(* while requests are in flight.  Of the ride there is what these need.    *)
(***************************************************************************)
EXTENDS Naturals

CONSTANTS Ping,       \* position reports in flight
          Timer,      \* offline timers of disconnections
          MaxSockets, \* bound on connections at a time
          Required,   \* REQUIRED_ARRIVAL_CONFIRMATIONS
          MaxRestarts \* bound on restarts of the server

ASSUME RequiredAssumption == Required \in Nat \ {0}
ASSUME BoundsAssumption == MaxSockets \in Nat /\ MaxRestarts \in Nat

VARIABLES row,     \* Driver: isOnline, suspended, location younger than 45 s
          count,   \* driverConnectionCounts
          timer,   \* timers of disconnections, in memory
          app,     \* the dashboard: open, and isOnline in its cache
          toggle,  \* POST /status in flight
          poll,    \* GET /dashboard in flight
          ping,    \* POST /location in flight
          ride,    \* the ride offered to the driver: status, confirmations
          accept,  \* POST /accept in flight
          pick,    \* the matcher has read this driver as a candidate
          restarts

VARIABLES run,      \* (history) confirmations since a report from outside
          confirmed,\* (history) enough of them came in a row
          exempt    \* (history) what was under way when the driver was suspended

presence == <<count, timer>>
screen   == <<app, toggle, poll>>
trip     == <<ping, ride, run, confirmed>>
match    == <<accept, pick>>
dvars    == <<row, presence, screen, trip, match, restarts, exempt>>

NoToggle == [at |-> "idle", to |-> FALSE]
NoPoll   == [at |-> "idle", value |-> FALSE, stale |-> FALSE]
NoRide   == [status |-> "none", confirmations |-> 0]
Refetch  == [NoPoll EXCEPT !.at = "asked"]

(* The WHERE of the candidate search, for a verified driver. *)
Eligible == row.isOnline /\ ~row.suspended /\ row.fresh
OnTrip == ride.status \in {"arriving", "arrived"}

(* With a ride in hand the app shows the ride page instead.                  *)
OnDashboard == app.open /\ ~OnTrip
-----------------------------------------------------------------------------
(* Connections: realtime/io.ts *)

Connect ==
  /\ app.open /\ count < MaxSockets
  /\ count' = count + 1
  /\ UNCHANGED <<row, timer, screen, trip, match, restarts, exempt>>

(* The last disconnection starts a timer, and leaves older ones running. *)
Disconnect ==
  /\ count > 0
  /\ count' = count - 1
  /\ IF count' > 0 THEN UNCHANGED timer
     ELSE \E t \in Timer : timer[t] = "off" /\ timer' = [timer EXCEPT ![t] = "ticking"]
  /\ UNCHANGED <<row, screen, trip, match, restarts, exempt>>

TimerFires(t) ==
  /\ timer[t] = "ticking"
  /\ timer' = [timer EXCEPT ![t] = IF count > 0 THEN "off" ELSE "writing"]
  /\ UNCHANGED <<row, count, screen, trip, match, restarts, exempt>>

TimerWrites(t) ==
  /\ timer[t] = "writing"
  /\ row' = [row EXCEPT !.isOnline = FALSE]
  /\ timer' = [timer EXCEPT ![t] = "off"]
  /\ UNCHANGED <<count, screen, trip, match, restarts, exempt>>
-----------------------------------------------------------------------------
(* The switch: useSetOnlineStatus, POST /status, useDashboardSummary *)

OpenApp ==
  /\ ~app.open /\ toggle = NoToggle
  /\ app' = [app EXCEPT !.open = TRUE] /\ poll' = Refetch
  /\ UNCHANGED <<row, presence, toggle, trip, match, restarts, exempt>>

CloseApp ==
  /\ app.open
  /\ app' = [open |-> FALSE, isOnline |-> FALSE] /\ poll' = NoPoll
  /\ UNCHANGED <<row, presence, toggle, trip, match, restarts, exempt>>

(* onMutate cancels a poll in flight and shows the new value at once. *)
Toggle(next) ==
  /\ OnDashboard /\ toggle = NoToggle /\ next # app.isOnline
  /\ toggle' = [at |-> IF next THEN "check" ELSE "write", to |-> next]
  /\ app' = [app EXCEPT !.isOnline = next] /\ poll' = NoPoll
  /\ UNCHANGED <<row, presence, trip, match, restarts, exempt>>

(* onError puts the old value back; onSettled fetches again, which drops a   *)
(* poll in flight.                                                           *)
Settled(value) ==
  /\ toggle' = NoToggle
  /\ app' = IF app.open THEN [app EXCEPT !.isOnline = value] ELSE app
  /\ poll' = IF OnDashboard THEN Refetch ELSE poll

StatusCheck ==
  /\ toggle.at = "check"
  /\ IF row.suspended THEN Settled(~toggle.to)
     ELSE toggle' = [toggle EXCEPT !.at = "write"] /\ UNCHANGED <<app, poll>>
  /\ UNCHANGED <<row, presence, trip, match, restarts, exempt>>

StatusWrite ==
  /\ toggle.at = "write"
  /\ row' = [row EXCEPT !.isOnline = toggle.to]
  /\ toggle' = [toggle EXCEPT !.at = "answer"]
  /\ poll' = [poll EXCEPT !.stale = poll.at = "answer"]
  /\ exempt' = exempt \ {"toggle"}
  /\ UNCHANGED <<presence, app, trip, match, restarts>>

(* Mutation: no refetch once the request has settled. *)
StatusAnswerAlone ==
  /\ toggle.at = "answer"
  /\ toggle' = NoToggle
  /\ UNCHANGED <<app, poll>>
  /\ UNCHANGED <<row, presence, trip, match, restarts, exempt>>

StatusAnswer ==
  /\ toggle.at = "answer"
  /\ Settled(app.isOnline)
  /\ UNCHANGED <<row, presence, trip, match, restarts, exempt>>

ToggleFails ==
  /\ toggle # NoToggle
  /\ Settled(~toggle.to)
  /\ exempt' = exempt \ {"toggle"}
  /\ UNCHANGED <<row, presence, trip, match, restarts>>

(* Mutation: the summary is fetched when the page opens only. *)
SummaryPollOnce == FALSE /\ UNCHANGED dvars

SummaryPoll ==
  /\ OnDashboard /\ poll = NoPoll
  /\ poll' = Refetch
  /\ UNCHANGED <<row, presence, app, toggle, trip, match, restarts, exempt>>

SummaryRead ==
  /\ poll.at = "asked"
  /\ poll' = [poll EXCEPT !.at = "answer", !.value = row.isOnline]
  /\ UNCHANGED <<row, presence, app, toggle, trip, match, restarts, exempt>>

SummaryAnswer ==
  /\ poll.at = "answer"
  /\ app' = [app EXCEPT !.isOnline = poll.value]
  /\ poll' = NoPoll
  /\ UNCHANGED <<row, presence, toggle, trip, match, restarts, exempt>>
-----------------------------------------------------------------------------
(* Position reports: POST /location *)

(* The app reports while it is online or has a ride in hand. *)
Report(p) ==
  /\ app.open /\ (app.isOnline \/ OnTrip) /\ ping[p] = "idle"
  /\ row' = [row EXCEPT !.fresh = TRUE]
  /\ ping' = [ping EXCEPT ![p] = "ride"]
  /\ UNCHANGED <<presence, screen, ride, run, confirmed, match, restarts, exempt>>

(* Confirmations matter up to Required: the count stops there.              *)
OneMore(n) == IF n < Required THEN n + 1 ELSE n

Done(p) == ping' = [ping EXCEPT ![p] = "idle"]
Goes(p, at) == ping' = [ping EXCEPT ![p] = at]

(* A report too vague to tell is ignored, as is one without an arriving ride. *)
ReportRide(p, where) ==
  /\ ping[p] = "ride"
  /\ IF ride.status # "arriving" \/ where = "vague" THEN Done(p)
     ELSE Goes(p, IF where = "inside" THEN "increment" ELSE "reset")
  /\ UNCHANGED <<row, presence, screen, ride, run, confirmed, match, restarts, exempt>>

Increment(p) ==
  /\ ping[p] = "increment"
  /\ IF ride.status = "arriving"
       THEN /\ ride' = [ride EXCEPT !.confirmations = OneMore(@)]
            /\ run' = OneMore(run)
            /\ confirmed' = (confirmed \/ run' = Required)
       ELSE UNCHANGED <<ride, run, confirmed>>
  /\ Goes(p, "count")
  /\ UNCHANGED <<row, presence, screen, match, restarts, exempt>>

CountConfirmations(p) ==
  /\ ping[p] = "count"
  /\ IF ride.status = "arriving" /\ ride.confirmations >= Required
       THEN Goes(p, "arrive") ELSE Done(p)
  /\ UNCHANGED <<row, presence, screen, ride, run, confirmed, match, restarts, exempt>>

Arrive(p) ==
  /\ ping[p] = "arrive"
  /\ ride' = IF ride.status = "arriving" THEN [ride EXCEPT !.status = "arrived"] ELSE ride
  /\ Done(p)
  /\ UNCHANGED <<row, presence, screen, run, confirmed, match, restarts, exempt>>

(* Mutation: the reset is decided from the row the report read at the start, *)
(* when nothing had been counted yet.                                        *)
ResetNothing(p) ==
  /\ ping[p] = "reset"
  /\ run' = 0
  /\ Done(p)
  /\ UNCHANGED <<row, presence, screen, ride, confirmed, match, restarts, exempt>>

Reset(p) ==
  /\ ping[p] = "reset"
  /\ ride' = IF ride.status = "arriving" THEN [ride EXCEPT !.confirmations = 0] ELSE ride
  /\ run' = 0
  /\ Done(p)
  /\ UNCHANGED <<row, presence, screen, confirmed, match, restarts, exempt>>

ReportFails(p) ==
  /\ ping[p] # "idle"
  /\ Done(p)
  /\ UNCHANGED <<row, presence, screen, ride, run, confirmed, match, restarts, exempt>>

(* LOCATION_STALE_MS have passed since the last report. *)
LocationAges ==
  /\ row.fresh
  /\ row' = [row EXCEPT !.fresh = FALSE]
  /\ UNCHANGED <<presence, screen, trip, match, restarts, exempt>>
-----------------------------------------------------------------------------
(* The ride, and the admin *)

Pick ==
  /\ ride = NoRide /\ ~pick /\ Eligible
  /\ pick' = TRUE
  /\ UNCHANGED <<row, presence, screen, trip, accept, restarts, exempt>>

Offer ==
  /\ pick
  /\ ride' = [NoRide EXCEPT !.status = "offered"]
  /\ pick' = FALSE /\ exempt' = exempt \ {"pick"}
  /\ UNCHANGED <<row, presence, screen, ping, run, confirmed, accept, restarts>>

AcceptTap ==
  /\ app.open /\ ride.status = "offered" /\ accept = "idle"
  /\ accept' = "check"
  /\ UNCHANGED <<row, presence, screen, trip, pick, restarts, exempt>>

(* Mutation: only offers look at the suspension. *)
AcceptUnchecked ==
  /\ accept = "check"
  /\ accept' = "write"
  /\ UNCHANGED <<row, presence, screen, trip, pick, restarts, exempt>>

AcceptCheck ==
  /\ accept = "check"
  /\ accept' = IF row.suspended THEN "idle" ELSE "write"
  /\ UNCHANGED <<row, presence, screen, trip, pick, restarts, exempt>>

(* The ride page takes over: what a summary in flight brings is not shown.   *)
AcceptWrite ==
  /\ accept = "write"
  /\ ride' = IF ride.status = "offered" THEN [ride EXCEPT !.status = "arriving"] ELSE ride
  /\ accept' = "idle" /\ exempt' = exempt \ {"accept"}
  /\ poll' = NoPoll
  /\ UNCHANGED <<row, presence, app, toggle, ping, run, confirmed, pick, restarts>>

(* An offer is withdrawn, or the trip is cancelled, begun or ended.  A row   *)
(* that is over never arrives again, so what is left of a report about it,   *)
(* or of an accept, changes nothing.                                         *)
RideOver ==
  /\ ride # NoRide
  /\ ride' = NoRide
  /\ ping' = [p \in Ping |-> IF ping[p] = "ride" THEN "ride" ELSE "idle"]
  /\ accept' = "idle" /\ exempt' = exempt \ {"accept"}
  /\ run' = 0 /\ confirmed' = FALSE
  /\ UNCHANGED <<row, presence, screen, pick, restarts>>

Suspend ==
  /\ ~row.suspended
  /\ row' = [row EXCEPT !.suspended = TRUE]
  /\ exempt' = {op \in {"toggle", "accept", "pick"} :
                  \/ op = "toggle" /\ toggle.at = "write"
                  \/ op = "accept" /\ accept = "write"
                  \/ op = "pick" /\ pick}
  /\ UNCHANGED <<presence, screen, trip, match, restarts>>

Unsuspend ==
  /\ row.suspended
  /\ row' = [row EXCEPT !.suspended = FALSE]
  /\ exempt' = {}
  /\ UNCHANGED <<presence, screen, trip, match, restarts>>

(* A restart loses the counts, the timers and what was in flight; the rows   *)
(* stay, and the app sees its connections and its requests fail.             *)
Restart ==
  /\ restarts < MaxRestarts /\ restarts' = restarts + 1
  /\ count' = 0 /\ timer' = [t \in Timer |-> "off"]
  /\ IF toggle = NoToggle THEN UNCHANGED <<app, toggle>> /\ poll' = NoPoll
     ELSE Settled(~toggle.to)
  /\ ping' = [p \in Ping |-> "idle"] /\ accept' = "idle" /\ pick' = FALSE
  /\ exempt' = {}
  /\ UNCHANGED <<row, ride, run, confirmed>>
-----------------------------------------------------------------------------
Init ==
  /\ row = [isOnline |-> FALSE, suspended |-> FALSE, fresh |-> FALSE]
  /\ count = 0 /\ timer = [t \in Timer |-> "off"]
  /\ app = [open |-> FALSE, isOnline |-> FALSE] /\ toggle = NoToggle /\ poll = NoPoll
  /\ ping = [p \in Ping |-> "idle"] /\ ride = NoRide
  /\ accept = "idle" /\ pick = FALSE /\ restarts = 0
  /\ run = 0 /\ confirmed = FALSE /\ exempt = {}

HandleStatus == StatusCheck \/ StatusWrite \/ StatusAnswer
HandleReport(p) ==
  \/ \E where \in {"inside", "outside", "vague"} : ReportRide(p, where)
  \/ Increment(p) \/ CountConfirmations(p) \/ Arrive(p) \/ Reset(p)
FetchSummary == SummaryPoll \/ SummaryRead \/ SummaryAnswer

Next ==
  \/ Connect \/ Disconnect \/ \E t \in Timer : TimerFires(t) \/ TimerWrites(t)
  \/ OpenApp \/ CloseApp \/ \E next \in BOOLEAN : Toggle(next)
  \/ HandleStatus \/ ToggleFails \/ FetchSummary
  \/ \E p \in Ping : Report(p) \/ HandleReport(p) \/ ReportFails(p)
  \/ LocationAges
  \/ Pick \/ Offer \/ AcceptTap \/ AcceptCheck \/ AcceptWrite \/ RideOver
  \/ Suspend \/ Unsuspend \/ Restart

Spec == Init /\ [][Next]_dvars

(* Handlers finish, and the summary is fetched every 15 s while the dashboard *)
(* is open.                                                                   *)
FairSpec ==
  /\ Spec
  /\ WF_dvars(HandleStatus) /\ WF_dvars(FetchSummary)
-----------------------------------------------------------------------------
DriverRow == [isOnline : BOOLEAN, suspended : BOOLEAN, fresh : BOOLEAN]
AppRow    == [open : BOOLEAN, isOnline : BOOLEAN]
ToggleRow == [at : {"idle", "check", "write", "answer"}, to : BOOLEAN]
PollRow   == [at : {"idle", "asked", "answer"}, value : BOOLEAN, stale : BOOLEAN]
RideRow   == [status : {"none", "offered", "arriving", "arrived"},
              confirmations : 0..Required]

(* Rows, memory of the server and caches of the app keep their types; a      *)
(* timer writes only what a lost connection has started; a report counts     *)
(* only towards a ride that is on its way or there.                          *)
TypeOK ==
  /\ row \in DriverRow
  /\ count \in 0..MaxSockets /\ timer \in [Timer -> {"off", "ticking", "writing"}]
  /\ app \in AppRow /\ toggle \in ToggleRow /\ poll \in PollRow
  /\ poll.at # "idle" => app.open
  /\ ping \in [Ping -> {"idle", "ride", "increment", "count", "arrive", "reset"}]
  /\ \A p \in Ping : ping[p] \notin {"idle", "ride"} => OnTrip
  /\ ride \in RideRow /\ (ride.confirmations > 0 => OnTrip)
  /\ accept \in {"idle", "check", "write"} /\ (accept # "idle" => ride # NoRide)
  /\ pick \in BOOLEAN /\ restarts \in 0..MaxRestarts
  /\ run \in 0..Required /\ confirmed \in BOOLEAN
  /\ exempt \subseteq {"toggle", "accept", "pick"}

(* A ride is arrived only after Required reports from the pickup with none   *)
(* from outside counted between them, however the reports overlap (the       *)
(* comment on REQUIRED_ARRIVAL_CONFIRMATIONS).                               *)
ArrivalIsConfirmed == ride.status = "arrived" => confirmed

(* Suspension holds for everything that begins after it: a suspended driver  *)
(* is put online, offered a ride or given one only by a statement whose      *)
(* handler, or matching pass, had passed its check before.                   *)
SuspensionTakesEffect ==
  [][row.suspended =>
       /\ (~row.isOnline /\ row'.isOnline) => "toggle" \in exempt
       /\ (ride.status = "none" /\ ride'.status = "offered") => "pick" \in exempt
       /\ (ride.status = "offered" /\ ride'.status = "arriving") => "accept" \in exempt]_dvars

(* The switch does not go back by itself: once a toggle has settled, no      *)
(* summary read before it is still to be shown (the comment on onMutate).    *)
SwitchHolds == toggle = NoToggle /\ poll.at = "answer" => ~poll.stale

(* While the dashboard is open, its switch tells in the end whether the      *)
(* driver is online, although timers and restarts change that unseen.        *)
SwitchTellsTheTruth == []<>(~OnDashboard \/ app.isOnline = row.isOnline \/ toggle # NoToggle)
=============================================================================
