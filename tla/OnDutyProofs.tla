----------------------------- MODULE OnDutyProofs -----------------------------
(* An arrival is confirmed, a suspension takes effect and the switch holds,  *)
(* for any numbers of reports, timers, connections, confirmations and        *)
(* restarts.                                                                 *)
EXTENDS OnDuty, TLAPS

-----------------------------------------------------------------------------
(* Types *)

(* A driver who has been picked has no ride yet. *)
Typed == TypeOK /\ (pick => ride = NoRide)

LEMMA Constants ==
  /\ Required \in Nat /\ Required > 0 /\ MaxSockets \in Nat /\ MaxRestarts \in Nat
  /\ \A n \in 0..Required : OneMore(n) \in 0..Required /\ (OneMore(n) = n \/ OneMore(n) = n + 1)
BY RequiredAssumption, BoundsAssumption DEF OneMore

(* What the handlers do to a row. *)
LEMMA DriverRows ==
  \A r \in DriverRow : /\ r.suspended \in BOOLEAN /\ r.isOnline \in BOOLEAN
                       /\ [r EXCEPT !.fresh = TRUE] \in DriverRow
                       /\ [r EXCEPT !.fresh = FALSE] \in DriverRow
                       /\ [r EXCEPT !.suspended = TRUE] \in DriverRow
                       /\ [r EXCEPT !.suspended = FALSE] \in DriverRow
                       /\ \A b \in BOOLEAN : [r EXCEPT !.isOnline = b] \in DriverRow
BY DEF DriverRow

Shows(a, b)   == [a EXCEPT !.isOnline = b]
Counted(r, n) == [r EXCEPT !.confirmations = n]
Moved(r, s)   == [r EXCEPT !.status = s]
Read(q, b)    == [q EXCEPT !.at = "answer", !.value = b]
Marked(q, b)  == [q EXCEPT !.stale = b]

LEMMA AppRows ==
  /\ [open |-> FALSE, isOnline |-> FALSE] \in AppRow
  /\ \A a \in AppRow : /\ a.open \in BOOLEAN /\ a.isOnline \in BOOLEAN
                      /\ [a EXCEPT !.open = TRUE] \in AppRow
                      /\ [a EXCEPT !.open = TRUE].open
BY DEF AppRow

LEMMA ShowsRow ==
  ASSUME NEW a \in AppRow, NEW b \in BOOLEAN
  PROVE  Shows(a, b) \in AppRow /\ (a.open => Shows(a, b).open)
BY DEF AppRow, Shows

LEMMA ToggleRows ==
  /\ NoToggle \in ToggleRow /\ NoToggle.at = "idle"
  /\ \A b \in BOOLEAN : \A at \in {"check", "write"} : [at |-> at, to |-> b] \in ToggleRow
  /\ \A t \in ToggleRow :
       /\ t.to \in BOOLEAN /\ (~t.to) \in BOOLEAN
       /\ \A at \in {"write", "answer"} : /\ [t EXCEPT !.at = at] \in ToggleRow
                                         /\ [t EXCEPT !.at = at].at = at
                                         /\ [t EXCEPT !.at = at].to = t.to
BY DEF ToggleRow, NoToggle

LEMMA PollRows ==
  /\ NoPoll \in PollRow /\ NoPoll.at = "idle" /\ NoPoll.stale = FALSE
  /\ Refetch \in PollRow /\ Refetch.at = "asked" /\ Refetch.stale = FALSE
  /\ \A q \in PollRow :
       /\ q.value \in BOOLEAN /\ q.stale \in BOOLEAN
       /\ \A b \in BOOLEAN : /\ Read(q, b) \in PollRow /\ Read(q, b).stale = q.stale
                            /\ Marked(q, b) \in PollRow /\ Marked(q, b).stale = b
                            /\ Marked(q, b).at = q.at /\ Read(q, b).at = "answer"
<1>1. NoPoll \in PollRow /\ NoPoll.at = "idle" /\ NoPoll.stale = FALSE
  BY DEF PollRow, NoPoll
<1>2. ASSUME NEW q \in PollRow
      PROVE  /\ [q EXCEPT !.at = "asked"] \in PollRow
             /\ [q EXCEPT !.at = "asked"].at = "asked" /\ [q EXCEPT !.at = "asked"].stale = q.stale
  BY DEF PollRow
<1>3. Refetch \in PollRow /\ Refetch.at = "asked" /\ Refetch.stale = FALSE
  BY <1>1, <1>2 DEF Refetch
<1>4. ASSUME NEW q \in PollRow PROVE q.value \in BOOLEAN /\ q.stale \in BOOLEAN
  BY DEF PollRow
<1>5. ASSUME NEW q \in PollRow, NEW b \in BOOLEAN
      PROVE  /\ Read(q, b) \in PollRow /\ Read(q, b).stale = q.stale
             /\ Marked(q, b) \in PollRow /\ Marked(q, b).stale = b
             /\ Marked(q, b).at = q.at /\ Read(q, b).at = "answer"
  BY DEF PollRow, Read, Marked
<1> QED BY <1>1, <1>3, <1>4, <1>5

LEMMA ReadRow ==
  ASSUME NEW q \in PollRow, NEW b \in BOOLEAN
  PROVE  Read(q, b).at = "answer" /\ (Read(q, b).stale => q.stale)
BY DEF PollRow, Read

LEMMA RideRows ==
  /\ NoRide \in RideRow /\ NoRide.status = "none" /\ NoRide.confirmations = 0
  /\ [NoRide EXCEPT !.status = "offered"] \in RideRow
  /\ [NoRide EXCEPT !.status = "offered"].status = "offered"
  /\ [NoRide EXCEPT !.status = "offered"].confirmations = 0
  /\ \A r \in RideRow : /\ r.confirmations \in 0..Required
                       /\ r.status \in {"none", "offered", "arriving", "arrived"}
BY Constants DEF RideRow, NoRide

LEMMA CountedRow ==
  ASSUME NEW r \in RideRow, NEW n \in 0..Required
  PROVE  /\ Counted(r, n) \in RideRow /\ Counted(r, n).confirmations = n
         /\ Counted(r, n).status = r.status
BY DEF RideRow, Counted

LEMMA MovedRow ==
  ASSUME NEW r \in RideRow, NEW s \in {"arriving", "arrived"}
  PROVE  /\ Moved(r, s) \in RideRow /\ Moved(r, s).status = s
         /\ Moved(r, s).confirmations = r.confirmations
BY DEF RideRow, Moved

LEMMA TypedInit == Init => Typed
<1> SUFFICES ASSUME Init PROVE Typed  OBVIOUS
<1>1. row \in DriverRow  BY DEF Init, DriverRow
<1>2. app \in AppRow /\ toggle \in ToggleRow /\ poll \in PollRow /\ ride \in RideRow
  BY AppRows, ToggleRows, PollRows, RideRows DEF Init
<1>3. /\ pick \in BOOLEAN /\ confirmed \in BOOLEAN /\ (pick => ride = NoRide)
      /\ (poll.at # "idle" => app.open) /\ (accept # "idle" => ride # NoRide)
  BY PollRows DEF Init
<1>4. (ride.confirmations > 0 => OnTrip) /\ ride.confirmations = 0
  BY RideRows DEF Init
<1>5. /\ count \in 0..MaxSockets /\ timer \in [Timer -> {"off", "ticking", "writing"}]
      /\ ping \in [Ping -> {"idle", "ride", "increment", "count", "arrive", "reset"}]
      /\ \A p \in Ping : ping[p] = "idle"
      /\ accept \in {"idle", "check", "write"} /\ restarts \in 0..MaxRestarts
      /\ run \in 0..Required /\ exempt \subseteq {"toggle", "accept", "pick"}
  BY Constants DEF Init
<1> QED BY <1>1, <1>2, <1>3, <1>4, <1>5 DEF Typed, TypeOK

LEMMA SettledTyped ==
  ASSUME Typed, NEW value \in BOOLEAN, Settled(value)
  PROVE  /\ app' \in AppRow /\ (app.open => app'.open) /\ toggle' \in ToggleRow
         /\ poll' \in PollRow /\ (poll'.at # "idle" => app'.open)
<1>1. app \in AppRow /\ poll \in PollRow /\ (poll.at # "idle" => app.open)
  BY DEF Typed, TypeOK
<1>2. app' = app \/ app' = Shows(app, value)  BY DEF Settled, Shows
<1>3. app' \in AppRow /\ (app.open => app'.open)  BY <1>1, <1>2, ShowsRow
<1>4. poll' = poll \/ (poll' = Refetch /\ app.open)  BY DEF Settled, OnDashboard
<1>5. toggle' \in ToggleRow  BY ToggleRows DEF Settled
<1>6. CASE poll' = poll  BY <1>1, <1>3, <1>5, <1>6
<1>7. CASE poll' = Refetch /\ app.open  BY <1>3, <1>5, <1>7, PollRows
<1> QED BY <1>4, <1>6, <1>7

LEMMA SwitchTyped ==
  ASSUME Typed,
         \/ OpenApp \/ CloseApp \/ \E next \in BOOLEAN : Toggle(next)
         \/ HandleStatus \/ ToggleFails \/ FetchSummary
  PROVE  Typed'
<1> USE DEF Typed, TypeOK, trip, match, presence
<1>1. CASE OpenApp  BY <1>1, AppRows, ToggleRows, PollRows DEF OpenApp, OnTrip
<1>2. CASE CloseApp  BY <1>2, AppRows, ToggleRows, PollRows DEF CloseApp, OnTrip
<1>3. ASSUME NEW next \in BOOLEAN, Toggle(next) PROVE Typed'
  <2>1. app' = Shows(app, next)  BY <1>3 DEF Toggle, Shows
  <2>2. app' \in AppRow  BY <2>1, ShowsRow
  <2>3. toggle' \in ToggleRow
    <3>1. toggle' = [at |-> "check", to |-> next] \/ toggle' = [at |-> "write", to |-> next]
      BY <1>3 DEF Toggle
    <3> QED BY <3>1, ToggleRows, ZenonT(60)
  <2>4. poll' \in PollRow /\ poll'.at = "idle"  BY <1>3, PollRows DEF Toggle
  <2> QED BY <1>3, <2>2, <2>3, <2>4 DEF Toggle, OnTrip
<1>4. CASE StatusCheck
  <2>1. CASE row.suspended
    <3>1. (~toggle.to) \in BOOLEAN  BY ToggleRows
    <3>2. Settled(~toggle.to)  BY <1>4, <2>1 DEF StatusCheck
    <3> QED BY <1>4, <3>1, <3>2, SettledTyped DEF StatusCheck, OnTrip
  <2>2. CASE ~row.suspended  BY <1>4, <2>2, ToggleRows, ZenonT(60) DEF StatusCheck, OnTrip
  <2> QED BY <2>1, <2>2
<1>5. CASE StatusWrite
  <2>1. row' \in DriverRow /\ toggle' \in ToggleRow
    BY <1>5, DriverRows, ToggleRows DEF StatusWrite
  <2>2. poll' \in PollRow /\ poll'.at = poll.at
    <3>1. (poll.at = "answer") \in BOOLEAN  OBVIOUS
    <3>2. poll' = Marked(poll, poll.at = "answer")  BY <1>5 DEF StatusWrite, Marked
    <3> QED BY <3>1, <3>2, PollRows
  <2> QED BY <1>5, <2>1, <2>2 DEF StatusWrite, OnTrip
<1>6. CASE StatusAnswer
  <2>1. app.isOnline \in BOOLEAN  BY AppRows
  <2>2. Settled(app.isOnline)  BY <1>6 DEF StatusAnswer
  <2> QED BY <1>6, <2>1, <2>2, SettledTyped DEF StatusAnswer, OnTrip
<1>7. CASE ToggleFails
  <2>1. (~toggle.to) \in BOOLEAN  BY ToggleRows
  <2>2. Settled(~toggle.to)  BY <1>7 DEF ToggleFails
  <2> QED BY <1>7, <2>1, <2>2, SettledTyped DEF ToggleFails, OnTrip
<1>8. CASE SummaryPoll  BY <1>8, AppRows, ToggleRows, PollRows DEF SummaryPoll, OnDashboard, OnTrip
<1>9. CASE SummaryRead
  <2>1. row.isOnline \in BOOLEAN  BY DriverRows
  <2>2. poll' = Read(poll, row.isOnline)  BY <1>9 DEF SummaryRead, Read
  <2>3. poll' \in PollRow  BY <2>1, <2>2, PollRows
  <2>4. app.open  BY <1>9 DEF SummaryRead
  <2> QED BY <1>9, <2>3, <2>4 DEF SummaryRead, OnTrip
<1>10. CASE SummaryAnswer
  <2>1. poll.value \in BOOLEAN  BY PollRows
  <2>2. app' = Shows(app, poll.value)  BY <1>10 DEF SummaryAnswer, Shows
  <2>3. app' \in AppRow  BY <2>1, <2>2, ShowsRow
  <2>4. poll' \in PollRow /\ poll'.at = "idle"  BY <1>10, PollRows DEF SummaryAnswer
  <2> QED BY <1>10, <2>3, <2>4 DEF SummaryAnswer, OnTrip
<1> QED BY <1>1, <1>2, <1>3, <1>4, <1>5, <1>6, <1>7, <1>8, <1>9, <1>10
        DEF HandleStatus, FetchSummary

LEMMA ReportsTyped ==
  ASSUME Typed, NEW p \in Ping, Report(p) \/ HandleReport(p) \/ ReportFails(p)
  PROVE  Typed'
<1> USE DEF Typed, TypeOK, match, presence, screen, OnTrip, Done, Goes
<1>1. CASE Report(p)  BY <1>1, DriverRows DEF Report
<1>2. ASSUME NEW where \in {"inside", "outside", "vague"}, ReportRide(p, where) PROVE Typed'
  <2>1. \/ Done(p)
        \/ ride.status = "arriving" /\ (Goes(p, "increment") \/ Goes(p, "reset"))
    BY <1>2 DEF ReportRide
  <2> QED BY <1>2, <2>1 DEF ReportRide
<1>3. CASE Increment(p)
  <2>1. CASE ride.status = "arriving"
    <3>1. ride' = Counted(ride, OneMore(ride.confirmations))
      BY <1>3, <2>1 DEF Increment, Counted
    <3>2. OneMore(ride.confirmations) \in 0..Required  BY RideRows, Constants
    <3>3. ride' \in RideRow /\ ride'.status = "arriving"  BY <2>1, <3>1, <3>2, CountedRow
    <3>4. run' \in 0..Required  BY <1>3, <2>1, Constants DEF Increment
    <3>5. confirmed' \in BOOLEAN  BY <1>3, <2>1 DEF Increment
    <3>6. ride' # NoRide  BY <3>3, RideRows
    <3>7. ping' \in [Ping -> {"idle", "ride", "increment", "count", "arrive", "reset"}]
      BY <1>3 DEF Increment
    <3>8. pick = FALSE  BY <2>1, RideRows
    <3> QED BY <1>3, <2>1, <3>3, <3>4, <3>5, <3>6, <3>7, <3>8 DEF Increment
  <2>2. CASE ride.status # "arriving"  BY <1>3, <2>2 DEF Increment
  <2> QED BY <2>1, <2>2
<1>4. CASE CountConfirmations(p)  BY <1>4 DEF CountConfirmations
<1>5. CASE Arrive(p)  BY <1>5, RideRows, MovedRow DEF Arrive, Moved
<1>6. CASE Reset(p)
  <2>1. CASE ride.status = "arriving"
    <3>1. ride' = Counted(ride, 0) /\ 0 \in 0..Required /\ run' = 0
      BY <1>6, <2>1, Constants DEF Reset, Counted
    <3>2. ride' \in RideRow /\ ride'.status = "arriving"  BY <2>1, <3>1, CountedRow
    <3>3. ride' # NoRide /\ pick = FALSE  BY <2>1, <3>2, RideRows
    <3> QED BY <1>6, <2>1, <3>1, <3>2, <3>3 DEF Reset
  <2>2. CASE ride.status # "arriving"  BY <1>6, <2>2, Constants DEF Reset
  <2> QED BY <2>1, <2>2
<1>7. CASE ReportFails(p)  BY <1>7 DEF ReportFails
<1> QED BY <1>1, <1>2, <1>3, <1>4, <1>5, <1>6, <1>7 DEF HandleReport

LEMMA RidesTyped ==
  ASSUME Typed, Pick \/ Offer \/ AcceptTap \/ AcceptCheck \/ AcceptWrite \/ RideOver
  PROVE  Typed'
<1> USE DEF Typed, TypeOK, match, presence, screen, trip, OnTrip
<1>1. CASE Pick  BY <1>1 DEF Pick
<1>2. CASE Offer  BY <1>2, RideRows DEF Offer
<1>3. CASE AcceptTap  BY <1>3, RideRows DEF AcceptTap
<1>4. CASE AcceptCheck  BY <1>4 DEF AcceptCheck
<1>5. CASE AcceptWrite  BY <1>5, RideRows, MovedRow, PollRows DEF AcceptWrite, Moved
<1>6. CASE RideOver
  <2>1. /\ ping' \in [Ping -> {"idle", "ride", "increment", "count", "arrive", "reset"}]
        /\ \A p \in Ping : ping'[p] \in {"idle", "ride"}
    BY <1>6 DEF RideOver
  <2>2. ride' = NoRide /\ ride' \in RideRow /\ ride'.confirmations = 0
    BY <1>6, RideRows DEF RideOver
  <2>3. run' \in 0..Required  BY <1>6, Constants DEF RideOver
  <2>4. confirmed' \in BOOLEAN  BY <1>6 DEF RideOver
  <2> QED BY <1>6, <2>1, <2>2, <2>3, <2>4 DEF RideOver
<1> QED BY <1>1, <1>2, <1>3, <1>4, <1>5, <1>6

LEMMA RowsTyped ==
  ASSUME Typed,
         \/ Connect \/ Disconnect \/ \E t \in Timer : TimerFires(t) \/ TimerWrites(t)
         \/ LocationAges \/ Suspend \/ Unsuspend \/ Restart
  PROVE  Typed'
<1> USE DEF Typed, TypeOK, match, presence, screen, trip, OnTrip
<1>1. CASE Connect  BY <1>1, Constants DEF Connect
<1>2. CASE Disconnect
  <2>1. /\ count' \in 0..MaxSockets /\ timer' \in [Timer -> {"off", "ticking", "writing"}]
    BY <1>2, Constants DEF Disconnect
  <2> QED BY <1>2, <2>1 DEF Disconnect
<1>3. ASSUME NEW t \in Timer, TimerFires(t) PROVE Typed'  BY <1>3 DEF TimerFires
<1>4. ASSUME NEW t \in Timer, TimerWrites(t) PROVE Typed'  BY <1>4, DriverRows DEF TimerWrites
<1>5. CASE LocationAges  BY <1>5, DriverRows DEF LocationAges
<1>6. CASE Suspend  BY <1>6, DriverRows DEF Suspend
<1>7. CASE Unsuspend  BY <1>7, DriverRows DEF Unsuspend
<1>8. CASE Restart
  <2>1. /\ app' \in AppRow /\ (app.open => app'.open) /\ toggle' \in ToggleRow
        /\ poll' \in PollRow /\ (poll'.at # "idle" => app'.open)
    <3>1. CASE toggle = NoToggle
      <4>1. UNCHANGED <<app, toggle>> /\ poll' = NoPoll  BY <1>8, <3>1 DEF Restart
      <4> QED BY <4>1, PollRows
    <3>2. CASE toggle # NoToggle
      <4>1. (~toggle.to) \in BOOLEAN  BY ToggleRows
      <4>2. Settled(~toggle.to)  BY <1>8, <3>2 DEF Restart
      <4> QED BY <4>1, <4>2, SettledTyped
    <3> QED BY <3>1, <3>2
  <2>2. /\ count' \in 0..MaxSockets /\ timer' \in [Timer -> {"off", "ticking", "writing"}]
        /\ restarts' \in 0..MaxRestarts
    BY <1>8, Constants DEF Restart
  <2> QED BY <1>8, <2>1, <2>2 DEF Restart
<1> QED BY <1>1, <1>2, <1>3, <1>4, <1>5, <1>6, <1>7, <1>8

LEMMA TypedStep == Typed /\ [Next]_dvars => Typed'
<1> SUFFICES ASSUME Typed, [Next]_dvars PROVE Typed'  OBVIOUS
<1>1. CASE UNCHANGED dvars
  BY <1>1 DEF dvars, match, presence, screen, trip, Typed, TypeOK, OnTrip
<1> QED BY <1>1, SwitchTyped, ReportsTyped, RidesTyped, RowsTyped DEF Next

(* Rows, memory and caches keep their types, and a report, a timer or an      *)
(* accept is about what there is.                                             *)
THEOREM TypeCorrect == Spec => []TypeOK
<1>1. Typed => TypeOK  BY DEF Typed
<1> QED BY TypedInit, TypedStep, <1>1, PTL DEF Spec

LEMMA TypedAlways == Spec => []Typed
BY TypedInit, TypedStep, PTL DEF Spec

-----------------------------------------------------------------------------
(* Arrival *)

(* Until the ride has arrived, its row counts the confirmations of the run    *)
(* that is going on; whoever has counted enough of them has them.             *)
Confirmed ==
  /\ ride.status # "arrived" => run = ride.confirmations
  /\ run = Required \/ ride.status = "arrived" => confirmed
  /\ \A p \in Ping : ping[p] = "arrive" => confirmed

LEMMA ConfirmedStep == Typed /\ Confirmed /\ [Next]_dvars => Confirmed'
<1> SUFFICES ASSUME Typed, Confirmed, [Next]_dvars PROVE Confirmed'  OBVIOUS
<1>0. /\ ride \in RideRow /\ ping \in [Ping -> {"idle", "ride", "increment", "count", "arrive", "reset"}]
      /\ run \in 0..Required
  BY DEF Typed, TypeOK
<1>1. CASE UNCHANGED <<ping, ride, run, confirmed>>
  BY <1>1 DEF Confirmed
<1>2. ASSUME UNCHANGED <<ride, run, confirmed>>,
             \A p \in Ping : ping'[p] = "arrive" => ping[p] = "arrive"
      PROVE  Confirmed'
  BY <1>2 DEF Confirmed
<1>3. ASSUME NEW p \in Ping, NEW where \in {"inside", "outside", "vague"}, ReportRide(p, where)
      PROVE  Confirmed'
  BY <1>0, <1>2, <1>3 DEF ReportRide, Done, Goes
<1>4. ASSUME NEW p \in Ping, Increment(p) PROVE Confirmed'
  <2>1. \A q \in Ping : ping'[q] = "arrive" => ping[q] = "arrive"
    BY <1>0, <1>4 DEF Increment, Goes
  <2>2. CASE ride.status # "arriving"  BY <1>2, <1>4, <2>1, <2>2 DEF Increment
  <2>3. CASE ride.status = "arriving"
    <3>1. /\ ride' = Counted(ride, OneMore(ride.confirmations)) /\ run' = OneMore(run)
          /\ confirmed' = (confirmed \/ run' = Required)
      BY <1>4, <2>3 DEF Increment, Counted
    <3>2. /\ ride'.status = "arriving" /\ ride'.confirmations = OneMore(ride.confirmations)
          /\ run = ride.confirmations
      BY <1>0, <2>3, <3>1, RideRows, CountedRow, Constants DEF Confirmed
    <3> QED BY <2>1, <3>1, <3>2 DEF Confirmed
  <2> QED BY <2>2, <2>3
<1>5. ASSUME NEW p \in Ping, CountConfirmations(p) PROVE Confirmed'
  <2>1. UNCHANGED <<ride, run, confirmed>> /\ \A q \in Ping : q # p => ping'[q] = ping[q]
    BY <1>0, <1>5 DEF CountConfirmations, Done, Goes
  <2>2. CASE ping'[p] # "arrive"  BY <1>2, <2>1, <2>2
  <2>3. CASE ping'[p] = "arrive"
    <3>1. ride.status = "arriving" /\ ride.confirmations >= Required
      BY <1>0, <1>5, <2>3 DEF CountConfirmations, Done
    <3>2. ride.confirmations \in 0..Required /\ run = ride.confirmations
      BY <1>0, <3>1, RideRows DEF Confirmed
    <3>3. run = Required  BY <3>1, <3>2, Constants
    <3> QED BY <2>1, <3>3 DEF Confirmed
  <2> QED BY <2>2, <2>3
<1>6. ASSUME NEW p \in Ping, Arrive(p) PROVE Confirmed'
  <2>1. confirmed /\ UNCHANGED <<run, confirmed>>  BY <1>6 DEF Arrive, Confirmed
  <2>2. ride' = ride \/ ride' = Moved(ride, "arrived")  BY <1>6 DEF Arrive, Moved
  <2>3. ride' = ride \/ ride'.status = "arrived"  BY <1>0, <2>2, MovedRow
  <2> QED BY <2>1, <2>3 DEF Confirmed
<1>7. ASSUME NEW p \in Ping, Reset(p) PROVE Confirmed'
  <2>1. /\ run' = 0 /\ UNCHANGED confirmed
        /\ \A q \in Ping : ping'[q] = "arrive" => ping[q] = "arrive"
    BY <1>0, <1>7 DEF Reset, Done
  <2>2. /\ ride'.status = ride.status
        /\ ride.status # "arrived" => ride'.confirmations = 0
    <3>1. CASE ride.status = "arriving"
      <4>1. ride' = Counted(ride, 0)  BY <1>7, <3>1 DEF Reset, Counted
      <4>2. 0 \in 0..Required  BY Constants
      <4> QED BY <1>0, <4>1, <4>2, CountedRow
    <3>2. CASE ride.status # "arriving"
      <4>1. ride' = ride  BY <1>7, <3>2 DEF Reset
      <4>2. /\ ride.confirmations > 0 => ride.status \in {"arriving", "arrived"}
            /\ ride.confirmations \in 0..Required
        BY <1>0, RideRows DEF Typed, TypeOK, OnTrip
      <4> QED BY <3>2, <4>1, <4>2, Constants
    <3> QED BY <3>1, <3>2
  <2> QED BY <2>1, <2>2, Constants DEF Confirmed
<1>8. ASSUME NEW p \in Ping, ReportFails(p) \/ Report(p) PROVE Confirmed'
  BY <1>0, <1>2, <1>8 DEF ReportFails, Report, Done
<1>9. CASE Offer
  <2>1. ride = NoRide /\ ride'.status = "offered" /\ ride'.confirmations = 0
    BY <1>9, RideRows DEF Offer, Typed
  <2> QED BY <1>9, <2>1, RideRows DEF Offer, Confirmed
<1>10. CASE AcceptWrite
  <2>1. UNCHANGED <<ping, run, confirmed>>  BY <1>10 DEF AcceptWrite
  <2>2. \/ ride' = ride
        \/ ride.status = "offered" /\ ride' = Moved(ride, "arriving")
    BY <1>10 DEF AcceptWrite, Moved
  <2>3. \/ ride' = ride
        \/ /\ ride.status = "offered" /\ ride'.status = "arriving"
           /\ ride'.confirmations = ride.confirmations
    BY <1>0, <2>2, MovedRow
  <2> QED BY <2>1, <2>3 DEF Confirmed
<1>11. CASE RideOver
  <2>1. ride'.status = "none" /\ ride'.confirmations = 0 /\ run' = 0
    BY <1>11, RideRows DEF RideOver
  <2>2. \A q \in Ping : ping'[q] # "arrive"  BY <1>11 DEF RideOver
  <2> QED BY <2>1, <2>2, Constants DEF Confirmed
<1>12. CASE Restart  BY <1>0, <1>2, <1>12 DEF Restart
<1>13. CASE UNCHANGED dvars  BY <1>1, <1>13 DEF dvars, trip
<1>14. CASE \/ Connect \/ Disconnect \/ LocationAges \/ Suspend \/ Unsuspend
            \/ \E t \in Timer : TimerFires(t) \/ TimerWrites(t)
  BY <1>1, <1>14 DEF Connect, Disconnect, LocationAges, Suspend, Unsuspend, TimerFires,
                     TimerWrites, trip
<1>15. CASE \/ OpenApp \/ CloseApp \/ \E next \in BOOLEAN : Toggle(next)
            \/ HandleStatus \/ ToggleFails \/ FetchSummary
  BY <1>1, <1>15 DEF OpenApp, CloseApp, Toggle, HandleStatus, StatusCheck, StatusWrite,
                     StatusAnswer, ToggleFails, FetchSummary, SummaryPoll, SummaryRead,
                     SummaryAnswer, trip
<1>16. CASE Pick \/ AcceptTap \/ AcceptCheck
  BY <1>1, <1>16 DEF Pick, AcceptTap, AcceptCheck, trip
<1> QED BY <1>3, <1>4, <1>5, <1>6, <1>7, <1>8, <1>9, <1>10, <1>11, <1>12, <1>13, <1>14, <1>15,
           <1>16
        DEF Next, HandleReport

(* A ride is marked arrived only after Required reports from the pickup with  *)
(* none from outside between them, although reports overlap, fail half way    *)
(* and outlive the ride they were about.                                      *)
THEOREM ArrivalsAreConfirmed == Spec => []ArrivalIsConfirmed
<1>1. Init => Confirmed
  BY RideRows, Constants DEF Init, Confirmed
<1>2. Confirmed => ArrivalIsConfirmed  BY DEF Confirmed, ArrivalIsConfirmed
<1> QED BY <1>1, <1>2, ConfirmedStep, TypedAlways, PTL DEF Spec

-----------------------------------------------------------------------------
(* The switch *)

(* A summary is stale only between the write of a toggle and its answer.      *)
(* While a trip hides the dashboard no toggle meets a summary in flight.      *)
Current ==
  /\ poll.stale => poll.at = "answer" /\ toggle.at = "answer"
  /\ OnTrip /\ poll.at # "idle" => toggle.at = "idle"

LEMMA SettledCurrent ==
  ASSUME Typed, Current, NEW value \in BOOLEAN, Settled(value), toggle.at # "idle",
         ride' = ride \/ ~OnTrip'
  PROVE  Current'
<1>1. toggle'.at = "idle"  BY ToggleRows DEF Settled
<1>2. CASE OnDashboard
  <2>1. poll'.stale = FALSE  BY <1>2, PollRows DEF Settled
  <2> QED BY <1>1, <2>1 DEF Current
<1>3. CASE ~OnDashboard
  <2>1. poll' = poll /\ poll.at = "idle"
    BY <1>3 DEF Settled, OnDashboard, Current, Typed, TypeOK
  <2>2. ~poll.stale  BY <2>1 DEF Current
  <2> QED BY <1>1, <2>1, <2>2 DEF Current
<1> QED BY <1>2, <1>3

LEMMA CurrentStep == Typed /\ Current /\ [Next]_dvars => Current'
<1> SUFFICES ASSUME Typed, Current, [Next]_dvars PROVE Current'  OBVIOUS
<1>0. ride \in RideRow /\ poll \in PollRow /\ toggle \in ToggleRow  BY DEF Typed, TypeOK
<1>1. CASE UNCHANGED <<poll, toggle>> /\ (OnTrip' => OnTrip)
  BY <1>1 DEF Current
<1>2. ASSUME poll'.at = "idle", ~poll'.stale PROVE Current'  BY <1>2 DEF Current
<1>p. ASSUME poll' = NoPoll PROVE Current'  BY <1>2, <1>p, PollRows
<1>3. CASE OpenApp
  <2>1. /\ toggle'.at = "idle" /\ poll'.stale = FALSE
    BY <1>3, PollRows, ToggleRows DEF OpenApp
  <2> QED BY <2>1 DEF Current
<1>4. CASE CloseApp \/ AcceptWrite  BY <1>p, <1>4 DEF CloseApp, AcceptWrite
<1>5. ASSUME NEW next \in BOOLEAN, Toggle(next) PROVE Current'  BY <1>p, <1>5 DEF Toggle
<1>6. CASE StatusCheck
  <2>1. toggle.at = "check" /\ ride' = ride /\ OnTrip' = OnTrip
    BY <1>6 DEF StatusCheck, trip, OnTrip
  <2>2. CASE row.suspended
    <3>1. Settled(~toggle.to) /\ (~toggle.to) \in BOOLEAN
      BY <1>0, <1>6, <2>2, ToggleRows DEF StatusCheck
    <3> QED BY <2>1, <3>1, SettledCurrent
  <2>3. CASE ~row.suspended
    <3>1. toggle'.at = "write" /\ poll' = poll  BY <1>0, <1>6, <2>3, ToggleRows DEF StatusCheck
    <3> QED BY <2>1, <3>1 DEF Current
  <2> QED BY <2>2, <2>3
<1>7. CASE StatusWrite
  <2>1. toggle.at = "write" /\ OnTrip' = OnTrip  BY <1>7 DEF StatusWrite, trip, OnTrip
  <2>2. toggle'.at = "answer"  BY <1>0, <1>7, ToggleRows DEF StatusWrite
  <2>3. poll'.at = poll.at /\ (poll'.stale => poll.at = "answer")
    <3>1. (poll.at = "answer") \in BOOLEAN  OBVIOUS
    <3>2. poll' = Marked(poll, poll.at = "answer")  BY <1>7 DEF StatusWrite, Marked
    <3> QED BY <1>0, <3>1, <3>2, PollRows
  <2> QED BY <2>1, <2>2, <2>3 DEF Current
<1>8. CASE StatusAnswer
  <2>1. /\ Settled(app.isOnline) /\ app.isOnline \in BOOLEAN
        /\ toggle.at # "idle" /\ ride' = ride
    BY <1>8, AppRows DEF StatusAnswer, trip, Typed, TypeOK
  <2> QED BY <2>1, SettledCurrent
<1>9. CASE ToggleFails
  <2>1. /\ Settled(~toggle.to) /\ (~toggle.to) \in BOOLEAN /\ ride' = ride
        /\ toggle # NoToggle
    BY <1>0, <1>9, ToggleRows DEF ToggleFails, trip
  <2>2. CASE toggle.at # "idle"  BY <2>1, <2>2, SettledCurrent
  <2>3. CASE toggle.at = "idle"
    <3>1. toggle'.at = "idle" /\ ~poll.stale  BY <2>1, <2>3, ToggleRows DEF Settled, Current
    <3>2. poll' = poll \/ poll' = Refetch  BY <2>1 DEF Settled
    <3> QED BY <3>1, <3>2, PollRows, ZenonT(60) DEF Current
  <2> QED BY <2>2, <2>3
<1>10. CASE SummaryPoll
  <2>1. ~OnTrip /\ OnTrip' = OnTrip /\ poll'.stale = FALSE
    BY <1>10, PollRows DEF SummaryPoll, OnDashboard, trip, OnTrip
  <2> QED BY <2>1 DEF Current
<1>11. CASE SummaryRead
  <2>1. poll.at = "asked" /\ UNCHANGED toggle /\ OnTrip' = OnTrip
    BY <1>11 DEF SummaryRead, trip, OnTrip
  <2>2. poll' = Read(poll, row.isOnline) /\ row.isOnline \in BOOLEAN
    BY <1>11, DriverRows DEF SummaryRead, Read, Typed, TypeOK
  <2>3. poll'.stale => poll.stale  BY <1>0, <2>2, ReadRow
  <2>4. ~poll.stale  BY <2>1 DEF Current
  <2> QED BY <2>1, <2>3, <2>4 DEF Current
<1>12. CASE SummaryAnswer  BY <1>p, <1>12 DEF SummaryAnswer
<1>13. ASSUME NEW p \in Ping, Report(p) \/ HandleReport(p) \/ ReportFails(p) PROVE Current'
  <2>1. UNCHANGED <<poll, toggle>>
    BY <1>13 DEF Report, HandleReport, ReportFails, ReportRide, Increment, CountConfirmations,
                 Arrive, Reset, screen
  <2>2. OnTrip' => OnTrip
    <3>1. CASE Arrive(p)  BY <3>1 DEF Arrive, OnTrip
    <3>2. CASE Increment(p)  BY <3>2 DEF Increment, OnTrip
    <3>3. CASE Reset(p)
      <4>1. ride' = ride \/ ride.status = "arriving"  BY <3>3 DEF Reset
      <4> QED BY <4>1 DEF OnTrip
    <3>4. CASE ride' = ride  BY <3>4 DEF OnTrip
    <3> QED BY <1>13, <3>1, <3>2, <3>3, <3>4
            DEF Report, HandleReport, ReportFails, ReportRide, CountConfirmations
  <2> QED BY <1>1, <2>1, <2>2
<1>14. CASE Offer
  <2>1. ~OnTrip'  BY <1>14, RideRows DEF Offer, OnTrip
  <2> QED BY <1>1, <1>14, <2>1 DEF Offer, screen
<1>15. CASE RideOver
  <2>1. ~OnTrip'  BY <1>15, RideRows DEF RideOver, OnTrip
  <2> QED BY <1>1, <1>15, <2>1 DEF RideOver, screen
<1>16. CASE Restart
  <2>1. CASE toggle = NoToggle  BY <1>p, <1>16, <2>1 DEF Restart
  <2>2. CASE toggle # NoToggle
    <3>1. Settled(~toggle.to) /\ (~toggle.to) \in BOOLEAN /\ ride' = ride
      BY <1>0, <1>16, <2>2, ToggleRows DEF Restart
    <3>2. CASE toggle.at # "idle"  BY <3>1, <3>2, SettledCurrent
    <3>3. CASE toggle.at = "idle"
      <4>1. toggle'.at = "idle" /\ ~poll.stale  BY <3>1, <3>3, ToggleRows DEF Settled, Current
      <4>2. poll' = poll \/ poll' = Refetch  BY <3>1 DEF Settled
      <4> QED BY <4>1, <4>2, PollRows, ZenonT(60) DEF Current
    <3> QED BY <3>2, <3>3
  <2> QED BY <2>1, <2>2
<1>17. CASE UNCHANGED dvars  BY <1>1, <1>17 DEF dvars, screen, trip, OnTrip
<1>18. CASE \/ Connect \/ Disconnect \/ LocationAges \/ Suspend \/ Unsuspend
            \/ \E t \in Timer : TimerFires(t) \/ TimerWrites(t)
  BY <1>1, <1>18 DEF Connect, Disconnect, LocationAges, Suspend, Unsuspend, TimerFires,
                     TimerWrites, trip, screen, OnTrip
<1>19. CASE Pick \/ AcceptTap \/ AcceptCheck
  BY <1>1, <1>19 DEF Pick, AcceptTap, AcceptCheck, trip, screen, OnTrip
<1> QED BY <1>3, <1>4, <1>5, <1>6, <1>7, <1>8, <1>9, <1>10, <1>11, <1>12, <1>13, <1>14, <1>15,
           <1>16, <1>17, <1>18, <1>19
        DEF Next, HandleStatus, FetchSummary

(* Once a toggle has settled no summary read before its write is still to be  *)
(* shown, also when the app was closed, or a ride came, in between.           *)
THEOREM TheSwitchHolds == Spec => []SwitchHolds
<1>1. Init => Current
  <2> SUFFICES ASSUME Init PROVE Current  OBVIOUS
  <2>1. poll.stale = FALSE /\ poll.at = "idle"  BY PollRows DEF Init
  <2> QED BY <2>1 DEF Current
<1>2. Typed /\ Current => SwitchHolds
  BY ToggleRows DEF Current, SwitchHolds
<1> QED BY <1>1, <1>2, CurrentStep, TypedAlways, PTL DEF Spec

-----------------------------------------------------------------------------
(* Suspension *)

(* What could still put a suspended driver online, or give one a ride, was    *)
(* under way when the suspension came.                                        *)
Exempted ==
  row.suspended =>
    /\ toggle.at = "write" /\ toggle.to => "toggle" \in exempt
    /\ accept = "write" => "accept" \in exempt
    /\ pick => "pick" \in exempt

LEMMA ExemptedStep == Typed /\ Exempted /\ [Next]_dvars => Exempted'
<1> SUFFICES ASSUME Typed, Exempted, [Next]_dvars PROVE Exempted'  OBVIOUS
<1>0. row \in DriverRow /\ toggle \in ToggleRow  BY DEF Typed, TypeOK
<1>1. CASE UNCHANGED <<row, toggle, accept, pick, exempt>>  BY <1>1 DEF Exempted
<1>2. ASSUME row'.suspended => row.suspended, UNCHANGED <<toggle, accept, pick, exempt>>
      PROVE  Exempted'
  BY <1>2 DEF Exempted
<1>3. ASSUME NEW value, Settled(value) PROVE toggle'.at = "idle"
  BY <1>3, ToggleRows DEF Settled
<1>4. ASSUME toggle'.at # "write", UNCHANGED <<row, accept, pick>>, exempt \ {"toggle"} \subseteq exempt'
      PROVE  Exempted'
  BY <1>4 DEF Exempted
<1>5. ASSUME NEW t \in Timer, TimerFires(t) \/ TimerWrites(t) PROVE Exempted'
  <2>1. row' = row \/ row' = [row EXCEPT !.isOnline = FALSE]
    BY <1>5 DEF TimerFires, TimerWrites
  <2>2. row'.suspended => row.suspended  BY <1>0, <2>1 DEF DriverRow
  <2> QED BY <1>2, <1>5, <2>2 DEF TimerFires, TimerWrites, screen, match
<1>6. ASSUME NEW next \in BOOLEAN, Toggle(next) PROVE Exempted'
  <2>1. toggle'.at = "write" => ~toggle'.to  BY <1>6 DEF Toggle
  <2> QED BY <1>6, <2>1 DEF Toggle, match, Exempted
<1>7. CASE StatusCheck
  <2>1. UNCHANGED <<row, accept, pick, exempt>>  BY <1>7 DEF StatusCheck, match
  <2>2. CASE row.suspended
    <3>1. toggle'.at = "idle"  BY <1>3, <1>7, <2>2 DEF StatusCheck
    <3> QED BY <1>4, <2>1, <3>1
  <2>3. CASE ~row.suspended  BY <2>1, <2>3 DEF Exempted
  <2> QED BY <2>2, <2>3
<1>8. CASE StatusWrite
  <2>1. /\ toggle'.at = "answer" /\ UNCHANGED <<accept, pick>> /\ exempt' = exempt \ {"toggle"}
        /\ row' = [row EXCEPT !.isOnline = toggle.to]
    BY <1>0, <1>8, ToggleRows DEF StatusWrite, match
  <2>2. row'.suspended => row.suspended  BY <1>0, <2>1 DEF DriverRow
  <2> QED BY <2>1, <2>2 DEF Exempted
<1>9. CASE StatusAnswer \/ ToggleFails
  <2>1. toggle'.at = "idle"  BY <1>3, <1>9 DEF StatusAnswer, ToggleFails
  <2> QED BY <1>4, <1>9, <2>1 DEF StatusAnswer, ToggleFails, match
<1>10. ASSUME NEW p \in Ping, Report(p) \/ HandleReport(p) \/ ReportFails(p) PROVE Exempted'
  <2>1. row' = row \/ row' = [row EXCEPT !.fresh = TRUE]
    BY <1>10 DEF Report, HandleReport, ReportFails, ReportRide, Increment, CountConfirmations,
                 Arrive, Reset
  <2>2. row'.suspended => row.suspended  BY <1>0, <2>1 DEF DriverRow
  <2> QED BY <1>2, <1>10, <2>2 DEF Report, HandleReport, ReportFails, ReportRide, Increment,
                                   CountConfirmations, Arrive, Reset, screen, match
<1>11. CASE LocationAges
  <2>1. row'.suspended => row.suspended  BY <1>0, <1>11 DEF LocationAges, DriverRow
  <2> QED BY <1>2, <1>11, <2>1 DEF LocationAges, screen, match
<1>12. CASE Pick
  <2>1. ~row.suspended /\ row' = row  BY <1>12 DEF Pick, Eligible
  <2> QED BY <2>1 DEF Exempted
<1>13. CASE Offer
  <2>1. /\ pick' = FALSE /\ exempt' = exempt \ {"pick"} /\ UNCHANGED <<row, toggle, accept>>
    BY <1>13 DEF Offer, screen
  <2> QED BY <2>1 DEF Exempted
<1>14. CASE AcceptTap \/ AcceptCheck
  <2>1. UNCHANGED <<row, toggle, pick, exempt>>
        /\ (accept' = "write" => accept = "write" \/ ~row.suspended)
    BY <1>14 DEF AcceptTap, AcceptCheck, screen
  <2> QED BY <2>1 DEF Exempted
<1>15. CASE AcceptWrite \/ RideOver
  <2>1. /\ accept' = "idle" /\ exempt' = exempt \ {"accept"} /\ UNCHANGED <<row, toggle, pick>>
    BY <1>15 DEF AcceptWrite, RideOver, screen
  <2> QED BY <2>1 DEF Exempted
<1>16. CASE Suspend
  BY <1>16 DEF Suspend, screen, match, Exempted
<1>17. CASE Unsuspend
  <2>1. ~row'.suspended  BY <1>0, <1>17 DEF Unsuspend, DriverRow
  <2> QED BY <2>1 DEF Exempted
<1>18. CASE Restart
  <2>1. toggle'.at = "idle"
    <3>1. CASE toggle = NoToggle
      <4>1. toggle' = NoToggle  BY <1>18, <3>1 DEF Restart
      <4> QED BY <4>1, ToggleRows
    <3>2. CASE toggle # NoToggle  BY <1>3, <1>18, <3>2 DEF Restart
    <3> QED BY <3>1, <3>2
  <2>2. accept' = "idle" /\ pick' = FALSE  BY <1>18 DEF Restart
  <2> QED BY <2>1, <2>2 DEF Exempted
<1>19. CASE Connect \/ Disconnect \/ OpenApp \/ CloseApp \/ FetchSummary \/ UNCHANGED dvars
  BY <1>1, <1>19 DEF Connect, Disconnect, OpenApp, CloseApp, FetchSummary, SummaryPoll,
                     SummaryRead, SummaryAnswer, dvars, screen, match
<1> QED BY <1>5, <1>6, <1>7, <1>8, <1>9, <1>10, <1>11, <1>12, <1>13, <1>14, <1>15, <1>16,
           <1>17, <1>18, <1>19
        DEF Next, HandleStatus

LEMMA RidesMove ==
  ASSUME Next
  PROVE  \/ Offer \/ AcceptWrite \/ RideOver \/ ride' = ride
         \/ \E p \in Ping : Increment(p) \/ Arrive(p) \/ Reset(p)
BY DEF Next, Connect, Disconnect, TimerFires, TimerWrites, OpenApp, CloseApp,
       Toggle, HandleStatus, StatusCheck, StatusWrite, StatusAnswer, ToggleFails,
       FetchSummary, SummaryPoll, SummaryRead, SummaryAnswer, Report, HandleReport,
       ReportRide, CountConfirmations, ReportFails, LocationAges, Pick, AcceptTap,
       AcceptCheck, Suspend, Unsuspend, Restart, trip

(* A suspended driver goes online, is offered a ride or gets one only by a    *)
(* statement whose check had passed before the suspension.                    *)
THEOREM SuspensionsTakeEffect == Spec => SuspensionTakesEffect
<1>1. Init => Exempted  BY DEF Init, Exempted
<1>2. Typed /\ Exempted /\ [Next]_dvars
      => [row.suspended =>
            /\ (~row.isOnline /\ row'.isOnline) => "toggle" \in exempt
            /\ (ride.status = "none" /\ ride'.status = "offered") => "pick" \in exempt
            /\ (ride.status = "offered" /\ ride'.status = "arriving") => "accept" \in exempt]_dvars
  <2> SUFFICES ASSUME Typed, Exempted, Next, row.suspended
               PROVE  /\ (~row.isOnline /\ row'.isOnline) => "toggle" \in exempt
                      /\ (ride.status = "none" /\ ride'.status = "offered") => "pick" \in exempt
                      /\ (ride.status = "offered" /\ ride'.status = "arriving") => "accept" \in exempt
    OBVIOUS
  <2>0. row \in DriverRow /\ toggle \in ToggleRow /\ ride \in RideRow  BY DEF Typed, TypeOK
  <2>1. ASSUME ~row.isOnline, row'.isOnline PROVE "toggle" \in exempt
    <3>1. StatusWrite
      <4>1. ASSUME \/ row' = row
                   \/ row' = [row EXCEPT !.isOnline = FALSE]
                   \/ \E b \in BOOLEAN : row' = [row EXCEPT !.fresh = b]
                   \/ \E b \in BOOLEAN : row' = [row EXCEPT !.suspended = b]
            PROVE  FALSE
        BY <2>0, <2>1, <4>1 DEF DriverRow
      <4> QED BY <4>1 DEF Next, Connect, Disconnect, TimerFires, TimerWrites, OpenApp, CloseApp,
                   Toggle, HandleStatus, StatusCheck, StatusAnswer, ToggleFails, FetchSummary,
                   SummaryPoll, SummaryRead, SummaryAnswer, Report, HandleReport, ReportRide,
                   Increment, CountConfirmations, Arrive, Reset, ReportFails, LocationAges,
                   Pick, Offer, AcceptTap, AcceptCheck, AcceptWrite, RideOver, Suspend,
                   Unsuspend, Restart
    <3>2. toggle.at = "write" /\ row' = [row EXCEPT !.isOnline = toggle.to]
      BY <3>1 DEF StatusWrite
    <3>3. toggle.to  BY <2>0, <2>1, <3>2 DEF DriverRow
    <3> QED BY <3>2, <3>3 DEF Exempted
  <2>2. ASSUME ride.status = "none", ride'.status = "offered" PROVE "pick" \in exempt
    <3>1. Offer
      BY <2>2, RidesMove, RideRows DEF AcceptWrite, RideOver, Increment, Arrive, Reset
    <3> QED BY <3>1 DEF Offer, Exempted
  <2>3. ASSUME ride.status = "offered", ride'.status = "arriving" PROVE "accept" \in exempt
    <3>1. AcceptWrite
      BY <2>3, RidesMove, RideRows DEF Offer, RideOver, Increment, Arrive, Reset
    <3> QED BY <3>1 DEF AcceptWrite, Exempted
  <2> QED BY <2>1, <2>2, <2>3
<1> QED BY <1>1, <1>2, ExemptedStep, TypedAlways, PTL DEF Spec, SuspensionTakesEffect
=============================================================================
