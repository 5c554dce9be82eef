# TRYLO, specified

TRYLO is a ride-hailing platform: an Express and Socket.IO API over PostgreSQL
(`apps/api`), and customer, driver and admin web clients that share one API
client (`packages/mock-data`) and one component library (`packages/ui`). This
directory holds TLA+ modules of the parts in which several users, requests,
pages, pushes and background loops meet, the configurations that check them
with TLC, and theorems about them that TLAPS checks.

Paths below are relative to the repository; `routes/`, `matching/`, `lib/`,
`auth/` and `realtime/` are those of `apps/api/src/`, `hooks/` and
`apiClient.ts` those of `packages/mock-data/src/`.

## 1. The system

### Shape

* One Node process normally serves everything; during a rolling deploy two do.
  Handlers interleave at every `await`, that is at every database statement.
* All shared state is in PostgreSQL, at READ COMMITTED. A single UPDATE is
  atomic and re-evaluates its WHERE after waiting for a row lock. There are few
  transactions: ending a ride, cancelling it as a customer, rating, topping up.
* The matching loop (`matching/matcher.ts`) is a timer in the process. A flag
  keeps the ticks of one process from overlapping; nothing keeps two processes
  apart.
* Connection counts, offline timers and room membership are memory of the
  process and end with it.
* The clients keep answers in a react-query cache. Polls renew it, pushes write
  into it, mutations update it before and after they are answered, so its
  writers overtake each other. A mutation that succeeds invalidates it.

### Components

| component | state | what makes it hard | modules |
|---|---|---|---|
| Ride dispatch (`routes/customerRide`, `routes/driverRide`, `matching/matcher`, `lib/rideHistory`) | Ride, RideStatusHistory, acceptance counters | reads that are acted on later; some writes are guarded by status, some only by id | `RideDispatch`, `OfferScreen` |
| Wallet and settlement (wallet, end, cancel, rate) | walletBalance, WalletTransaction, DriverEarning, payment and tip of a ride | READ COMMITTED transactions that read a balance and decrement it later | `Settlement` |
| Payouts (`routes/driverEarnings`, `routes/adminPayouts`) | PayoutRecord, over Settlement's DriverEarning | two aggregates, then an insert, while rides end and admins decide; decisions from a page listed earlier | `Payouts` |
| Sessions and OTP (`auth/*`, `apiClient.ts`) | Session, OtpChallenge, tokens in localStorage | rotation reads before it revokes; calls, tabs and retries share tokens | `Sessions` |
| KYC (`lib/kyc`, `routes/driverAuth`, `routes/adminDrivers`, the onboarding pages) | KycDocument, verificationStatus | two statements each; polls and admins race | `Verification` |
| Presence (`realtime/io`, `POST /driver/status`, the dashboard's switch) | connection counts, timers, Driver.isOnline, suspended | memory, table and screen drift apart; restart | `OnDuty` |
| Arrival (`POST /driver/location`) | arrivalConfirmations | overlapping reports | `OnDuty` |
| What the apps show of a ride (hooks and ride pages) | caches, pages, pushes | order of polls, pushes and reloads | `LiveRide` |
| Rooms and chat (`realtime/io`, `socketClient.ts`, `useRideChat`) | room membership, chat cache | membership ends with a connection | `RideChannel` |
| SOS | SosAlert, notices to admins | deduplication reads before it inserts; retries; restart | `SosAlerts` |
| Fares, promo codes, booking | PromoCode, estimates in the cache | a price computed earlier, for a point near by, with a code switched since | `Fares`, `Booking` |
| The map and its pickers (`premium-map`, `location-search-sheet`, `map-location-picker`) | camera, route, marker, search | answers that overtake each other; timers; a finger on the map | `PlacePicker`, `TripMap` |
| Ratings | rating columns and averages | read-all-then-write in overlapping transactions | `Ratings` |
| Notifications and support | two lists of rows and their screens | a fetch that read before a mark is answered after it | `Inbox` |
| Saved places | SavedPlace, the profile page | find, then update or insert, without an index | `SavedPlaces` |
| Admin tables, analytics, audit; rate limits; address proxy; deployment | | queries, library configuration, external services | none: section 6 |

### What must hold

* Dispatch: one active ride per rider and per driver; every ride follows the
  status machine; an accepted ride is not handed to somebody else; fees and
  audit rows belong to what happened; the acceptance rate is a share; a driver
  is refused only what is gone.
* Settlement: the balance is the sum of its transactions; a ride is charged,
  and a driver credited, exactly once and by the same amounts; a tip settles
  once.
* Payouts: no rupee is withdrawn twice; what has been paid out stays processed,
  and nothing that was rejected is paid out.
* Sessions: a refresh token is exchanged once; a code signs in once; the tabs
  do not log their own user out; no call waits for ever.
* KYC: nobody drives unseen; a rejection is not overturned by a poll; whoever
  has done everything asked for is let through.
* On duty: a settled switch stays; it shows the row in the end; suspension
  holds for everything that begins after it; an arrival is confirmed by
  consecutive reports.
* Live ride: a page ends up showing the row; a reload leads back to the ride;
  a cancelled ride releases its driver.
* Booking: the fare of a ride is the one of its own trip and code; a rider who
  keeps trying gets a ride.
* Map: what is shown and booked belongs to what was asked last; the map does
  not move from under a finger.
* Contact: an open page hears its room; an alert reported as sent exists; a
  score is the average of its ratings; a marked row is shown as marked; Home
  and Work have one row each.

The hazards, each at its line, are in `PROJECT.json`.

## 2. The modules

| module | what it is |
|---|---|
| `RideLifecycle` | abstract: the status machine of a ride, who may end it from where, one active ride per rider |
| `RideDispatch` | table Ride and everything that writes it: customer and driver handlers, the matching loop, the clock, faults |
| `RideDispatchProofs` | exclusion, fees, no reassignment, the audit rows; RideDispatch implements RideLifecycle |
| `Settlement` | the transactions that move money, over rides that move by the steps of RideLifecycle |
| `Payouts` | withdrawals of what Settlement has earned a driver, and their decision on the admins' page; extends Settlement |
| `SettlementProofs` | the books, the ride and the withdrawals |
| `Sessions`, `SessionsProofs` | one user's tokens, codes, tabs and calls |
| `Verification`, `VerificationProofs` | one driver from sign-up to the dashboard, with polls and admins |
| `OnDuty`, `OnDutyProofs` | one driver's switch, connections, position reports and suspension |
| `LiveRide` | one ride as its rider's or its driver's app follows it |
| `Fares` | the fare's arithmetic and the check of a submitted fare |
| `Booking`, `BookingProofs` | choosing a trip, estimates, codes, POST /customer/rides; extends Fares, whose two sides are proved to agree |
| `PlacePicker` | the search field and the map picker |
| `TripMap`, `TripMapProofs` | the map on three pages; extends PlacePicker |
| `OfferScreen` | one driver's offers: poll, push, countdown, repeated answers |
| `RideChannel` | one phone's room membership, chat and toasts |
| `SosAlerts` | emergency alerts of both sides; extends RideChannel |
| `Ratings` | both sides' ratings and averages |
| `Inbox` | notifications or support tickets on one screen |
| `SavedPlaces` | Home and Work |
| `Contact`, `ContactProofs` | composes the last six over one ride; the proofs about each of them |
| `MC...` | what TLC needs: symmetry sets, cuts, functions as values, the part a behaviour follows |

`RideLifecycle` is the interface between dispatch and settlement: RideDispatch
is proved to implement it, and Settlement takes its ride steps from it and is
proved to keep it although a commit comes long after its guard was evaluated.
The other modules meet in rows that RideDispatch owns; each takes of the row
what it needs and lets the rest happen as the lifecycle allows. LiveRide and
OfferScreen treat a server step as one statement, which RideDispatch takes
apart. Names ending a definition's comment with "Mutation:" are plausible bugs
for the checks of section 3 and part of no specification.

### RideDispatch

*State.* `ride` is the table (a record per row, `NoRow` before the INSERT),
its field `been` remembers every status written to it, `history` counts
RideStatusHistory rows per ride and status, `stats` holds
offeredCount and acceptedCount, `req` the local variables of each HTTP request
in flight, `loop` those of each process's matching pass.

*Steps.* One action is one statement. A handler that reads and then writes is
two actions, with what it read in `req[q]`: `CreateRead` and `CreateInsert`,
`CustomerCancelRead` and `CustomerCancelCommit`, `IncomingRead` or `RejectRead`
and `ReleaseOffer`, `LocationRead` and `LocationArrive`. Handlers whose guard is
in the WHERE of one UPDATE are one action (`Accept`, `DriverCancel`,
`VerifyOtp`, `EndRide`). What follows the write (the history row and
acceptedCount) is `Afterwards`, which a fault may lose. A tick of the loop runs
`TickStart`, `ExpireOffer`*, `ListUnassigned`, `ListBusy`, then per ride `Offer`
and `CountOffer`, `NoOffer`, `OfferConflict` or `CancelUndispatchable`, then
`ListAged`, `CancelStale`*, `TickEnd`.

*Which writes are guarded* is the heart of it: `Released` (reject, the expired
branch of requests/incoming, expireStaleOffers) and `CancelUndispatchable` are
UPDATEs by id; all other status writes name the status they expect. The two
partial unique indexes are `RiderIndexAllows` and `DriverIndexAllows`.

*Abstractions.* Time is the flag `due`, which `TimePasses` sets: 15 seconds of
an offer or the hours of a committed ride. Scores, distance, radius and
eligibility are any choice of a driver who is neither busy nor excluded, or of
none. The order of the unassigned rides is any order. The length of
excludedDriverIds is counted up to MAX_MATCH_ATTEMPTS. Arrival is the ping that
confirms it; OnDuty counts the confirmations. `Afterwards` does its two
statements in one step. `Crash` restarts all processes.

### Settlement

*State.* `status`, `rider`, `by` are those of RideLifecycle, `driver` is driverId;
`bill` holds paymentStatus, tip and whether tipSettledAt is set; `earning` is
DriverEarning by ride; WalletTransaction appears twice, grouped by ride and
category in `charged` and by rider in `ledger`; `balance` is walletBalance; `tx`
holds the requests.

*Steps.* A transaction is `...Begin`, which takes the row locks, evaluates the
WHERE and reads the balance, and `...Commit`, which applies all its writes to
the rows as they are by then (a decrement is relative). `Rollback` may come at
any time. Taking the locks and reading in one step loses nothing: acquiring a
lock only waits for others, and the guarded UPDATE of a row that stays locked is
not visible until the commit. /end and /rate lock ride, then driver, then user,
/cancel ride, then user, so no cycle of waiting arises. /cancel reads the status
before its transaction (`CancelRead`) and decides lateness from it. Dispatch
steps on a locked ride wait. `TakeOff` is the withdrawal by id of RideDispatch,
which may remove a driver at any status.

### Payouts

*State.* `payout` is PayoutRecord; a slot of `asked` is a dialog with the request
it waits for and what that has read; `listed` is the admins' page and `deciding`
the decisions on their way, at most one of each button; `sent` remembers what has
been processed, because the money is gone then. The earnings are Settlement's
`earning` rows, so that rides end, tips settle and transactions roll back
between the statements of a request.

*Steps.* `Ask`, then `ReadEarned` and `ReadRequested` in either order
(Promise.all), then `Insert`, which inserts or refuses; `Fail` at any time.
`ListPayouts` and `Tap` are the page, `Decide` is the pending-only UPDATE. All other
steps are Settlement's.

*Sums.* `Sum` counts rupees: each is a pair of its row and a number up to the
row's amount. A sum is then a cardinality, and what the theorems about finite
sets say of it can be cited, where a fold would need induction.

### Sessions

`session` is the table of refresh tokens (free, live, revoked, expired),
`challenge` the open codes, `user` the row. Per browser: `store`, the pair in
localStorage that all tabs share. Per tab: `page`, `refresh` (refreshInFlight
and the handler it waits for) and `form` (the login or logout submitted). `call`
holds API calls with the access token they were sent with, whether they are the
retry, and whether they wait for a refresh. The rotation is `found`, `revoked`,
`issued`: find the live session, revoke it, create the next one. The code is
consumed by one guarded UPDATE. A token's name is reused once nobody holds it,
so behaviours are infinite over few names; `Token` must have one name more than
can be held (`EnoughNames`). Faults: an answer lost, or a tab closed in between.

### Verification

`row` and `docs` are the driver and its documents, `aged` the documents under
review long enough for `verifyIfAged`. `req` holds the sign-in and the two
polls, each `list`, `mark`, `read`, `driver`, `update` as `lib/kyc.ts` goes on;
`adm` an admin's decision between its two statements; `view` what each panel
shows. `page`, `session`, `shown` and `list` are the driver's app and its
caches. Sign-up creates the driver and then the documents and may fail in
between.

### OnDuty

`row` holds isOnline, suspended and whether the location is fresh; `count` and
`timer` are memory of the server: a timer started by the last disconnection
checks the count, then writes. `toggle` and `poll` are the app's POST /status
and GET /dashboard with the optimistic update (`app.isOnline`) and the
cancellation of queries in onMutate. `ping` is a position report after each of
its statements: read the ride, increment, count, arrive, or reset. `accept` and
`pick` have passed the suspension check and not yet written. A report is
inside, outside or too vague.

### LiveRide

`ride` is the row's status, `push` the set of pushes under way, which may come
in any order or never. `rider` and `driver` are the apps (page and caches);
`fetch`, `poll`, `order`, `query`, `task` are the requests in flight with their
answers. RiderEffects and DriverEffects are the pages' useEffects that redirect.
A behaviour follows one app: the other's requests come when they like.

### Booking, Fares

`Fares` is `computeFare` and `isValidFare` in integers: hundredths of a
kilometre, rounding as Math.round does. `Booking` has the table of codes
(`promo`) with the fallback to the built-in ones while none is active, the booking
store (`trip`), requests for the location (`locating`), the cache of estimates
by rounded points and code with its 30 seconds (`old`), the POST in three steps
(`Check` prices it and consults the code, `Insert`, `Answered`), and the page
that is left and remounted meanwhile.

### PlacePicker, TripMap

`field` is the sheet's search (300 ms timer, latest request, late answers),
`picker` the map picker (camera, the address asked for, late answers), `drop`
the destination booked. `map` loads or fails; `route` holds the fetches under
way, the line and the kilometres shown; `car` the glide and the turn of the
marker between fixes; `follow` the camera that pauses when the rider drags and
resumes after a while; `view` what the camera was last moved to. The
street is a line, angles are eighths of a turn, an animation has two frames.

### Contact and its parts

`OfferScreen` has each ride as far as it concerns this driver, the cached offer
and its overlay, which the poll, both pushes and both mutations write, and
accept and reject calls whose answers may be lost. `RideChannel` has one phone:
its socket with the room and a join being handled, which may fail unnoticed
(`missed` remembers it), its page, the chat cache and history request, pushes in
order; `driver` is whether the ride has its driver still, whom a withdrawal by
id may take off (`TakenOff`). `SosAlerts` adds calls of both sides through
their statements: find a recent alert, insert it, tell the admins (there is one:
`index.ts:49`). `Ratings` has transactions that lock the ride, write its column,
read all ratings and write the average; `passed` remembers of an open one that
another about the same side has committed since it read, `torn` the sides whose
last commit was of such a one. `Inbox` is one of three screens (bell, dialog, desk) over one list.
`SavedPlaces` has saves in flight: find, then update or insert; `crossed`
remembers the slots of which one save was looked up while another had not yet
written. `Contact` lets
the ride go on for all of them (`GoOn`); a driver on the way is not on the
screen with offers, a ride that is over can be rated.

## 3. What TLC checks

| run | instance | shows |
|---|---|---|
| progress | 1 rider, 2 drivers, 1 ride, 2 requests, 1 matcher, 2 attempts, 1 fault; fair | fees only for accepted rides, faithful audit rows, no reassignment, an acceptance rate that is a share, RideLifecycle implemented; silent offers are withdrawn, committed rides end |
| rolling_deploy | 2 riders, 1 driver, 2 rides, 2 requests, 2 matchers | one active ride per rider and per driver, with stale busy sets and overlapping bookings |
| money | 1 rider, 2 drivers, 2 rides of fare 1, 2 transactions, tips 0 to 2, top-ups of 2 up to 4; or 1 /end at a time, 2 dialogs, 2 payouts of 1 or 2, the admins' page | the books, outcomes and charges decided together and once, single settlement; no double withdrawal while a driver's requests do not overlap |
| withdrawn_twice | 1 driver, 1 ride, tips 0 and 1, 2 dialogs, 3 payouts | the same property refuted when they do |
| sessions | 1 tab with 2 calls, or 2 tabs with a form each; 1 code, 1 fault; fair | single use of tokens, a good stored token, launches keep their session, calls settle; of two verifications of one code, one passes |
| onboarding | 2 documents, 1 admin, 1 fault; fair | verified only when seen, rejections stand, uploads are answered |
| on_duty | 2 reports, 1 timer, 1 connection, 2 confirmations, 1 restart; fair | confirmed arrivals, a switch that holds and tells the truth, suspension |
| live_ride | one ride, 1 lost answer, 1 reload; fair | the page shows the row, a reload leads back, a cancelled ride lets its driver go |
| booking | 3 points (two share a cache cell), bike, surging, 2 codes (one built in), 1 POST, 2 choices, 2 upsets; fair | the fare is the one of the trip, a persistent rider gets a ride |
| trip_map | destinations 1 and 2 blocks away, one heading or none | address, route and camera belong to what was asked last |
| contact | see below | true refusals, room membership, alerts, scores, marks, single slots |
| two_homes | as contact | two Home rows, when two saves cross |

*Why these bounds.* A race here needs one stale reader and one or two writers on
one row: two requests beside the loop give every pair, and a third party is the
loop itself. Two drivers are needed to reassign, two rides to break a uniqueness
or to spend one balance twice, two tips of different amounts to distinguish a
stored from a settled one; with two attempts a ride runs out after two
exclusions. `money`: two drivers, so that a sum could count another's rows;
two rides, so that earnings grow between a read and an insert; two payouts, the
second of which is asked for against the first. Two calls share one refresh, two
forms present one code at once, and two documents distinguish all from some. Two
reports are enough for one that counts and one that resets, and one timer for one
that fires after a reconnection. Two points of one cache cell whose distances to the drop round to
different fares are what a stale estimate needs. Two destinations make an answer
late. `contact`: two trips of which one is on its way by push, one message with
one push and one lost connection, two alarm calls with one fault, two finished
rides with two ratings at 2 or 5 stars and one rollback, two rows in a list, two
places with one slot and two saves.

*Cuts.* States outside a cut are checked and not explored further, except that
TLC judges liveness on the graph inside it. `CalmAfterFault` (progress): after a
failure or restart, requests overlap the matching loop but not each other.
`Competing` (rolling_deploy): requests compete before any ride is offered while
the loops rest, and the loops before the trip, as long as a ride is left.
`OneRequestPerDriver` (money) is the condition of `NoDoubleWithdrawal`, and
withdrawn_twice shows that it is needed; decisions stand without it, which is
proved. `FewUnderWay` (contact): two of the driver's requests and the sweep at a
time. Symmetry is used only in runs without liveness.

*Parts.* `MCContact` chooses one of the six parts at the start (`focus`): they share
nothing but the course of the ride, so interleaving them multiplies states without
adding behaviours of any one. `MCPayouts` follows either the books, without
withdrawals, or withdrawals beside rides that end one at a time and are neither
cancelled nor rated. `MCSessions` follows either the calls of one tab, or the forms
of two tabs while no access token expires, since two tabs that refresh are known
to log each other out. Constants have the same value in both parts, so Token has
the six names that two tabs need; one tab uses four of them.

*Deadlock* is checked except in live_ride, booking and contact, whose behaviours
really end: the ride is over, and the choices, requests or rows are used up.

*Fairness.*

* progress: weak fairness of each request's remaining statements, because Node
  resumes every awaited handler; of each matcher's tick, because setInterval
  goes on and a failed tick is caught; of the clock. No user is obliged to
  accept, ping or cancel, and no driver needs to be free.
* sessions: of each refresh, submitted form and answer, which fetch settles.
* onboarding: of the poll the pending page repeats, its handler and redirect,
  and of time; no upload and no admin's decision is owed.
* on_duty: of the handler of a toggle and of the dashboard's polling.
* live_ride: of the polls and their answers, the effects of the pages, and the
  staleness of the cache; of no push.
* booking: of answers, located positions and ageing estimates, and of the page's
  effects; and *strong* fairness of booking and of going back, which is not the
  code's but a rider's who does not give up, as the property's name says.

*Mutants.* Each property of each passing run is violated under the run's own
configuration when one mapped definition is replaced by a plausible bug, listed
in `PROJECT.json`.

### Where the code does not do what it says

`withdrawn_twice`: two overlapping payout requests of one driver both aggregate
before either inserts, and the same earnings are withdrawn twice. The comment at
`routes/driverEarnings.routes.ts:107` claims the contrary; the run refutes it.

`two_homes`: the answer of a save of Home is lost, the rider saves again, both
requests look for a row before either inserts, and two Home rows are left. The
comment at `routes/customerMisc.routes.ts:60-61` calls Home and Work single-slot.

The models also contain the following behaviours. They are no runs of their own;
properties above are stated so that they hold beside them.

* A ride whose drivers are all excluded or busy is skipped and counts no
  attempt, so it stays requested for as long as nobody is free
  (`matching/matcher.ts:186`).
* A rejection or an expiry that read the offer before an accept removes the
  driver from the accepted ride by id; it waits without one for the stale sweep.
* With two matching loops, as during a deploy, one can exhaust the drivers of a ride
  from a list it read before the other offered it, and cancels it by id although it
  is under way by then; its audit rows then say both. Hence `SingleMatcher`.
* /cancel decides lateness from the status read before its transaction: an
  accept in between goes uncharged.
* Two debits about different rides (a tip and a late fee) read one balance and
  spend it twice; the balance goes below zero.
* A second rating replaces the tip shown as settled.
* Two tabs refresh the token they share: both exchange it, or the slower one is
  logged out. Hence one tab in the part of sessions that refreshes.
* A rejection that overlaps a poll's automatic verification can be overturned by
  it; `RejectionStands` speaks of rejections that ran undisturbed.
* A restart between an SOS row and the notice to the admins leaves the row
  without a notice, and the repetition within two minutes finds the row and
  sends none.
* The chat's history answer replaces the list and may drop a message pushed
  meanwhile, or a push may repeat one that it has; the unread badge counts by
  the length of the list. A `ride:message` has no acknowledgement and is lost
  with its connection.
* Two overlapping transactions that rate one person each read before the other
  commits; the average written last misses the other's rating until that person
  is rated again. `ScoresFollowRides` excepts the time between (`torn`).
* A `join:ride` whose read of the ride throws is logged by the handler of
  unhandled rejections (`index.ts:17`) and lost: the page stays out of its room,
  connected, until it is opened anew or the connection is replaced.
* A driver who was taken off an accepted ride by id still shows it until it is
  asked for again; his joins, messages and alerts are refused meanwhile.
* The countdown declines an offer although an accept of it is pending; and the
  answer to a decline clears the cached offer even when it is a newer one.
* A location asked for on /home with a drop chosen and found only after that
  ride leads to /booking with nothing to book, and from there back to /home.
* A rating answered late resets the booking store of a trip begun since.
* A promo code without a cap gives nothing; when every code has been switched
  off, the built-in ones work again, those switched off included.
* A save whose row has been removed meanwhile fails; a save's answer closes a
  dialog that has been filled in anew.
* The earnings page labels the total of the chosen period "Available to
  withdraw".

## 4. What is proved

The theorems hold for any sets of users, rides, requests, places and processes,
and for any bounds. They rest on the ASSUMEs of the modules (a null is no row,
amounts are natural numbers, sets of requests are finite where they are counted)
and, some of them, on one of four conditions. A run that checks the property
meets the condition too; without it the property really fails, as
section 3 tells of two matchers, overlapping withdrawals and two tabs:

| condition | theorems | it says |
|---|---|---|
| `SingleMatcher` | `Refinement`, `HistoryFollowsRides` | one process runs the matching loop |
| `OneRequestPerDriver` | `WithdrawnOnce` | a driver's requests for payouts come one at a time |
| `RefreshInTurn` | `TokensAreUsedOnce` | two tabs are never both on the server with a refresh |
| `OneTab` | `OneTabUsesOnce`, `LaunchesKeepSessions` | the user has one tab; it implies `RefreshInTurn` |

Every proof has the same plan: types first, then an invariant that is inductive
with them, one step per action. What follows is why each invariant is needed.

*RideDispatch.* Every step either leaves the table alone or rewrites one row in
one of nine ways (`EveryStepIsARowStep`), which splits each proof into a handful
of row lemmas. `RiderExclusion` and `DriverExclusion` are inductive with the
types: only an INSERT, and only an offer, can bring two active rows together,
and both are what the indexes guard. `FeesFollowAcceptance` and
`AcceptedRidesStay` need the strengthening `Acceptance`: a row at or beyond
arriving has been accepted, and a cancellation that read a late status
(`LateReads`) is about a ride that has been, since acceptance is never undone.
`Refinement` assumes a single matcher: its invariant `Listed` says that a ride
on the pass's list still has no driver or has been cancelled, which is why the
unguarded cancelUndispatchable is harmless there (to the status: the reason of a
cancellation the rider made in between is overwritten). With two matchers it is
not: the other process may have offered the ride, and a ride under way could be
cancelled by id.

`HistoryFollowsRides` is about audit rows that are written after the status, by
whoever wrote it, with anything in between: rows are only of statuses that were
written to the ride (`been`, which no guard reads), "arrived" and "in_progress"
included. Its invariant `Audit` counts what is
`Pending`: a status is logged, or one request or loop is still about to log it, and
no two are. This holds because a ride never enters again a status that it has
`Passed`, which is where the guarded writes and, for the unguarded one, `Listed`
come in.

`AcceptancesAreAnswers` is about two counters that are incremented after the
writes they count, offers by the loop and acceptances by a handler, with no
order between them. `Tally` balances them: acceptances counted, plus those of
handlers that have yet to count theirs, plus the offer that is out, are at most
the offers counted plus those of loops that have yet to count theirs. It is
inductive because a driver holds one offer at a time (`DriverExclusion`) and an
accept takes it from him; what is counted are finite sets of requests and loops
at work (`FewAtWork`), an invariant as well. A fault may lose the count of an
offer that is later accepted, so the property speaks of behaviours without one.

*Settlement.* The books are not inductive: a commit relies on what its
transaction saw. `Justified` says that it still holds at the commit; it is kept
because `LockHolds`: the ride of an open transaction is written by nobody else,
by `Exclusive`. From these, `Books` and `WalletReconciles` follow per commit
(`OutcomesAreAtomic`, `EarningsMatchCharges`, `BalancesReconcile`).
`SettledOnce` is the same argument about a step, `LifecycleKept` about the ride.
`ChargedOnce` is a conjunct of `SettlementIsAtomic`. (`LifecycleKept` is proved
only: no run states it. The same holds of `PaidOnce` below.)

*Payouts.* Its steps are Settlement's own or leave Settlement's variables alone
(`PayoutsRefine`), so that Settlement's invariants can be used. `PayoutsTypeCorrect` and
`PaidOnce` need no condition: a decision writes the row only while it is pending,
so what was sent stays processed. For `WithdrawnOnce`, that requests are covered
by earnings (`Covered`) is not inductive: an insert relies on two aggregates that
were read at different times. `Vouched` says in which direction they may be stale:
earnings have only grown since they were read, and what the driver has asked for
has only shrunk, since only his own next request could add to it and that waits.
Both rest on lemmas about sums (`SumGrows`, `SumAdds`, `SameSum`), hence on
cardinalities of finite sets; that the tables have finitely many rows that count
(`RowsAreFinite`) is an invariant, not an assumption.

*Sessions.* `CodesAreUsedOnce` is inductive with the types: what has been passed
and what is open never exceed one. `TokensAreUsedOnce` needs `UsedOnce`: a token
that has been exchanged is not live, and the one being exchanged has not been.
The rotation revokes what it *found*, so nothing but the order of two refreshes
keeps the second from finding it too, hence the condition. `TheStoredTokenIsGood`
holds for any number of tabs. `IssuedAlone` says that a token on its way to a
browser is live and that nobody else holds it; `Replaced` that without faults
whoever has revoked the stored token is still there to replace or clear it.
`LaunchesKeepSessions` adds `LaunchFine`: while nothing failed, the call of a
launch is the only one; either the stored token is live and no refresh is under
way, or it waits for a refresh that was sent with a live one; and a repetition
carries a valid access token.

*Verification.* `NobodyDrivesUnseen` needs that what the handlers carry is
founded (`SeenFirst`): a document in review, or due in a poll, has been uploaded;
an admin between the two statements of an approval has approved; a poll about to
write "verified" has found every document uploaded or the driver approved.
`RejectionsStand` speaks of everything still in flight: `RejectedAnew` says that
while a rejection stands, a document in review, due in a poll or verified was
uploaded since, no admin is between two statements, and a poll is about to
verify only a driver whose documents are all new.

*OnDuty.* `ArrivalsAreConfirmed`: until the arrival the row counts the
confirmations of the current run, and whichever report has counted enough of
them has them, whatever resets the count meanwhile (`Confirmed`).
`TheSwitchHolds`: a dashboard answer that is older than the switch exists only
between a toggle's write and its answer, because onMutate cancels the queries
(`Current`). `SuspensionsTakeEffect`: what could still put a suspended driver
online was under way when the suspension came (`Exempted`).

*Fares and Booking* (both in BookingProofs). `FaresAddUp`: the total is what its
parts add up to, less a discount
that never exceeds them. `ValidFaresAreComputed`: what `isValidFare` accepts is
what `computeFare` computes for the same trip, vehicle and terms with or without
surge, for every distance. The two functions are written apart in the code. The
arguments are linear facts about rounding, one lemma each. `FareFits`
(`FareFitsTrip`) strengthens the property about rides to one about every POST
that has been checked: its fare was valid for its own trip, whatever it was
estimated for. `LapsedGiveNothing` is the same about a discount: it comes from
a code that was on when the rider booked or later, or from a built-in one. It is
proved only.

*TripMap.* `AddressFits`, `SuggestionsFit`, `RouteFits` and `KeepsMap`, on
streets of any length. What makes them inductive is that an answer is kept with
what it was asked for and only the latest request may answer: every late answer
is in a set that nothing reads. `SuggestionsFit` is proved only.

*Contact.* The six theorems are about `Contact`'s specification, all parts at
work at once; `Steps` says what a step of it is to each part.

* `PagesAreHeard` (`RoomInv`): a page shows only a ride that is or was its side's,
  and a driver who was taken off is not let back, so that a join on its way is
  refused only to one who no longer owns the ride. Joins may fail; the property
  says so.
* `AlertsAreHeard` (`SosInv`): a call about to answer has an alert of its own side,
  created by itself or found, and without faults the admins know of it or are
  being told.
* `MarksAreShown` (`InboxInv`): a fetch that is still to be shown has read what was
  marked before, because a mutation's success asks anew and drops what was read;
  a row once dealt with stays so.
* `OffersRefused` (`OfferInv`): the phone knows a ride only from an offer, rows go
  on and not back, and a ride that was refused is over for this driver for good.
  A repeated accept is refused nothing that the first one got.
* `ScoresFollow` (`RatingsInv`): the average in an open transaction that no commit
  has overtaken is that of the ratings as its own commit will leave them; an
  overtaken one leaves its side in `torn` until one that was not commits.
* `SlotsHold`: a save that is about to insert has found its slot empty and, unless
  another crossed it, is the only one, so rows and pending inserts of a slot that
  is not in `crossed` are at most one. Each step is an argument about cardinalities.

*Only model-checked* is liveness, because it rests on fairness and ENABLED, which
the provers do not handle: `SilentOfferIsWithdrawn` and `CommittedRideEnds`
(progress), `CallsSettle` (sessions), `UploadsAreAnswered` (onboarding),
`SwitchTellsTheTruth` (on_duty), `RiderSeesTheRide`, `RefreshKeepsTheRide` and
`DriverIsReleased` (live_ride), `PersistentRiderGetsARide` (booking). All of
LiveRide's properties are of this kind, so it has no theorem. Every invariant and
every action property that a run checks is the statement of a theorem.

## 5. What could follow

1. Two drivers' OfferScreens over one RideDispatch, with the refinement from
   OfferScreen's server steps to RideDispatch's.
2. The list of an admin's drivers with its filters, over Verification.
3. The steps that liveness would be proved from (what each fair action leads to),
   as action properties.

## 6. Not modelled

* The admins' tables, dashboards, analytics and the audit log: queries and their
  layout. A customer's suspension is one statement that sign-in looks at;
  PATCH /admin/promos is modelled as the promos page uses it, to switch a code.
* Candidate scoring and the widening search radius: any choice of a free driver.
  What they compute needs the geometry of positions and no concurrency.
* Rate limits (configuration of a library), the geocoder and routing services
  (external; their answers are any, late or never), admin passwords.
* The earnings and history pages, themes, layout, formatting, and the parts of
  the profile page that only show data; payment methods, which have no operation
  that changes them.
* CI, Azure templates, seeds and the end-to-end scripts.
* Overflow of INTEGER columns: they hold two thousand million rupees, which the
  cap on a top-up puts out of reach of any realistic history.
