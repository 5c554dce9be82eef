------------------------------ MODULE Settlement ------------------------------
(***************************************************************************)
(* Where money moves: the transactions that end a ride, cancel it with a   *)
(* late fee and settle a tip, and the top-up, over the tables User, Ride,  *)
(* WalletTransaction and DriverEarning.                                    *)
(*                                                                         *)
(* A Prisma interactive transaction runs at READ COMMITTED.  Its first     *)
(* UPDATE locks the ride row and evaluates its WHERE there; /end and /rate  *)
(* then lock the driver row, in that order, so nothing deadlocks.  The     *)
(* balance is read without a lock and decremented last.  A transaction is  *)
(* therefore two steps: Begin takes the locks and reads, Commit makes every *)
(* write visible at once.  Rollback may come instead.  Rides move on by the *)
(* steps of RideLifecycle; a step on a locked row waits.                    *)
(* Fares, fee and tips are whole amounts; ratings are left out.             *)
(***************************************************************************)
EXTENDS Integers

CONSTANTS Rider, Driver, Ride,
          Request,    \* slots for the transactions in flight
          NoOne,      \* null
          Fare,       \* fareTotal
          Fee,        \* LATE_CANCELLATION_FEE_INR
          Tips,       \* tips that riders choose, 0 for none
          TopUps,     \* amounts of POST /customer/wallet/topup
          MaxCredit   \* bound on the sum of a rider's top-ups

ASSUME AmountsAssumption ==
  /\ Fare \in Nat /\ Fee \in Nat
  /\ Tips \subseteq Nat /\ TopUps \subseteq Nat \ {0}
  /\ MaxCredit \in Nat
ASSUME SettlementNoOneAssumption == NoOne \notin Rider \cup Driver \cup Ride

VARIABLES status, rider, by,   \* as in RideLifecycle
          driver,              \* driverId of each ride
          bill,                \* paymentStatus, tip and tipSettledAt of each ride
          charged,             \* debits of each ride, by category
          earning,             \* DriverEarning, a row for each ride that has a driver here
          balance,             \* walletBalance of each rider
          ledger,              \* sums of each rider's WalletTransaction rows
          tx                   \* the requests and their transactions

svars == <<status, rider, by, driver, bill, charged, earning, balance, ledger, tx>>

money == <<bill, charged, earning, balance, ledger>>
rides == <<status, rider, by, driver>>

Life == INSTANCE RideLifecycle

-----------------------------------------------------------------------------
Bill    == [payment : {"pending", "paid", "failed"}, tip : Nat, settled : BOOLEAN]
Charges == [ride : Nat, cancellation_fee : Nat, tip : Nat]
Earning == [driver : Driver \cup {NoOne}, amount : Nat, tip : Nat]
Ledger  == [credit : Nat, debit : Nat]

Idle == [op |-> "idle", on |-> NoOne, late |-> FALSE, tip |-> 0, pays |-> FALSE]

(* "cancelling": the handler has read the ride and not begun its transaction. *)
(* pays: the transaction has found a reason and the balance to charge.        *)
Task == {t \in [op   : {"idle", "cancelling", "cancel", "end", "rate"},
                on   : Ride \cup {NoOne},
                late : BOOLEAN,
                tip  : Nat,
                pays : BOOLEAN] : t.op # "idle" => t.on \in Ride}

Open(q) == tx[q].op \in {"cancel", "end", "rate"}

Locked(r) == \E q \in Request : Open(q) /\ tx[q].on = r

DriverLocked(d) ==
  \E q \in Request : tx[q].op \in {"end", "rate"} /\ driver[tx[q].on] = d

Slot(q, task) == tx' = [tx EXCEPT ![q] = task]

Covers(r, amount) == balance[rider[r]] >= amount

(* Mutation: the balance is kept from going negative, the row is not. *)
DebitClamped(r, category, amount) ==
  /\ balance' = [balance EXCEPT ![rider[r]] = IF @ > amount THEN @ - amount ELSE 0]
  /\ ledger'  = [ledger EXCEPT ![rider[r]].debit = @ + amount]
  /\ charged' = [charged EXCEPT ![r][category] = @ + amount]

(* The debit of a rider and its WalletTransaction row. *)
Debit(r, category, amount) ==
  /\ balance' = [balance EXCEPT ![rider[r]] = @ - amount]
  /\ ledger'  = [ledger EXCEPT ![rider[r]].debit = @ + amount]
  /\ charged' = [charged EXCEPT ![r][category] = @ + amount]

NoDebit == UNCHANGED <<balance, ledger, charged>>

-----------------------------------------------------------------------------
(* Mutation: the status is written before the transaction, as it once was. *)
EndBeginCompleting(q, d, r) ==
  /\ tx[q].op = "idle"
  /\ ~Locked(r) /\ ~DriverLocked(d)
  /\ driver[r] = d /\ status[r] = "in_progress"
  /\ Slot(q, [Idle EXCEPT !.op = "end", !.on = r, !.pays = Covers(r, Fare)])
  /\ status' = [status EXCEPT ![r] = "completed"]
  /\ UNCHANGED <<rider, by, driver, money>>

(* POST /driver/rides/:rideId/end: the guarded UPDATE, then the balance.      *)
EndBegin(q, d, r) ==
  /\ tx[q].op = "idle"
  /\ ~Locked(r) /\ ~DriverLocked(d)
  /\ driver[r] = d /\ status[r] = "in_progress"
  /\ Slot(q, [Idle EXCEPT !.op = "end", !.on = r, !.pays = Covers(r, Fare)])
  /\ UNCHANGED <<rides, money>>

EndCommit(q) ==
  LET r == tx[q].on IN
  /\ tx[q].op = "end"
  /\ status' = [status EXCEPT ![r] = "completed"]
  /\ IF tx[q].pays
       THEN /\ Debit(r, "ride", Fare)
            /\ earning' = [earning EXCEPT ![r] =
                             [driver |-> driver[r], amount |-> Fare, tip |-> 0]]
            /\ bill' = [bill EXCEPT ![r].payment = "paid"]
       ELSE /\ NoDebit
            /\ bill' = [bill EXCEPT ![r].payment = "failed"]
            /\ UNCHANGED earning
  /\ Slot(q, Idle)
  /\ UNCHANGED <<rider, by, driver>>

(* POST /customer/rides/:id/cancel: lateness of the status read ... *)
CancelRead(q, c, r) ==
  /\ tx[q].op = "idle"
  /\ rider[r] = c
  /\ Slot(q, [Idle EXCEPT !.op = "cancelling", !.on = r,
                          !.late = status[r] # "requested"])
  /\ UNCHANGED <<rides, money>>

(* ... then the transaction, whose UPDATE may find nothing left to cancel. *)
CancelBegin(q) ==
  LET r == tx[q].on IN
  /\ tx[q].op = "cancelling"
  /\ ~Locked(r)
  /\ Slot(q, IF status[r] \in {"requested", "matched", "arriving"}
               THEN [tx[q] EXCEPT !.op = "cancel",
                                  !.pays = tx[q].late /\ Covers(r, Fee)]
               ELSE Idle)
  /\ UNCHANGED <<rides, money>>

CancelCommit(q) ==
  LET r == tx[q].on IN
  /\ tx[q].op = "cancel"
  /\ status' = [status EXCEPT ![r] = "cancelled"]
  /\ by'     = [by EXCEPT ![r] = "customer"]
  /\ IF tx[q].pays THEN Debit(r, "cancellation_fee", Fee) ELSE NoDebit
  /\ Slot(q, Idle)
  /\ UNCHANGED <<rider, driver, bill, earning>>

(* Mutation: tipSettledAt is not looked at. *)
RateBeginResettling(q, c, r, t) ==
  /\ tx[q].op = "idle"
  /\ rider[r] = c
  /\ ~Locked(r) /\ (driver[r] # NoOne => ~DriverLocked(driver[r]))
  /\ Slot(q, [Idle EXCEPT !.op = "rate", !.on = r, !.tip = t,
       !.pays = /\ t > 0 /\ driver[r] # NoOne /\ bill[r].payment = "paid"
                /\ Covers(r, t) /\ earning[r].driver # NoOne])
  /\ UNCHANGED <<rides, money>>

(* POST /customer/rides/:id/rate, at any status and as often as one likes. *)
RateBegin(q, c, r, t) ==
  /\ tx[q].op = "idle"
  /\ rider[r] = c
  /\ ~Locked(r) /\ (driver[r] # NoOne => ~DriverLocked(driver[r]))
  /\ Slot(q, [Idle EXCEPT !.op = "rate", !.on = r, !.tip = t,
       !.pays = /\ t > 0 /\ driver[r] # NoOne
                /\ bill[r].payment = "paid" /\ ~bill[r].settled
                /\ Covers(r, t) /\ earning[r].driver # NoOne])
  /\ UNCHANGED <<rides, money>>

(* Mutation: the earning is credited with the tip the row had before. *)
RateCommitOldTip(q) ==
  LET r == tx[q].on
      t == tx[q].tip IN
  /\ tx[q].op = "rate"
  /\ bill' = [bill EXCEPT ![r] = [bill[r] EXCEPT !.tip = t, !.settled = @ \/ tx[q].pays]]
  /\ IF tx[q].pays
       THEN Debit(r, "tip", t) /\ earning' = [earning EXCEPT ![r].tip = @ + bill[r].tip]
       ELSE NoDebit /\ UNCHANGED earning
  /\ Slot(q, Idle)
  /\ UNCHANGED rides

(* The tip is stored whether it is settled or not. *)
RateCommit(q) ==
  LET r == tx[q].on
      t == tx[q].tip IN
  /\ tx[q].op = "rate"
  /\ bill' = [bill EXCEPT ![r] = [bill[r] EXCEPT !.tip = t, !.settled = @ \/ tx[q].pays]]
  /\ IF tx[q].pays
       THEN Debit(r, "tip", t) /\ earning' = [earning EXCEPT ![r].tip = @ + t]
       ELSE NoDebit /\ UNCHANGED earning
  /\ Slot(q, Idle)
  /\ UNCHANGED rides

(* Any statement may throw and any process stop: nothing has happened. *)
Rollback(q) ==
  /\ tx[q].op # "idle"
  /\ Slot(q, Idle)
  /\ UNCHANGED <<rides, money>>

(* POST /customer/wallet/topup, one batch transaction *)
TopUp(c, amount) ==
  /\ ledger[c].credit + amount <= MaxCredit
  /\ balance' = [balance EXCEPT ![c] = @ + amount]
  /\ ledger'  = [ledger EXCEPT ![c].credit = @ + amount]
  /\ UNCHANGED <<rides, bill, charged, earning, tx>>

-----------------------------------------------------------------------------
(* Dispatch, as RideLifecycle has it and with the driver it assigns. *)

Accept(d, r) ==
  /\ ~Locked(r)
  /\ \A s \in Ride : status[s] \in Life!Active => driver[s] # d
  /\ Life!Accept(r)
  /\ driver' = [driver EXCEPT ![r] = d]
  /\ UNCHANGED <<money, tx>>

(* A withdrawal in flight takes the driver off, by id and at any status. *)
TakeOff(r) ==
  /\ ~Locked(r)
  /\ driver[r] # NoOne
  /\ driver' = [driver EXCEPT ![r] = NoOne]
  /\ UNCHANGED <<status, rider, by, money, tx>>

MoveOn(r) ==
  /\ ~Locked(r)
  /\ \/ \E c \in Rider : Life!Book(r, c)
     \/ Life!Arrive(r) \/ Life!GiveUp(r) \/ Life!CancelStale(r)
     \/ driver[r] # NoOne /\ (Life!Start(r) \/ Life!CancelByDriver(r))
  /\ UNCHANGED <<driver, money, tx>>

-----------------------------------------------------------------------------
Init ==
  /\ Life!Init
  /\ driver  = [r \in Ride |-> NoOne]
  /\ bill    = [r \in Ride |-> [payment |-> "pending", tip |-> 0, settled |-> FALSE]]
  /\ charged = [r \in Ride |-> [ride |-> 0, cancellation_fee |-> 0, tip |-> 0]]
  /\ earning = [r \in Ride |-> [driver |-> NoOne, amount |-> 0, tip |-> 0]]
  /\ balance = [c \in Rider |-> 0]
  /\ ledger  = [c \in Rider |-> [credit |-> 0, debit |-> 0]]
  /\ tx      = [q \in Request |-> Idle]

Begins(q) ==
  \E r \in Ride :
    \/ \E d \in Driver : EndBegin(q, d, r)
    \/ \E c \in Rider : \/ CancelRead(q, c, r)
                        \/ \E t \in Tips : RateBegin(q, c, r, t)

Proceeds(q) ==
  CancelBegin(q) \/ EndCommit(q) \/ CancelCommit(q) \/ RateCommit(q) \/ Rollback(q)

Next ==
  \/ \E q \in Request : Begins(q) \/ Proceeds(q)
  \/ \E c \in Rider, amount \in TopUps : TopUp(c, amount)
  \/ \E r \in Ride : \/ \E d \in Driver : Accept(d, r)
                     \/ TakeOff(r) \/ MoveOn(r)

Spec == Init /\ [][Next]_svars
-----------------------------------------------------------------------------
(* Properties *)

(* Type correctness; a balance is an integer and may be below zero. *)
TypeOK ==
  /\ status \in [Ride -> {"none"} \cup Life!Active \cup Life!Terminal]
  /\ rider \in [Ride -> Rider \cup {NoOne}]
  /\ \A r \in Ride : status[r] # "none" => rider[r] \in Rider
  /\ by \in [Ride -> {"none", "customer", "driver", "admin"}]
  /\ driver \in [Ride -> Driver \cup {NoOne}]
  /\ bill \in [Ride -> Bill]
  /\ charged \in [Ride -> Charges]
  /\ earning \in [Ride -> Earning]
  /\ balance \in [Rider -> Int]
  /\ ledger \in [Rider -> Ledger]
  /\ tx \in [Request -> Task]

(* Whatever overlaps and rolls back, a balance is what its WalletTransaction *)
(* rows add up to (the two writes of every debit, driverRide.routes.ts:418). *)
WalletReconciles ==
  \A c \in Rider : balance[c] = ledger[c].credit - ledger[c].debit

(* Locks and guards alone keep a ride to one fare or one fee: the unique     *)
(* index on WalletTransaction.rideId is never what refuses a second row      *)
(* (driverRide.routes.ts:393-395, customerRide.routes.ts:217-219).           *)
OneChargePerRide ==
  \A r \in Ride :
    /\ charged[r].ride \in {0, Fare} /\ charged[r].cancellation_fee \in {0, Fee}
    /\ charged[r].ride = 0 \/ charged[r].cancellation_fee = 0

(* A ride's outcome and its money are decided together and once: completed   *)
(* rides have a payment outcome and only they have; a late fee means that    *)
(* the rider cancelled; and a ride is charged for one of them                *)
(* (driverRide.routes.ts:374-396, customerRide.routes.ts:206-219).           *)
SettlementIsAtomic ==
  /\ \A r \in Ride :
       /\ status[r] = "completed" <=> bill[r].payment # "pending"
       /\ charged[r].cancellation_fee > 0 =>
            status[r] = "cancelled" /\ by[r] = "customer"
  /\ OneChargePerRide

(* What riders pay for a ride, fare and tip, is what its driver earns, and   *)
(* exactly the paid rides earn (schema.prisma:362-378).                      *)
DriversGetWhatRidersPay ==
  \A r \in Ride :
    /\ charged[r].ride = earning[r].amount
    /\ charged[r].tip = earning[r].tip
    /\ bill[r].payment = "paid" <=> earning[r].driver # NoOne

(* Retries and double taps repeat nothing: a payment outcome never changes   *)
(* and a settled tip is not settled again (customerRide.routes.ts:320-336).  *)
SettlesOnce ==
  [][\A r \in Ride :
       /\ bill[r].payment # "pending" => bill'[r].payment = bill[r].payment
       /\ bill[r].settled => /\ bill'[r].settled
                             /\ earning'[r].tip = earning[r].tip
                             /\ charged'[r].tip = charged[r].tip]_svars

(* The transactions of /end and /cancel, whose commits come long after their *)
(* guards were read, move rides only as RideLifecycle allows: the interface  *)
(* that RideDispatch implements too.                                         *)
KeepsLifecycle == Life!Spec
=============================================================================
