--------------------------- MODULE SettlementProofs ---------------------------
(***************************************************************************)
(* Theorems about Settlement, for any numbers of riders, drivers, rides    *)
(* and overlapping transactions, and any fare, fee and tips, and about the *)
(* Payouts of what it earns, for any number of payouts and requests.       *)
(*                                                                         *)
(* The properties of the books are not inductive: a commit relies on what  *)
(* its transaction saw when it began.  Justified says that this still      *)
(* holds, Exclusive why: no other open transaction has the ride.           *)
(***************************************************************************)
EXTENDS Payouts, FiniteSetTheorems, TLAPS

USE AmountsAssumption, SettlementNoOneAssumption, PayoutAssumption

Cancellable == {"requested", "matched", "arriving"}

(* A ride has at most one open transaction. *)
Exclusive ==
  \A p, q \in Request : Open(p) /\ Open(q) /\ tx[p].on = tx[q].on => p = q

(* What an open transaction saw of its ride when it began still holds. *)
Justified ==
  \A q \in Request :
    LET r == tx[q].on IN
    /\ tx[q].op = "end" => status[r] = "in_progress" /\ driver[r] \in Driver
    /\ tx[q].op = "cancel" => status[r] \in Cancellable
    /\ tx[q].op = "rate" /\ tx[q].pays =>
         bill[r].payment = "paid" /\ ~bill[r].settled

(* A ride that is not paid has earned nothing, no tip either. *)
UnpaidIsUnearned ==
  \A r \in Ride : earning[r].driver = NoOne => earning[r].amount = 0 /\ earning[r].tip = 0

Books ==
  /\ SettlementIsAtomic
  /\ DriversGetWhatRidersPay
  /\ UnpaidIsUnearned

IInv == TypeOK /\ Exclusive /\ Justified /\ Books /\ WalletReconciles

-----------------------------------------------------------------------------
LEMMA TipIsEarned ==
  ASSUME NEW row \in Earning, NEW tip \in Nat
  PROVE  [row EXCEPT !.tip = @ + tip] \in Earning
<1>1. row.tip + tip \in Nat
  BY DEF Earning
<1> QED BY <1>1 DEF Earning

LEMMA InitIInv == Init => IInv
<1> SUFFICES ASSUME Init PROVE IInv
  OBVIOUS
<1> USE DEF Init, Life!Init
<1>1. TypeOK
  BY DEF TypeOK, Life!Active, Life!Committed, Life!Terminal, Bill, Charges, Earning,
         Ledger, Task, Idle
<1>2. Exclusive /\ Justified
  BY DEF Exclusive, Justified, Open, Idle
<1>3. Books
  BY DEF Books, SettlementIsAtomic, DriversGetWhatRidersPay, OneChargePerRide, UnpaidIsUnearned
<1>4. ASSUME NEW c \in Rider
      PROVE  balance[c] = ledger[c].credit - ledger[c].debit
  <2>1. balance[c] = 0 /\ ledger[c].credit = 0 /\ ledger[c].debit = 0
    OBVIOUS
  <2> QED BY <2>1
<1> QED BY <1>1, <1>2, <1>3, <1>4 DEF IInv, WalletReconciles

-----------------------------------------------------------------------------
(* Type correctness, one step per action. *)

LEMMA DebitTyped ==
  ASSUME TypeOK, NEW r \in Ride, rider[r] \in Rider, NEW amount \in Nat,
         NEW category \in {"ride", "cancellation_fee", "tip"}, Debit(r, category, amount)
  PROVE  /\ balance' \in [Rider -> Int]
         /\ ledger' \in [Rider -> Ledger]
         /\ charged' \in [Ride -> Charges]
<1>1. balance' \in [Rider -> Int]
  BY DEF TypeOK, Debit
<1>2. [ledger[rider[r]] EXCEPT !.debit = @ + amount] \in Ledger
  BY DEF TypeOK, Ledger
<1>3. ledger' = [ledger EXCEPT ![rider[r]] = [ledger[rider[r]] EXCEPT !.debit = @ + amount]]
  BY DEF TypeOK, Debit
<1>4. [charged[r] EXCEPT ![category] = @ + amount] \in Charges
  BY DEF TypeOK, Charges
<1>5. charged' = [charged EXCEPT ![r] = [charged[r] EXCEPT ![category] = @ + amount]]
  BY DEF TypeOK, Debit
<1> QED BY <1>1, <1>2, <1>3, <1>4, <1>5 DEF TypeOK

LEMMA SlotTyped ==
  ASSUME TypeOK, NEW q \in Request, NEW task \in Task, Slot(q, task)
  PROVE  tx' \in [Request -> Task]
BY DEF TypeOK, Slot

LEMMA IdleTyped == Idle \in Task
BY DEF Idle, Task

(* A request past its first statement is about a ride. *)
LEMMA OnARide ==
  ASSUME TypeOK, NEW q \in Request, tx[q].op # "idle"
  PROVE  tx[q].on \in Ride
BY DEF TypeOK, Task

(* Whoever is about to be charged is a rider. *)
LEMMA ChargesARider ==
  ASSUME IInv, NEW q \in Request, Open(q), tx[q].op = "rate" => tx[q].pays
  PROVE  rider[tx[q].on] \in Rider
<1>1. tx[q].on \in Ride
  BY OnARide DEF Open, IInv
<1>2. status[tx[q].on] # "none"
  BY <1>1 DEF IInv, Open, Justified, Books, SettlementIsAtomic, Cancellable
<1> QED BY <1>1, <1>2 DEF IInv, TypeOK

LEMMA TypeStep ==
  ASSUME IInv, [Next]_svars
  PROVE  TypeOK'
<1> USE DEF TypeOK
<1> TypeOK
  BY DEF IInv
<1>1. ASSUME NEW q \in Request, Begins(q)
      PROVE  TypeOK'
  <2>1. PICK r \in Ride : \/ \E d \in Driver : EndBegin(q, d, r)
                         \/ \E c \in Rider : \/ CancelRead(q, c, r)
                                             \/ \E t \in Tips : RateBegin(q, c, r, t)
    BY <1>1 DEF Begins
  <2>2. PICK task \in Task : Slot(q, task)
    <3>1. CASE \E d \in Driver : EndBegin(q, d, r)
      <4>1. PICK b \in BOOLEAN : Slot(q, [Idle EXCEPT !.op = "end", !.on = r, !.pays = b])
        <5>1. Covers(r, Fare) \in BOOLEAN
          BY DEF Covers
        <5> QED BY <3>1, <5>1, Zenon DEF EndBegin
      <4>2. [Idle EXCEPT !.op = "end", !.on = r, !.pays = b] \in Task
        BY DEF Idle, Task
      <4> QED BY <4>1, <4>2
    <3>2. CASE \E c \in Rider : CancelRead(q, c, r)
      <4>1. [Idle EXCEPT !.op = "cancelling", !.on = r, !.late = status[r] # "requested"] \in Task
        BY DEF Idle, Task
      <4> QED BY <3>2, <4>1 DEF CancelRead
    <3>3. CASE \E c \in Rider, t \in Tips : RateBegin(q, c, r, t)
      <4>1. PICK c \in Rider, t \in Tips : RateBegin(q, c, r, t)
        BY <3>3
      <4>2. PICK b \in BOOLEAN :
              Slot(q, [Idle EXCEPT !.op = "rate", !.on = r, !.tip = t, !.pays = b])
        BY <4>1, Zenon DEF RateBegin
      <4>3. [Idle EXCEPT !.op = "rate", !.on = r, !.tip = t, !.pays = b] \in Task
        BY DEF Idle, Task
      <4> QED BY <4>2, <4>3
    <3> QED BY <2>1, <3>1, <3>2, <3>3
  <2>3. UNCHANGED <<rides, money>>
    BY <2>1 DEF EndBegin, CancelRead, RateBegin
  <2> QED BY <2>2, <2>3, SlotTyped DEF rides, money
<1>2. ASSUME NEW q \in Request, CancelBegin(q) \/ Rollback(q)
      PROVE  TypeOK'
  <2>1. tx[q] \in Task /\ tx[q].on \in Ride
    BY <1>2, OnARide DEF CancelBegin, Rollback
  <2>2. PICK task \in Task : Slot(q, task)
    <3>1. CASE Rollback(q)
      BY <3>1, IdleTyped DEF Rollback
    <3>2. CASE CancelBegin(q)
      <4>1. [tx[q] EXCEPT !.op = "cancel", !.pays = tx[q].late /\ Covers(tx[q].on, Fee)] \in Task
        BY <2>1 DEF Task, Covers
      <4> QED BY <3>2, <4>1, IdleTyped DEF CancelBegin
    <3> QED BY <1>2, <3>1, <3>2
  <2>3. UNCHANGED <<rides, money>>
    BY <1>2 DEF CancelBegin, Rollback
  <2> QED BY <2>2, <2>3, SlotTyped DEF rides, money
<1>3. ASSUME NEW q \in Request, EndCommit(q) \/ CancelCommit(q) \/ RateCommit(q)
      PROVE  TypeOK'
  <2> DEFINE r == tx[q].on
  <2>1. r \in Ride /\ Open(q)
    BY <1>3, OnARide DEF EndCommit, CancelCommit, RateCommit, Open
  <2>2. tx' \in [Request -> Task]
    BY <1>3, IdleTyped, SlotTyped DEF EndCommit, CancelCommit, RateCommit
  <2>3. ASSUME NEW category \in {"ride", "cancellation_fee", "tip"}, NEW amount \in Nat,
               Debit(r, category, amount), tx[q].op = "rate" => tx[q].pays
        PROVE  /\ balance' \in [Rider -> Int]
               /\ ledger' \in [Rider -> Ledger]
               /\ charged' \in [Ride -> Charges]
    <3>1. rider[r] \in Rider
      BY <2>1, <2>3, ChargesARider
    <3> QED BY <2>1, <2>3, <3>1, DebitTyped
  <2>4. CASE EndCommit(q)
    <3>1. status' = [status EXCEPT ![r] = "completed"] /\ UNCHANGED <<rider, by, driver>>
      BY <2>4 DEF EndCommit
    <3>2. /\ balance' \in [Rider -> Int]
          /\ ledger' \in [Rider -> Ledger]
          /\ charged' \in [Ride -> Charges]
      BY <2>3, <2>4 DEF EndCommit, NoDebit
    <3>3. bill' \in [Ride -> Bill]
      <4>1. PICK p \in {"paid", "failed"} : bill' = [bill EXCEPT ![r].payment = p]
        BY <2>4 DEF EndCommit
      <4>2. [bill[r] EXCEPT !.payment = p] \in Bill
        BY <2>1 DEF Bill
      <4> QED BY <2>1, <4>1, <4>2
    <3>4. earning' \in [Ride -> Earning]
      <4>1. [driver |-> driver[r], amount |-> Fare, tip |-> 0] \in Earning
        BY <2>1 DEF Earning
      <4> QED BY <2>4, <4>1 DEF EndCommit
    <3>5. rider[r] \in Rider
      BY <2>1, <2>4, ChargesARider DEF EndCommit
    <3> QED BY <2>1, <2>2, <3>1, <3>2, <3>3, <3>4, <3>5 DEF Life!Terminal
  <2>5. CASE CancelCommit(q)
    <3>1. /\ status' = [status EXCEPT ![r] = "cancelled"]
          /\ by' = [by EXCEPT ![r] = "customer"]
          /\ UNCHANGED <<rider, driver, bill, earning>>
      BY <2>5 DEF CancelCommit
    <3>2. /\ balance' \in [Rider -> Int]
          /\ ledger' \in [Rider -> Ledger]
          /\ charged' \in [Ride -> Charges]
      BY <2>3, <2>5 DEF CancelCommit, NoDebit
    <3>3. rider[r] \in Rider
      BY <2>1, <2>5, ChargesARider DEF CancelCommit
    <3> QED BY <2>1, <2>2, <3>1, <3>2, <3>3 DEF Life!Terminal
  <2>6. CASE RateCommit(q)
    <3>1. tx[q].tip \in Nat /\ tx[q].pays \in BOOLEAN
      BY DEF Task
    <3>2. /\ balance' \in [Rider -> Int]
          /\ ledger' \in [Rider -> Ledger]
          /\ charged' \in [Ride -> Charges]
      BY <2>3, <2>6, <3>1 DEF RateCommit, NoDebit
    <3>3. bill' \in [Ride -> Bill]
      <4>1. PICK b \in BOOLEAN :
              bill' = [bill EXCEPT ![r] = [bill[r] EXCEPT !.tip = tx[q].tip, !.settled = b]]
        <5>1. (bill[r].settled \/ tx[q].pays) \in BOOLEAN
          OBVIOUS
        <5> QED BY <2>6, <5>1, Zenon DEF RateCommit
      <4>2. bill[r] \in Bill
        BY <2>1
      <4>3. [bill[r] EXCEPT !.tip = tx[q].tip, !.settled = b] \in Bill
        BY <3>1, <4>2 DEF Bill
      <4> QED BY <2>1, <4>1, <4>3
    <3>4. earning' \in [Ride -> Earning]
      <4>0. earning[r] \in Earning
        BY <2>1
      <4>1. [earning[r] EXCEPT !.tip = @ + tx[q].tip] \in Earning
        BY <3>1, <4>0, TipIsEarned
      <4>2. \/ earning' = [earning EXCEPT ![r] = [earning[r] EXCEPT !.tip = @ + tx[q].tip]]
            \/ earning' = earning
        BY <2>1, <2>6 DEF RateCommit
      <4> QED BY <2>1, <4>1, <4>2
    <3> QED BY <2>2, <2>6, <3>2, <3>3, <3>4 DEF RateCommit, rides
  <2> QED BY <1>3, <2>4, <2>5, <2>6
<1>4. ASSUME NEW c \in Rider, NEW amount \in TopUps, TopUp(c, amount)
      PROVE  TypeOK'
  <2>1. [ledger[c] EXCEPT !.credit = @ + amount] \in Ledger
    BY DEF Ledger
  <2>2. ledger' = [ledger EXCEPT ![c] = [ledger[c] EXCEPT !.credit = @ + amount]]
    BY <1>4 DEF TopUp
  <2> QED BY <1>4, <2>1, <2>2 DEF TopUp, rides
<1>5. ASSUME NEW r \in Ride, \/ \E d \in Driver : Accept(d, r)
                            \/ TakeOff(r) \/ MoveOn(r)
      PROVE  TypeOK'
  <2>1. UNCHANGED <<money, tx>>
    BY <1>5 DEF Accept, TakeOff, MoveOn
  <2>2. driver' \in [Ride -> Driver \cup {NoOne}]
    BY <1>5 DEF Accept, TakeOff, MoveOn
  <2>3. /\ status' \in [Ride -> {"none"} \cup Life!Active \cup Life!Terminal]
        /\ by' \in [Ride -> {"none", "customer", "driver", "admin"}]
    BY <1>5 DEF Accept, TakeOff, MoveOn, Life!Book, Life!Accept, Life!Arrive, Life!Start,
       Life!GiveUp, Life!CancelStale, Life!CancelByDriver, Life!CancelFrom, Life!Advance,
       Life!Active, Life!Committed, Life!Terminal
  <2>4. /\ rider' \in [Ride -> Rider \cup {NoOne}]
        /\ \A s \in Ride : status'[s] # "none" => rider'[s] \in Rider
    BY <1>5 DEF Accept, TakeOff, MoveOn, Life!Book, Life!Accept, Life!Arrive, Life!Start,
       Life!GiveUp, Life!CancelStale, Life!CancelByDriver, Life!CancelFrom, Life!Advance,
       Life!Committed
  <2> QED BY <2>1, <2>2, <2>3, <2>4 DEF money
<1>6. CASE UNCHANGED svars
  BY <1>6 DEF svars
<1> QED BY <1>1, <1>2, <1>3, <1>4, <1>5, <1>6 DEF Next, Proceeds

-----------------------------------------------------------------------------
(* Locks: what a transaction saw of its ride stays so until it commits. *)

(* A step changes one slot at most, and opens a transaction on a free ride. *)
LEMMA SlotStep ==
  ASSUME IInv, [Next]_svars
  PROVE  \/ tx' = tx
         \/ \E q \in Request, task \in Task :
              /\ tx' = [tx EXCEPT ![q] = task]
              /\ task.op \in {"cancel", "end", "rate"} => ~Locked(task.on)
<1>1. ASSUME NEW q \in Request, Begins(q) \/ CancelBegin(q)
      PROVE  tx'[q].op \in {"cancel", "end", "rate"} => ~Locked(tx'[q].on)
  <2> USE DEF Slot, Idle, IInv, TypeOK
  <2>1. CASE \E r \in Ride, d \in Driver : EndBegin(q, d, r)
    BY <2>1 DEF EndBegin
  <2>2. CASE \E r \in Ride, c \in Rider : CancelRead(q, c, r)
    BY <2>2 DEF CancelRead
  <2>3. CASE \E r \in Ride, c \in Rider, t \in Tips : RateBegin(q, c, r, t)
    BY <2>3 DEF RateBegin
  <2>4. CASE CancelBegin(q)
    BY <2>4 DEF CancelBegin
  <2> QED BY <1>1, <2>1, <2>2, <2>3, <2>4 DEF Begins
<1>2. ASSUME NEW q \in Request,
             EndCommit(q) \/ CancelCommit(q) \/ RateCommit(q) \/ Rollback(q)
      PROVE  tx'[q].op = "idle"
  BY <1>2 DEF EndCommit, CancelCommit, RateCommit, Rollback, Slot, Idle, IInv, TypeOK
<1>3. ASSUME NEW q \in Request, Begins(q) \/ Proceeds(q)
      PROVE  \E task : tx' = [tx EXCEPT ![q] = task]
  BY <1>3, Zenon DEF Begins, Proceeds, EndBegin, CancelRead, RateBegin, CancelBegin, EndCommit,
     CancelCommit, RateCommit, Rollback, Slot
<1>4. ASSUME NEW q \in Request, Begins(q) \/ Proceeds(q)
      PROVE  tx' = [tx EXCEPT ![q] = tx'[q]] /\ tx'[q] \in Task
  BY <1>3, <1>4, TypeStep DEF IInv, TypeOK, Next
<1>5. CASE (\E c \in Rider, amount \in TopUps : TopUp(c, amount)) \/ UNCHANGED svars
           \/ (\E r \in Ride : \/ \E d \in Driver : Accept(d, r)
                               \/ TakeOff(r) \/ MoveOn(r))
  BY <1>5 DEF TopUp, Accept, TakeOff, MoveOn, svars
<1> QED BY <1>1, <1>2, <1>4, <1>5 DEF Next, Proceeds

LEMMA ExclusiveStep ==
  ASSUME IInv, [Next]_svars
  PROVE  Exclusive'
BY SlotStep DEF IInv, TypeOK, Exclusive, Open, Locked

(* While its transaction stays open, nobody else writes the ride. *)
LEMMA LockHolds ==
  ASSUME IInv, [Next]_svars, NEW p \in Request, Open(p), tx'[p] = tx[p]
  PROVE  LET r == tx[p].on IN
         /\ status'[r] = status[r] /\ driver'[r] = driver[r] /\ bill'[r] = bill[r]
<1> DEFINE r == tx[p].on
<1>1. r \in Ride /\ Locked(r)
  BY OnARide DEF IInv, Open, Locked
<1>2. ASSUME NEW q \in Request, EndCommit(q) \/ CancelCommit(q) \/ RateCommit(q)
      PROVE  tx[q].on \in Ride \ {r}
  <2>1. tx[q].on \in Ride /\ Open(q)
    BY <1>2, OnARide DEF EndCommit, CancelCommit, RateCommit, Open, IInv
  <2>2. tx'[q].op = "idle"
    BY <1>2 DEF EndCommit, CancelCommit, RateCommit, Slot, Idle, IInv, TypeOK
  <2> QED BY <2>1, <2>2 DEF Open, IInv, Exclusive
<1>3. CASE \E q \in Request : EndCommit(q) \/ CancelCommit(q) \/ RateCommit(q)
  <2>1. PICK q \in Request : EndCommit(q) \/ CancelCommit(q) \/ RateCommit(q)
    BY <1>3
  <2>2. tx[q].on \in Ride /\ tx[q].on # r
    BY <1>2, <2>1
  <2>3. driver' = driver /\ status'[r] = status[r]
    BY <1>1, <2>1, <2>2 DEF EndCommit, CancelCommit, RateCommit, IInv, TypeOK, rides
  <2>4. bill'[r] = bill[r]
    BY <1>1, <2>1, <2>2 DEF EndCommit, CancelCommit, RateCommit, IInv, TypeOK
  <2> QED BY <2>3, <2>4
<1>4. CASE \E s \in Ride : \/ \E d \in Driver : Accept(d, s)
                         \/ TakeOff(s) \/ MoveOn(s)
  BY <1>1, <1>4 DEF Accept, TakeOff, MoveOn, money, Life!Book, Life!Accept, Life!Arrive,
     Life!Start, Life!GiveUp, Life!CancelStale, Life!CancelByDriver, Life!CancelFrom,
     Life!Advance, IInv, TypeOK
<1>5. CASE UNCHANGED <<status, driver, bill>>
  BY <1>5
<1>6. ASSUME NEW q \in Request, Begins(q) \/ CancelBegin(q) \/ Rollback(q)
      PROVE  UNCHANGED <<status, driver, bill>>
  BY <1>6 DEF Begins, EndBegin, CancelRead, RateBegin, CancelBegin, Rollback, rides, money
<1>7. CASE (\E c \in Rider, amount \in TopUps : TopUp(c, amount)) \/ UNCHANGED svars
  BY <1>7 DEF TopUp, svars, rides
<1> QED BY <1>3, <1>4, <1>5, <1>6, <1>7 DEF Next, Proceeds

(* A transaction that has just begun saw its ride as it is. *)
LEMMA BegunJustified ==
  ASSUME IInv, NEW q \in Request, Begins(q) \/ Proceeds(q)
  PROVE  LET r == tx'[q].on IN
         /\ tx'[q].op = "end" => status'[r] = "in_progress" /\ driver'[r] \in Driver
         /\ tx'[q].op = "cancel" => status'[r] \in Cancellable
         /\ tx'[q].op = "rate" /\ tx'[q].pays =>
              bill'[r].payment = "paid" /\ ~bill'[r].settled
<1> USE DEF Slot, Idle, IInv, TypeOK, rides, money, Cancellable
<1>1. CASE \E r \in Ride, d \in Driver : EndBegin(q, d, r)
  BY <1>1 DEF EndBegin
<1>2. CASE \E r \in Ride, c \in Rider : CancelRead(q, c, r)
  BY <1>2 DEF CancelRead
<1>3. CASE \E r \in Ride, c \in Rider, t \in Tips : RateBegin(q, c, r, t)
  BY <1>3 DEF RateBegin
<1>4. CASE CancelBegin(q)
  BY <1>4 DEF CancelBegin
<1>5. CASE EndCommit(q) \/ CancelCommit(q) \/ RateCommit(q) \/ Rollback(q)
  BY <1>5 DEF EndCommit, CancelCommit, RateCommit, Rollback
<1> QED BY <1>1, <1>2, <1>3, <1>4, <1>5 DEF Begins, Proceeds

LEMMA JustifiedStep ==
  ASSUME IInv, [Next]_svars
  PROVE  Justified'
<1> SUFFICES ASSUME NEW q \in Request
             PROVE  LET r == tx'[q].on IN
                    /\ tx'[q].op = "end" => status'[r] = "in_progress" /\ driver'[r] \in Driver
                    /\ tx'[q].op = "cancel" => status'[r] \in Cancellable
                    /\ tx'[q].op = "rate" /\ tx'[q].pays =>
                         bill'[r].payment = "paid" /\ ~bill'[r].settled
  BY DEF Justified
<1>1. CASE Begins(q) \/ Proceeds(q)
  BY <1>1, BegunJustified
<1>2. CASE ~(Begins(q) \/ Proceeds(q))
  <2>1. tx'[q] = tx[q]
    <3>1. ASSUME NEW p \in Request \ {q}, Begins(p) \/ Proceeds(p)
          PROVE  tx'[q] = tx[q]
      BY <3>1 DEF Begins, Proceeds, EndBegin, CancelRead, RateBegin, CancelBegin, EndCommit,
         CancelCommit, RateCommit, Rollback, Slot, IInv, TypeOK
    <3>2. CASE (\E c \in Rider, amount \in TopUps : TopUp(c, amount)) \/ UNCHANGED svars
               \/ (\E r \in Ride : \/ \E d \in Driver : Accept(d, r)
                                   \/ TakeOff(r) \/ MoveOn(r))
      BY <3>2 DEF TopUp, Accept, TakeOff, MoveOn, svars
    <3> QED BY <1>2, <3>1, <3>2 DEF Next
  <2> QED BY <2>1, LockHolds DEF Justified, IInv, Open
<1> QED BY <1>1, <1>2

-----------------------------------------------------------------------------
(* The books *)

LEMMA ReconcilesStep ==
  ASSUME IInv, [Next]_svars
  PROVE  WalletReconciles'
<1> USE DEF WalletReconciles, IInv, TypeOK
<1>1. ASSUME NEW r \in Ride, rider[r] \in Rider, NEW amount \in Nat,
             NEW category \in {"ride", "cancellation_fee", "tip"}, Debit(r, category, amount)
      PROVE  WalletReconciles'
  <2> SUFFICES ASSUME NEW c \in Rider
               PROVE  balance'[c] = ledger'[c].credit - ledger'[c].debit
    OBVIOUS
  <2>1. ledger[c] \in Ledger /\ balance[c] \in Int
    OBVIOUS
  <2>2. CASE c = rider[r]
    <3>1. balance'[c] = balance[c] - amount
      BY <1>1, <2>2 DEF Debit
    <3>2. ledger'[c].credit = ledger[c].credit /\ ledger'[c].debit = ledger[c].debit + amount
      BY <1>1, <2>1, <2>2 DEF Debit, Ledger
    <3> QED BY <2>1, <3>1, <3>2 DEF Ledger
  <2>3. CASE c # rider[r]
    BY <1>1, <2>3 DEF Debit
  <2> QED BY <2>2, <2>3
<1>2. ASSUME NEW q \in Request, EndCommit(q) \/ CancelCommit(q) \/ RateCommit(q)
      PROVE  WalletReconciles'
  <2>1. tx[q].on \in Ride /\ Open(q) /\ tx[q].tip \in Nat
    BY <1>2, OnARide DEF EndCommit, CancelCommit, RateCommit, Open, Task
  <2>2. CASE UNCHANGED <<balance, ledger>>
    BY <2>2
  <2>3. CASE \E amount \in Nat, category \in {"ride", "cancellation_fee", "tip"} :
               /\ Debit(tx[q].on, category, amount)
               /\ tx[q].op = "rate" => tx[q].pays
    BY <1>1, <2>1, <2>3, ChargesARider
  <2> QED BY <1>2, <2>1, <2>2, <2>3 DEF EndCommit, CancelCommit, RateCommit, NoDebit
<1>3. ASSUME NEW c \in Rider, NEW amount \in TopUps, TopUp(c, amount)
      PROVE  WalletReconciles'
  <2> SUFFICES ASSUME NEW d \in Rider
               PROVE  balance'[d] = ledger'[d].credit - ledger'[d].debit
    OBVIOUS
  <2>1. ledger[d] \in Ledger /\ balance[d] \in Int
    OBVIOUS
  <2>2. CASE d = c
    <3>1. balance'[c] = balance[c] + amount
      BY <1>3 DEF TopUp
    <3>2. ledger'[c].credit = ledger[c].credit + amount /\ ledger'[c].debit = ledger[c].debit
      BY <1>3, <2>1, <2>2 DEF TopUp, Ledger
    <3> QED BY <2>1, <2>2, <3>1, <3>2 DEF Ledger
  <2>3. CASE d # c
    BY <1>3, <2>3 DEF TopUp
  <2> QED BY <2>2, <2>3
<1>4. CASE UNCHANGED money
  BY <1>4 DEF money
<1>5. ASSUME NEW q \in Request, Begins(q) \/ CancelBegin(q) \/ Rollback(q)
      PROVE  UNCHANGED money
  BY <1>5 DEF Begins, EndBegin, CancelRead, RateBegin, CancelBegin, Rollback
<1>6. CASE \/ UNCHANGED svars
           \/ \E r \in Ride : \/ \E d \in Driver : Accept(d, r)
                             \/ TakeOff(r) \/ MoveOn(r)
  BY <1>4, <1>6 DEF Accept, TakeOff, MoveOn, svars, money
<1> QED BY <1>2, <1>3, <1>4, <1>5, <1>6 DEF Next, Proceeds

(* What the books say of one ride. *)
Booked(r) ==
  /\ status[r] = "completed" <=> bill[r].payment # "pending"
  /\ charged[r].cancellation_fee > 0 => status[r] = "cancelled" /\ by[r] = "customer"
  /\ charged[r].ride = earning[r].amount
  /\ charged[r].tip = earning[r].tip
  /\ bill[r].payment = "paid" <=> earning[r].driver # NoOne
  /\ charged[r].ride \in {0, Fare} /\ charged[r].cancellation_fee \in {0, Fee}
  /\ charged[r].ride = 0 \/ charged[r].cancellation_fee = 0
  /\ earning[r].driver = NoOne => earning[r].amount = 0 /\ earning[r].tip = 0

LEMMA BooksAreBooked == Books <=> \A r \in Ride : Booked(r)
BY DEF Books, Booked, SettlementIsAtomic, DriversGetWhatRidersPay, OneChargePerRide, UnpaidIsUnearned

(* A step that leaves the rows of a ride alone leaves its books alone. *)
LEMMA SameRows ==
  ASSUME NEW r \in Ride, Booked(r),
         status'[r] = status[r], by'[r] = by[r], bill'[r] = bill[r],
         charged'[r] = charged[r], earning'[r] = earning[r]
  PROVE  Booked(r)'
BY DEF Booked

LEMMA CommitBooks ==
  ASSUME IInv, NEW q \in Request, EndCommit(q) \/ CancelCommit(q) \/ RateCommit(q)
  PROVE  \A r \in Ride : Booked(r)'
<1> PICK o \in Ride : o = tx[q].on
  BY OnARide DEF EndCommit, CancelCommit, RateCommit, IInv
<1>1. o \in Ride
  OBVIOUS
<1>2. /\ bill[o] \in Bill /\ charged[o] \in Charges
      /\ earning[o] \in Earning /\ tx[q] \in Task
  BY <1>1 DEF IInv, TypeOK
<1>3. Booked(o)
  BY <1>1, BooksAreBooked DEF IInv
<1>4. ASSUME NEW r \in Ride, r # o
      PROVE  Booked(r)'
  <2>1. status'[r] = status[r] /\ by'[r] = by[r]
    BY <1>4, SMTT(30) DEF EndCommit, CancelCommit, RateCommit, rides, IInv, TypeOK
  <2>2. bill'[r] = bill[r] /\ earning'[r] = earning[r]
    BY <1>4, SMTT(30) DEF EndCommit, CancelCommit, RateCommit, IInv, TypeOK
  <2>3. charged'[r] = charged[r]
    <3>1. \/ \E category \in {"ride", "cancellation_fee", "tip"} : \E amount :
               charged' = [charged EXCEPT ![o][category] = @ + amount]
          \/ charged' = charged
      <4>1. CASE EndCommit(q)  BY <4>1, Zenon DEF EndCommit, Debit, NoDebit
      <4>2. CASE CancelCommit(q)  BY <4>2, Zenon DEF CancelCommit, Debit, NoDebit
      <4>3. CASE RateCommit(q)  BY <4>3, Zenon DEF RateCommit, Debit, NoDebit
      <4> QED BY <4>1, <4>2, <4>3
    <3> QED BY <1>4, <3>1 DEF IInv, TypeOK
  <2> QED BY <2>1, <2>2, <2>3, SameRows, BooksAreBooked DEF IInv
<1>5. CASE EndCommit(q)
  <2>1. status[o] = "in_progress" /\ driver[o] \in Driver
    BY <1>5 DEF EndCommit, IInv, Justified
  <2>2. status'[o] = "completed" /\ by'[o] = by[o]
    BY <1>1, <1>5 DEF EndCommit, IInv, TypeOK
  <2>3. /\ bill[o].payment = "pending" /\ charged[o].cancellation_fee = 0
        /\ earning[o].driver = NoOne /\ earning[o].amount = 0 /\ earning[o].tip = 0
        /\ charged[o].ride = 0 /\ charged[o].tip = 0
    BY <1>2, <1>3, <2>1 DEF Booked, Bill, Charges
  <2>4. CASE tx[q].pays
    <3>1. /\ charged'[o].ride = charged[o].ride + Fare
          /\ charged'[o].cancellation_fee = charged[o].cancellation_fee
          /\ charged'[o].tip = charged[o].tip
      BY <1>1, <1>2, <1>5, <2>4 DEF EndCommit, Debit, Charges, IInv, TypeOK
    <3>2. earning'[o] = [driver |-> driver[o], amount |-> Fare, tip |-> 0]
      BY <1>1, <1>5, <2>4 DEF EndCommit, IInv, TypeOK
    <3>3. bill'[o].payment = "paid"
      BY <1>1, <1>2, <1>5, <2>4 DEF EndCommit, Bill, IInv, TypeOK
    <3>4. Booked(o)'
      BY <2>1, <2>2, <2>3, <3>1, <3>2, <3>3 DEF Booked
    <3> QED BY <1>4, <3>4
  <2>5. CASE ~tx[q].pays
    <3>1. charged'[o] = charged[o] /\ earning'[o] = earning[o]
      BY <1>5, <2>5 DEF EndCommit, NoDebit
    <3>2. bill'[o].payment = "failed"
      BY <1>1, <1>2, <1>5, <2>5 DEF EndCommit, Bill, IInv, TypeOK
    <3>3. Booked(o)'
      BY <2>1, <2>2, <2>3, <3>1, <3>2 DEF Booked
    <3> QED BY <1>4, <3>3
  <2> QED BY <1>4, <2>4, <2>5
<1>6. CASE CancelCommit(q)
  <2>1. status[o] \in Cancellable
    BY <1>6 DEF CancelCommit, IInv, Justified
  <2>2. /\ status'[o] = "cancelled" /\ by'[o] = "customer"
        /\ bill'[o] = bill[o] /\ earning'[o] = earning[o]
    BY <1>1, <1>6 DEF CancelCommit, IInv, TypeOK
  <2>3. /\ bill[o].payment = "pending" /\ charged[o].cancellation_fee = 0
        /\ earning[o].driver = NoOne /\ earning[o].amount = 0
        /\ charged[o].ride = 0
    BY <1>2, <1>3, <2>1 DEF Booked, Bill, Charges, Cancellable
  <2>4. /\ charged'[o].ride = charged[o].ride /\ charged'[o].tip = charged[o].tip
        /\ charged'[o].cancellation_fee \in {0, Fee}
    BY <1>1, <1>2, <1>6, <2>3 DEF CancelCommit, Debit, NoDebit, Charges, IInv, TypeOK
  <2>5. Booked(o)'
    BY <1>3, <2>1, <2>2, <2>3, <2>4 DEF Booked, Cancellable
  <2> QED BY <1>4, <2>5
<1>7. CASE RateCommit(q)
  <2>1. status'[o] = status[o] /\ by'[o] = by[o]
    BY <1>7 DEF RateCommit, rides
  <2>2. bill'[o].payment = bill[o].payment
    BY <1>1, <1>2, <1>7 DEF RateCommit, Bill, IInv, TypeOK
  <2>3. CASE tx[q].pays
    <3>1. bill[o].payment = "paid"
      BY <1>7, <2>3 DEF RateCommit, IInv, Justified
    <3>2. /\ charged'[o].tip = charged[o].tip + tx[q].tip
          /\ charged'[o].cancellation_fee = charged[o].cancellation_fee
          /\ charged'[o].ride = charged[o].ride
      <4>1. charged' = [charged EXCEPT ![o]["tip"] = @ + tx[q].tip]
        BY <1>7, <2>3, Zenon DEF RateCommit, Debit
      <4>2. charged[o] \in Charges /\ charged'[o] = [charged[o] EXCEPT !["tip"] = @ + tx[q].tip]
        BY <1>1, <4>1 DEF IInv, TypeOK
      <4> QED BY <1>2, <4>2 DEF Charges
    <3>3. /\ earning'[o].tip = earning[o].tip + tx[q].tip
          /\ earning'[o].driver = earning[o].driver
          /\ earning'[o].amount = earning[o].amount
      BY <1>1, <1>2, <1>7, <2>3 DEF RateCommit, Earning, IInv, TypeOK
    <3>4. Booked(o)'
      BY <1>3, <2>1, <2>2, <3>1, <3>2, <3>3 DEF Booked
    <3> QED BY <1>4, <3>4
  <2>4. CASE ~tx[q].pays
    <3>1. Booked(o)'
      BY <1>3, <1>7, <2>1, <2>2, <2>4 DEF RateCommit, NoDebit, Booked
    <3> QED BY <1>4, <3>1
  <2> QED BY <2>3, <2>4
<1> QED BY <1>5, <1>6, <1>7

LEMMA BooksStep ==
  ASSUME IInv, [Next]_svars
  PROVE  Books'
<1> SUFFICES \A r \in Ride : Booked(r)'
  BY DEF Books, Booked, SettlementIsAtomic, DriversGetWhatRidersPay, OneChargePerRide,
     UnpaidIsUnearned
<1>1. \A r \in Ride : Booked(r)
  BY BooksAreBooked DEF IInv
<1>2. CASE \E q \in Request : EndCommit(q) \/ CancelCommit(q) \/ RateCommit(q)
  BY <1>2, CommitBooks
<1>3. CASE UNCHANGED <<status, by, bill, charged, earning>>
  BY <1>1, <1>3, SameRows
<1>4. ASSUME NEW q \in Request, Begins(q) \/ CancelBegin(q) \/ Rollback(q)
      PROVE  UNCHANGED <<status, by, bill, charged, earning>>
  BY <1>4 DEF Begins, EndBegin, CancelRead, RateBegin, CancelBegin, Rollback, rides, money
<1>5. CASE (\E c \in Rider, amount \in TopUps : TopUp(c, amount)) \/ UNCHANGED svars
  BY <1>3, <1>5 DEF TopUp, svars, rides
<1>6. ASSUME NEW s \in Ride, (\E d \in Driver : Accept(d, s)) \/ TakeOff(s) \/ MoveOn(s)
      PROVE  \A r \in Ride : Booked(r)'
  <2>1. UNCHANGED <<bill, charged, earning>>
    BY <1>6 DEF Accept, TakeOff, MoveOn, money
  <2>2. \A r \in Ride \ {s} : status'[r] = status[r] /\ by'[r] = by[r]
    BY <1>6 DEF Accept, TakeOff, MoveOn, Life!Book, Life!Accept, Life!Arrive, Life!Start,
       Life!GiveUp, Life!CancelStale, Life!CancelByDriver, Life!CancelFrom, Life!Advance,
       IInv, TypeOK
  <2>3. \/ status'[s] = status[s] /\ by'[s] = by[s]
        \/ status[s] \notin {"completed", "cancelled"} /\ status'[s] # "completed"
    BY <1>6 DEF Accept, TakeOff, MoveOn, Life!Book, Life!Accept, Life!Arrive, Life!Start,
       Life!GiveUp, Life!CancelStale, Life!CancelByDriver, Life!CancelFrom, Life!Advance,
       Life!Committed, IInv, TypeOK
  <2>4. charged[s] \in Charges
    BY DEF IInv, TypeOK
  <2>5. Booked(s)'
    BY <1>1, <2>1, <2>3, <2>4 DEF Booked, Charges
  <2>6. ASSUME NEW r \in Ride \ {s}
        PROVE  Booked(r)'
    BY <1>1, <2>1, <2>2, SameRows
  <2> QED BY <2>5, <2>6
<1> QED BY <1>2, <1>3, <1>4, <1>5, <1>6 DEF Next, Proceeds

-----------------------------------------------------------------------------
(* What is settled stays settled. *)

Settles(r) ==
  /\ bill[r].payment # "pending" => bill'[r].payment = bill[r].payment
  /\ bill[r].settled => /\ bill'[r].settled
                        /\ earning'[r].tip = earning[r].tip
                        /\ charged'[r].tip = charged[r].tip

LEMMA SettlesStep ==
  ASSUME IInv, [Next]_svars, NEW r \in Ride
  PROVE  Settles(r)
<1> USE DEF IInv, TypeOK
<1>1. CASE bill'[r] = bill[r] /\ earning'[r] = earning[r] /\ charged'[r].tip = charged[r].tip
  BY <1>1 DEF Settles
<1>2. /\ bill[r] \in Bill /\ charged[r] \in Charges /\ earning[r] \in Earning
  OBVIOUS
<1>3. ASSUME NEW q \in Request, EndCommit(q)
      PROVE  Settles(r)
  <2>1. CASE tx[q].on # r
    BY <1>1, <1>3, <2>1 DEF EndCommit, Debit, NoDebit
  <2>2. CASE tx[q].on = r
    <3>1. status[r] = "in_progress"
      BY <1>3, <2>2 DEF EndCommit, Justified
    <3>2. bill[r].payment = "pending" /\ earning[r].driver = NoOne /\ earning[r].tip = 0
      BY <3>1 DEF Books, SettlementIsAtomic, DriversGetWhatRidersPay, UnpaidIsUnearned
    <3>3. bill'[r].settled = bill[r].settled
      BY <1>2, <1>3, <2>2 DEF EndCommit, Bill
    <3>4. charged'[r].tip = charged[r].tip
      BY <1>2, <1>3, <2>2 DEF EndCommit, Debit, NoDebit, Charges
    <3>5. earning'[r].tip = 0
      BY <1>3, <2>2, <3>2 DEF EndCommit
    <3> QED BY <3>2, <3>3, <3>4, <3>5 DEF Settles
  <2> QED BY <2>1, <2>2
<1>4. ASSUME NEW q \in Request, CancelCommit(q)
      PROVE  Settles(r)
  <2>1. charged'[r].tip = charged[r].tip
    <3>1. \/ charged' = [charged EXCEPT ![tx[q].on]["cancellation_fee"] = @ + Fee]
          \/ charged' = charged
      BY <1>4, Zenon DEF CancelCommit, Debit, NoDebit
    <3> QED BY <1>2, <3>1 DEF Charges
  <2> QED BY <1>1, <1>4, <2>1 DEF CancelCommit
<1>5. ASSUME NEW q \in Request, RateCommit(q)
      PROVE  Settles(r)
  <2>1. CASE tx[q].on # r
    BY <1>1, <1>5, <2>1 DEF RateCommit, Debit, NoDebit
  <2>2. CASE tx[q].on = r /\ tx[q].pays
    <3>1. ~bill[r].settled
      BY <1>5, <2>2 DEF RateCommit, Justified
    <3>2. bill'[r].payment = bill[r].payment
      BY <1>2, <1>5, <2>2 DEF RateCommit, Bill
    <3> QED BY <3>1, <3>2 DEF Settles
  <2>3. CASE tx[q].on = r /\ ~tx[q].pays
    <3>1. bill'[r].payment = bill[r].payment /\ (bill[r].settled => bill'[r].settled)
      BY <1>2, <1>5, <2>3 DEF RateCommit, Bill
    <3>2. UNCHANGED <<earning, charged>>
      BY <1>5, <2>3 DEF RateCommit, NoDebit
    <3> QED BY <3>1, <3>2 DEF Settles
  <2> QED BY <2>1, <2>2, <2>3
<1>6. ASSUME NEW q \in Request, Begins(q) \/ CancelBegin(q) \/ Rollback(q)
      PROVE  Settles(r)
  BY <1>1, <1>6 DEF Begins, EndBegin, CancelRead, RateBegin, CancelBegin, Rollback, money
<1>7. CASE \/ \E c \in Rider, amount \in TopUps : TopUp(c, amount)
           \/ UNCHANGED svars
           \/ \E s \in Ride : (\E d \in Driver : Accept(d, s)) \/ TakeOff(s) \/ MoveOn(s)
  BY <1>1, <1>7 DEF TopUp, svars, Accept, TakeOff, MoveOn, money
<1> QED BY <1>3, <1>4, <1>5, <1>6, <1>7 DEF Next, Proceeds

-----------------------------------------------------------------------------
(* Theorems *)

LEMMA Invariance == Spec => []IInv
<1>1. IInv /\ [Next]_svars => IInv'
  BY TypeStep, ExclusiveStep, JustifiedStep, BooksStep, ReconcilesStep DEF IInv
<1> QED BY InitIInv, <1>1, PTL DEF Spec

(* Tables and request slots keep their types, however transactions overlap. *)
THEOREM SettlementTypeCorrect == Spec => []TypeOK
<1>1. IInv => TypeOK
  BY DEF IInv
<1> QED BY <1>1, Invariance, PTL

(* A balance is always the sum of its WalletTransaction rows: no update is     *)
(* lost and no debit goes unrecorded (getWalletPayload shows the two together). *)
THEOREM BalancesReconcile == Spec => []WalletReconciles
<1>1. IInv => WalletReconciles
  BY DEF IInv
<1> QED BY <1>1, Invariance, PTL

(* Completion and payment, cancellation and fee, happen together or not at     *)
(* all (the transactions of /end and /cancel).                                 *)
THEOREM OutcomesAreAtomic == Spec => []SettlementIsAtomic
<1>1. IInv => SettlementIsAtomic
  BY DEF IInv, Books
<1> QED BY <1>1, Invariance, PTL

(* Fare and tip of a ride arrive at its driver in full, once (DriverEarning). *)
THEOREM EarningsMatchCharges == Spec => []DriversGetWhatRidersPay
<1>1. IInv => DriversGetWhatRidersPay
  BY DEF IInv, Books
<1> QED BY <1>1, Invariance, PTL

(* No ride is charged twice, without any help of the unique index on rideId. *)
THEOREM ChargedOnce == Spec => []OneChargePerRide
<1>1. IInv => OneChargePerRide
  BY DEF IInv, Books, SettlementIsAtomic
<1> QED BY <1>1, Invariance, PTL

(* Neither a retried /end nor a second rating settles anything again. *)
THEOREM SettledOnce == Spec => SettlesOnce
<1>1. IInv /\ [Next]_svars => [\A r \in Ride : Settles(r)]_svars
  BY SettlesStep
<1>2. (\A r \in Ride : Settles(r)) =>
        \A r \in Ride :
          /\ bill[r].payment # "pending" => bill'[r].payment = bill[r].payment
          /\ bill[r].settled => /\ bill'[r].settled
                                /\ earning'[r].tip = earning[r].tip
                                /\ charged'[r].tip = charged[r].tip
  BY DEF Settles
<1> QED BY <1>1, <1>2, Invariance, PTL DEF Spec, SettlesOnce

-----------------------------------------------------------------------------
(* The rides of Settlement are the rides of RideLifecycle. *)

LEMMA LifecycleStep ==
  ASSUME IInv, [Next]_svars
  PROVE  [Life!Next]_(Life!lvars)
<1> USE DEF Life!lvars
<1>1. ASSUME NEW q \in Request, EndCommit(q)
      PROVE  Life!Next
  <2>1. tx[q].on \in Ride /\ status[tx[q].on] = "in_progress"
    BY <1>1, OnARide DEF EndCommit, IInv, Justified
  <2>2. Life!Complete(tx[q].on)
    BY <1>1, <2>1 DEF EndCommit, Life!Complete, Life!Advance
  <2> QED BY <2>1, <2>2 DEF Life!Next
<1>2. ASSUME NEW q \in Request, CancelCommit(q)
      PROVE  Life!Next
  <2>1. tx[q].on \in Ride /\ status[tx[q].on] \in Cancellable
    BY <1>2, OnARide DEF CancelCommit, IInv, Justified
  <2>2. Life!CancelByRider(tx[q].on)
    BY <1>2, <2>1 DEF CancelCommit, Cancellable, Life!CancelByRider, Life!CancelFrom
  <2> QED BY <2>1, <2>2 DEF Life!Next
<1>3. ASSUME NEW q \in Request, Begins(q) \/ CancelBegin(q) \/ Rollback(q) \/ RateCommit(q)
      PROVE  UNCHANGED Life!lvars
  BY <1>3 DEF Begins, EndBegin, CancelRead, RateBegin, CancelBegin, Rollback, RateCommit, rides
<1>4. ASSUME NEW r \in Ride, (\E d \in Driver : Accept(d, r)) \/ MoveOn(r)
      PROVE  Life!Next
  BY <1>4 DEF Accept, MoveOn, Life!Next
<1>5. CASE \/ \E c \in Rider, amount \in TopUps : TopUp(c, amount)
           \/ \E r \in Ride : TakeOff(r)
           \/ UNCHANGED svars
  BY <1>5 DEF TopUp, TakeOff, svars, rides
<1> QED BY <1>1, <1>2, <1>3, <1>4, <1>5 DEF Next, Proceeds

(* Ending and cancelling a ride by transactions that begin and commit apart    *)
(* is, to anyone reading the ride, a step of the status machine.               *)
THEOREM LifecycleKept == Spec => KeepsLifecycle
<1>1. Init => Life!Init
  BY DEF Init
<1> QED BY <1>1, LifecycleStep, Invariance, PTL DEF Spec, KeepsLifecycle, Life!Spec

-----------------------------------------------------------------------------
(* Sums of amounts, as the number of the rupees they are made of. *)

LEMMA SumTyped ==
  ASSUME NEW rows, IsFiniteSet(rows), NEW worth, \A row \in rows : worth[row] \in Nat
  PROVE  IsFiniteSet(Rupees(rows, worth)) /\ Sum(rows, worth) \in Nat
<1> DEFINE parts == {{row} \X (1 .. worth[row]) : row \in rows}
           part  == [row \in rows |-> {row} \X (1 .. worth[row])]
<1>1. IsFiniteSet(parts)
  <2>1. part \in Surjection(rows, parts)
    BY DEF Surjection
  <2> QED BY <2>1, FS_Surjection
<1>2. ASSUME NEW row \in rows
      PROVE  IsFiniteSet({row} \X (1 .. worth[row]))
  <2>1. 1 \in Int /\ worth[row] \in Int
    OBVIOUS
  <2>2. IsFiniteSet(1 .. worth[row])
    BY <2>1, FS_Interval, Zenon
  <2>3. IsFiniteSet({row})
    BY FS_Singleton
  <2> QED BY <2>2, <2>3, FS_Product
<1>3. IsFiniteSet(UNION parts)
  BY <1>1, <1>2, FS_UNION
<1> QED BY <1>3, FS_CardinalityType DEF Rupees, Sum

LEMMA SumGrows ==
  ASSUME NEW more, IsFiniteSet(more), NEW value, \A row \in more : value[row] \in Nat,
         NEW rows \in SUBSET more, NEW worth,
         \A row \in rows : worth[row] \in Nat /\ worth[row] <= value[row]
  PROVE  Sum(rows, worth) \in Nat /\ Sum(rows, worth) <= Sum(more, value)
<1>1. IsFiniteSet(Rupees(more, value))
  BY SumTyped
<1>2. IsFiniteSet(rows)
  BY FS_Subset
<1>3. ASSUME NEW row \in rows
      PROVE  {row} \X (1 .. worth[row]) \subseteq {row} \X (1 .. value[row])
  BY <1>3
<1>4. Rupees(rows, worth) \in SUBSET Rupees(more, value)
  BY <1>3 DEF Rupees
<1>5. Sum(rows, worth) <= Sum(more, value)
  BY <1>1, <1>4, FS_Subset DEF Sum
<1> QED BY <1>2, <1>5, SumTyped

LEMMA SumAdds ==
  ASSUME NEW rows, IsFiniteSet(rows), NEW new, new \notin rows,
         NEW worth, \A row \in rows \cup {new} : worth[row] \in Nat
  PROVE  Sum(rows \cup {new}, worth) = Sum(rows, worth) + worth[new]
<1> DEFINE added == {new} \X (1 .. worth[new])
           old == Rupees(rows, worth)
           all == Rupees(rows \cup {new}, worth)
<1>1. IsFiniteSet(Rupees(rows, worth)) /\ Sum(rows, worth) \in Nat
  BY SumTyped
<1>2. IsFiniteSet(added) /\ Cardinality(added) = worth[new]
  <2>1. IsFiniteSet({new}) /\ Cardinality({new}) = 1
    BY FS_Singleton
  <2>2. IsFiniteSet(1 .. worth[new]) /\ Cardinality(1 .. worth[new]) = worth[new]
    BY FS_Interval
  <2>3. /\ IsFiniteSet({new} \X (1 .. worth[new]))
        /\ Cardinality({new} \X (1 .. worth[new]))
             = Cardinality({new}) * Cardinality(1 .. worth[new])
    BY <2>1, <2>2, FS_Product
  <2>4. worth[new] \in Nat
    OBVIOUS
  <2> QED BY <2>1, <2>2, <2>3, <2>4
<1>3. all = old \cup added
  BY DEF Rupees
<1>4. old \cap added = {}
  BY DEF Rupees
<1>5. Cardinality(old \cap added) = 0
  BY <1>4, FS_EmptySet
<1>6. Cardinality(old \cup added) = Cardinality(old) + Cardinality(added) - Cardinality(old \cap added)
  BY <1>1, <1>2, FS_Union, Zenon
<1>7. Cardinality(all) = Cardinality(old) + worth[new]
  <2> HIDE DEF all, old, added
  <2>1. Cardinality(old) \in Nat /\ worth[new] \in Nat
    BY <1>1 DEF Sum, old
  <2> QED BY <1>2, <1>3, <1>5, <1>6, <2>1
<1> QED BY <1>7 DEF Sum

(* A sum depends on the amounts of its rows alone. *)
LEMMA SameSum ==
  ASSUME NEW rows, NEW worth, NEW value, \A row \in rows : worth[row] = value[row]
  PROVE  Sum(rows, worth) = Sum(rows, value)
<1>1. Rupees(rows, worth) = Rupees(rows, value)
  BY DEF Rupees
<1> QED BY <1>1 DEF Sum

-----------------------------------------------------------------------------
(* What is earned stays: Settlement adds rows of DriverEarning one at a time *)
(* and takes nothing from them, so that a payout once covered stays covered. *)

Kept(r) ==
  earning[r].driver # NoOne =>
    /\ earning'[r].driver = earning[r].driver
    /\ earning'[r].amount = earning[r].amount
    /\ earning[r].tip <= earning'[r].tip

LEMMA EarningsStep ==
  ASSUME IInv, [Next]_svars
  PROVE  \/ earning' = earning
         \/ \E o \in Ride : /\ \A r \in Ride \ {o} : earning'[r] = earning[r]
                            /\ Kept(o)
<1>1. ASSUME NEW q \in Request, EndCommit(q)
      PROVE  \/ earning' = earning
             \/ \E o \in Ride : /\ \A r \in Ride \ {o} : earning'[r] = earning[r]
                                /\ Kept(o)
  <2> DEFINE o == tx[q].on
  <2>1. o \in Ride /\ status[o] = "in_progress"
    BY <1>1, OnARide DEF EndCommit, IInv, Justified
  <2>2. earning[o].driver = NoOne
    BY <2>1 DEF IInv, Books, SettlementIsAtomic, DriversGetWhatRidersPay
  <2>3. \A r \in Ride \ {o} : earning'[r] = earning[r]
    BY <1>1 DEF EndCommit, IInv, TypeOK
  <2> QED BY <2>1, <2>2, <2>3 DEF Kept
<1>2. ASSUME NEW q \in Request, RateCommit(q)
      PROVE  \/ earning' = earning
             \/ \E o \in Ride : /\ \A r \in Ride \ {o} : earning'[r] = earning[r]
                                /\ Kept(o)
  <2> DEFINE o == tx[q].on
  <2>1. o \in Ride
    BY <1>2, OnARide DEF RateCommit, IInv
  <2>2. earning[o] \in Earning /\ tx[q].tip \in Nat
    BY <2>1 DEF IInv, TypeOK, Task
  <2>3. \A r \in Ride \ {o} : earning'[r] = earning[r]
    BY <1>2 DEF RateCommit, IInv, TypeOK
  <2>4. \/ earning'[o] = earning[o]
        \/ earning'[o] = [earning[o] EXCEPT !.tip = @ + tx[q].tip]
    BY <1>2, <2>1 DEF RateCommit, IInv, TypeOK
  <2>5. Kept(o)
    BY <2>2, <2>4 DEF Kept, Earning
  <2> QED BY <2>1, <2>3, <2>5
<1>3. ASSUME NEW q \in Request,
             Begins(q) \/ CancelBegin(q) \/ Rollback(q) \/ CancelCommit(q)
      PROVE  earning' = earning
  BY <1>3 DEF Begins, EndBegin, CancelRead, RateBegin, CancelBegin, Rollback, CancelCommit, money
<1>4. CASE \/ \E c \in Rider, amount \in TopUps : TopUp(c, amount)
           \/ UNCHANGED svars
           \/ \E s \in Ride : (\E d \in Driver : Accept(d, s)) \/ TakeOff(s) \/ MoveOn(s)
  BY <1>4 DEF TopUp, svars, Accept, TakeOff, MoveOn, money
<1> QED BY <1>1, <1>2, <1>3, <1>4 DEF Next, Proceeds

(* What a driver has earned and what it has asked for. *)
Earned(d) == Sum(EarningsOf(d), Worth)
Requested(d) == Sum(RequestedBy(d), Cost)

Earnings == {r \in Ride : earning[r].driver # NoOne}
Inserted == {p \in Payout : payout[p].status # "none"}

LEMMA EarnedTyped ==
  ASSUME TypeOK, IsFiniteSet(Earnings), NEW d \in Driver
  PROVE  Earned(d) \in Nat
<1>1. IsFiniteSet(EarningsOf(d))
  <2>1. EarningsOf(d) \in SUBSET Earnings
    BY DEF EarningsOf, Earnings
  <2> QED BY <2>1, FS_Subset
<1>2. ASSUME NEW r \in EarningsOf(d)
      PROVE  Worth[r] \in Nat
  <2>1. earning[r] \in Earning /\ r \in Ride
    BY DEF TypeOK, EarningsOf
  <2> QED BY <2>1 DEF Worth, Earning
<1> QED BY <1>1, <1>2, SumTyped DEF Earned

LEMMA EarnedGrows ==
  ASSUME IInv, [Next]_svars, IsFiniteSet(Earnings)
  PROVE  /\ IsFiniteSet(Earnings')
         /\ \A d \in Driver : Earned(d) \in Nat /\ Earned(d)' \in Nat /\ Earned(d) <= Earned(d)'
<1>1. TypeOK /\ TypeOK'
  BY TypeStep DEF IInv
<1>2. \A r \in Ride : Kept(r)
  <2>1. ASSUME NEW r \in Ride, earning'[r] = earning[r]
        PROVE  Kept(r)
    <3>1. earning[r] \in Earning
      BY <1>1 DEF TypeOK
    <3> QED BY <2>1, <3>1 DEF Kept, Earning
  <2> QED BY <2>1, EarningsStep
<1>3. IsFiniteSet(Earnings')
  <2>1. CASE earning' = earning
    BY <2>1 DEF Earnings
  <2>2. CASE \E o \in Ride : \A r \in Ride \ {o} : earning'[r] = earning[r]
    <3>1. PICK o \in Ride : \A r \in Ride \ {o} : earning'[r] = earning[r]
      BY <2>2
    <3>2. IsFiniteSet(Earnings \cup {o})
      BY FS_AddElement
    <3>3. Earnings' \in SUBSET (Earnings \cup {o})
      BY <3>1 DEF Earnings
    <3> QED BY <3>2, <3>3, FS_Subset
  <2> QED BY <2>1, <2>2, EarningsStep
<1>4. ASSUME NEW d \in Driver
      PROVE  Earned(d) \in Nat /\ Earned(d)' \in Nat /\ Earned(d) <= Earned(d)'
  <2> DEFINE more  == {r \in Ride : earning'[r].driver = d}
             value == [r \in Ride |-> earning'[r].amount + earning'[r].tip]
  <2>1. IsFiniteSet(more)
    <3>1. more \in SUBSET Earnings'
      BY DEF Earnings
    <3> QED BY <1>3, <3>1, FS_Subset
  <2>2. \A r \in more : value[r] \in Nat
    BY <1>1 DEF TypeOK, Earning
  <2>3. EarningsOf(d) \in SUBSET more
    BY <1>2 DEF EarningsOf, Kept
  <2>4. ASSUME NEW r \in EarningsOf(d)
        PROVE  Worth[r] \in Nat /\ Worth[r] <= value[r]
    <3>1. r \in Ride /\ earning[r].driver # NoOne
      BY DEF EarningsOf
    <3>2. earning[r] \in Earning /\ earning'[r] \in Earning /\ Kept(r)
      BY <1>1, <1>2, <3>1 DEF TypeOK
    <3> QED BY <3>1, <3>2 DEF Worth, Kept, Earning
  <2>5. Sum(EarningsOf(d), Worth) \in Nat /\ Sum(EarningsOf(d), Worth) <= Sum(more, value)
    <3> HIDE DEF more, value
    <3> QED BY <2>1, <2>2, <2>3, <2>4, SumGrows
  <2>6. Sum(more, value) \in Nat
    BY <2>1, <2>2, SumTyped
  <2>7. Earned(d)' = Sum(more, value)
    BY DEF Earned, Sum, Rupees, EarningsOf, Worth
  <2> QED BY <2>5, <2>6, <2>7 DEF Earned
<1> QED BY <1>3, <1>4

-----------------------------------------------------------------------------
(* Withdrawals.  What is pending or processed has been earned is not         *)
(* inductive: an insert relies on aggregates that were read before it.       *)
(* Vouched says in which direction they may have become stale: earnings have *)
(* only grown since, and without another request of the same driver what it  *)
(* has asked for has only shrunk.                                            *)

VouchedFor(q) ==
  asked[q] # Unasked =>
    /\ "earned" \notin asked[q].left => asked[q].earned <= Earned(asked[q].driver)
    /\ "requested" \notin asked[q].left => Requested(asked[q].driver) <= asked[q].requested

Vouched == \A q \in Dialog : VouchedFor(q)

Covered == \A d \in Driver : Requested(d) <= Earned(d)

RowsAreFinite == IsFiniteSet(Earnings) /\ IsFiniteSet(Inserted)

Askers == \A q \in Dialog : asked[q] # Unasked => asked[q].driver \in Driver

(* Inductive by itself, whatever the requests do; the rest needs that those  *)
(* of a driver come one at a time.                                           *)
Typed == IInv /\ PayoutsTypeOK /\ RowsAreFinite /\ Askers
Standing == Typed /\ PaidIsProcessed

PInv == Standing /\ Covered /\ Vouched

(* All that is pending or paid out is what RequestedBy counts. *)
LEMMA CoveredIsEnough ==
  ASSUME PInv
  PROVE  NoDoubleWithdrawal
<1> SUFFICES ASSUME NEW d \in Driver
             PROVE  Sum({p \in Pending \cup sent : payout[p].driver = d}, Cost)
                      <= Sum(EarningsOf(d), Worth)
  BY DEF NoDoubleWithdrawal
<1>1. {p \in Pending \cup sent : payout[p].driver = d} = RequestedBy(d)
  BY DEF PInv, Standing, Typed, PaidIsProcessed, Pending, RequestedBy
<1> QED BY <1>1 DEF PInv, Standing, Typed, Covered, Requested, Earned

LEMMA RequestedTyped ==
  ASSUME PayoutsTypeOK, IsFiniteSet(Inserted), NEW d
  PROVE  /\ IsFiniteSet(RequestedBy(d)) /\ Requested(d) \in Nat
         /\ \A p \in Payout : Cost[p] \in Nat
<1>1. IsFiniteSet(RequestedBy(d))
  <2>1. RequestedBy(d) \in SUBSET Inserted
    BY DEF RequestedBy, Inserted
  <2> QED BY <2>1, FS_Subset
<1>2. ASSUME NEW p \in Payout
      PROVE  Cost[p] \in Nat
  <2>1. payout[p] \in Record
    BY DEF PayoutsTypeOK
  <2> QED BY <2>1 DEF Cost, Record
<1>3. \A p \in RequestedBy(d) : Cost[p] \in Nat
  BY <1>2 DEF RequestedBy
<1> QED BY <1>1, <1>2, <1>3, SumTyped DEF Requested

LEMMA InitPInv == PayoutsInit => PInv
<1> SUFFICES ASSUME PayoutsInit PROVE PInv
  OBVIOUS
<1>1. IInv
  BY InitIInv DEF PayoutsInit
<1>2. PayoutsTypeOK
  BY <1>1 DEF IInv, PayoutsInit, PayoutsTypeOK, Record, NoRecord, Asking, Unasked
<1>3. Earnings = {} /\ Inserted = {}
  BY DEF PayoutsInit, Init, Earnings, Inserted, NoRecord
<1>4. RowsAreFinite
  BY <1>3, FS_EmptySet DEF RowsAreFinite
<1>5. Askers /\ PaidIsProcessed /\ Vouched
  BY DEF PayoutsInit, Askers, PaidIsProcessed, Vouched, VouchedFor, NoRecord
<1>6. ASSUME NEW d \in Driver
      PROVE  Requested(d) <= Earned(d)
  <2>1. RequestedBy(d) = {}
    BY DEF PayoutsInit, RequestedBy, NoRecord
  <2>2. Requested(d) = 0
    BY <2>1, FS_EmptySet DEF Requested, Sum, Rupees
  <2>3. Earned(d) \in Nat
    BY <1>1, <1>4, EarnedTyped DEF RowsAreFinite, IInv
  <2> QED BY <2>2, <2>3
<1> QED BY <1>1, <1>2, <1>4, <1>5, <1>6 DEF PInv, Standing, Typed, Covered

(* To Settlement, a step of a payout is a stutter. *)
LEMMA PayoutsRefine == [PayoutsNext]_pvars => [Next]_svars
BY DEF PayoutsNext, pvars

LEMMA OthersWait ==
  ASSUME PayoutsTypeOK, NEW q \in Dialog, NEW task, Answer(q, task)
  PROVE  /\ asked'[q] = task
         /\ \A p \in Dialog \ {q} : asked'[p] = asked[p]
BY DEF PayoutsTypeOK, Answer

LEMMA AskedTyped ==
  ASSUME PayoutsTypeOK, NEW q \in Dialog, NEW task \in Asking, Answer(q, task)
  PROVE  asked' \in [Dialog -> Asking]
BY DEF PayoutsTypeOK, Answer

LEMMA UnaskedTyped == Unasked \in Asking
BY DEF Unasked, Asking

LEMMA PayoutsTypeStep ==
  ASSUME Typed, [PayoutsNext]_pvars
  PROVE  PayoutsTypeOK'
<1>1. TypeOK'
  BY PayoutsRefine, TypeStep DEF Typed
<1> USE DEF PayoutsTypeOK
<1>2. PayoutsTypeOK
  BY DEF Typed
<1>3. CASE UNCHANGED payouts
  BY <1>1, <1>2, <1>3 DEF payouts, desk
<1>4. ASSUME NEW q \in Dialog, NEW d \in Driver, NEW amount \in Amounts, Ask(q, d, amount)
      PROVE  PayoutsTypeOK'
  <2>1. [Unasked EXCEPT !.driver = d, !.amount = amount,
                        !.left = {"earned", "requested"}] \in Asking
    BY DEF Unasked, Asking
  <2> QED BY <1>1, <1>2, <1>4, <2>1, AskedTyped DEF Ask, desk
<1>5. ASSUME NEW q \in Dialog, ReadEarned(q)
      PROVE  PayoutsTypeOK'
  <2>1. asked[q] # Unasked /\ asked[q] \in Asking
    BY <1>2, <1>5 DEF ReadEarned, Unasked
  <2>2. Earned(asked[q].driver) \in Nat
    BY <2>1, EarnedTyped DEF Typed, Askers, RowsAreFinite, IInv
  <2>3. [asked[q] EXCEPT !.earned = Earned(asked[q].driver), !.left = @ \ {"earned"}] \in Asking
    BY <2>1, <2>2 DEF Asking
  <2> QED BY <1>1, <1>2, <1>5, <2>3, AskedTyped DEF ReadEarned, Earned, desk
<1>6. ASSUME NEW q \in Dialog, ReadRequested(q)
      PROVE  PayoutsTypeOK'
  <2>1. asked[q] \in Asking
    BY <1>2
  <2>2. Requested(asked[q].driver) \in Nat
    BY <1>2, RequestedTyped DEF Typed, RowsAreFinite
  <2>3. [asked[q] EXCEPT !.requested = Requested(asked[q].driver),
                         !.left = @ \ {"requested"}] \in Asking
    BY <2>1, <2>2 DEF Asking
  <2> QED BY <1>1, <1>2, <1>6, <2>3, AskedTyped DEF ReadRequested, Requested, desk
<1>7. ASSUME NEW q \in Dialog, Insert(q) \/ Fail(q)
      PROVE  PayoutsTypeOK'
  <2>1. asked' \in [Dialog -> Asking]
    BY <1>2, <1>7, UnaskedTyped, AskedTyped DEF Insert, Fail
  <2>2. payout' \in [Payout -> Record]
    <3>1. asked[q] \in Asking
      BY <1>2
    <3>2. [driver |-> asked[q].driver, amount |-> asked[q].amount, status |-> "pending"] \in Record
      BY <3>1 DEF Asking, Record
    <3> QED BY <1>2, <1>7, <3>2 DEF Insert, Fail
  <2> QED BY <1>1, <1>2, <1>7, <2>1, <2>2 DEF Insert, Fail, desk
<1>8. CASE Decides /\ UNCHANGED svars
  <2>1. CASE ListPayouts
    BY <1>1, <1>2, <2>1 DEF ListPayouts, Pending
  <2>2. ASSUME NEW p \in Payout, NEW to \in {"processed", "failed"}, Tap(p, to)
        PROVE  PayoutsTypeOK'
    BY <1>1, <1>2, <2>2 DEF Tap
  <2>3. ASSUME NEW decision \in deciding, Decide(decision)
        PROVE  PayoutsTypeOK'
    <3>1. decision.payout \in Payout /\ decision.to \in {"processed", "failed"}
      BY <1>2
    <3>2. payout' \in [Payout -> Record]
      <4>1. payout[decision.payout] \in Record
        BY <1>2, <3>1
      <4>2. [payout[decision.payout] EXCEPT !.status = decision.to] \in Record
        BY <3>1, <4>1 DEF Record
      <4> QED BY <1>2, <2>3, <3>1, <4>2 DEF Decide
    <3> QED BY <1>1, <1>2, <2>3, <3>1, <3>2 DEF Decide, Pending
  <2> QED BY <1>8, <2>1, <2>2, <2>3 DEF Decides
<1> QED BY <1>3, <1>4, <1>5, <1>6, <1>7, <1>8 DEF PayoutsNext, Withdraws, pvars

LEMMA AskersStep ==
  ASSUME Typed, [PayoutsNext]_pvars
  PROVE  Askers'
<1> USE DEF Askers
<1>1. ASSUME NEW q \in Dialog, Withdraws(q)
      PROVE  Askers'
  <2>1. PICK task : Answer(q, task)
    BY <1>1, Zenon DEF Withdraws, Ask, ReadEarned, ReadRequested, Insert, Fail
  <2>2. /\ asked'[q] = task
        /\ \A p \in Dialog \ {q} : asked'[p] = asked[p]
    BY <2>1, OthersWait DEF Typed
  <2>3. asked[q] \in Asking
    BY DEF Typed, PayoutsTypeOK
  <2>4. ASSUME asked'[q] # Unasked
        PROVE  asked'[q].driver \in Driver
    <3>1. CASE \E d \in Driver, amount \in Amounts : Ask(q, d, amount)
      <4>1. PICK d \in Driver, amount \in Amounts : Ask(q, d, amount)
        BY <3>1
      <4>2. asked'[q] = [Unasked EXCEPT !.driver = d, !.amount = amount,
                                        !.left = {"earned", "requested"}]
        BY <4>1, OthersWait DEF Typed, Ask
      <4> QED BY <4>2 DEF Unasked
    <3>2. CASE ReadEarned(q)
      <4>1. asked[q] # Unasked
        BY <3>2 DEF ReadEarned, Unasked
      <4>2. asked'[q] = [asked[q] EXCEPT !.earned = Earned(asked[q].driver),
                                        !.left = @ \ {"earned"}]
        BY <3>2, OthersWait DEF Typed, ReadEarned, Earned
      <4>3. asked'[q].driver = asked[q].driver
        BY <2>3, <4>2 DEF Asking
      <4> QED BY <4>1, <4>3 DEF Typed
    <3>3. CASE ReadRequested(q)
      <4>1. asked[q] # Unasked
        BY <3>3 DEF ReadRequested, Unasked
      <4>2. asked'[q] = [asked[q] EXCEPT !.requested = Requested(asked[q].driver),
                                        !.left = @ \ {"requested"}]
        BY <3>3, OthersWait DEF Typed, ReadRequested, Requested
      <4>3. asked'[q].driver = asked[q].driver
        BY <2>3, <4>2 DEF Asking
      <4> QED BY <4>1, <4>3 DEF Typed
    <3>4. CASE Insert(q) \/ Fail(q)
      BY <2>4, <3>4, OthersWait DEF Typed, Insert, Fail
    <3> QED BY <1>1, <3>1, <3>2, <3>3, <3>4 DEF Withdraws
  <2> QED BY <2>2, <2>4 DEF Typed
<1>2. CASE UNCHANGED asked
  BY <1>2 DEF Typed
<1> QED BY <1>1, <1>2 DEF PayoutsNext, Decides, ListPayouts, Tap, Decide, payouts, pvars

(* Both tables get their rows one at a time. *)
LEMMA RowsStep ==
  ASSUME Typed, [PayoutsNext]_pvars
  PROVE  RowsAreFinite'
<1>1. IsFiniteSet(Earnings')
  BY PayoutsRefine, EarnedGrows DEF Typed, RowsAreFinite
<1>2. ASSUME NEW new \in Payout, \A p \in Payout \ {new} : payout'[p] = payout[p]
      PROVE  IsFiniteSet(Inserted')
  <2>1. Inserted' \in SUBSET (Inserted \cup {new})
    BY <1>2 DEF Inserted
  <2>2. IsFiniteSet(Inserted \cup {new})
    BY FS_AddElement DEF Typed, RowsAreFinite
  <2> QED BY <2>1, <2>2, FS_Subset
<1>3. ASSUME UNCHANGED payout
      PROVE  IsFiniteSet(Inserted')
  <2>1. Inserted' = Inserted
    BY <1>3 DEF Inserted
  <2> QED BY <2>1 DEF Typed, RowsAreFinite
<1>4. ASSUME NEW q \in Dialog, Insert(q)
      PROVE  IsFiniteSet(Inserted')
  <2>1. CASE \E new \in Payout : \A p \in Payout \ {new} : payout'[p] = payout[p]
    BY <1>2, <2>1
  <2> QED BY <1>3, <1>4, <2>1 DEF Insert, Typed, PayoutsTypeOK, RowsAreFinite
<1>5. ASSUME NEW decision \in deciding, Decide(decision)
      PROVE  IsFiniteSet(Inserted')
  <2>1. decision.payout \in Payout
    BY DEF Typed, PayoutsTypeOK
  <2>2. \A p \in Payout \ {decision.payout} : payout'[p] = payout[p]
    BY <1>5 DEF Decide, Typed, PayoutsTypeOK
  <2> QED BY <1>2, <2>1, <2>2
<1>6. CASE \E q \in Dialog : Withdraws(q)
  BY <1>1, <1>3, <1>4, <1>6 DEF Withdraws, Ask, ReadEarned, ReadRequested, Fail, RowsAreFinite
<1>7. CASE Decides
  BY <1>1, <1>3, <1>5, <1>7 DEF Decides, ListPayouts, Tap, RowsAreFinite
<1> QED BY <1>1, <1>3, <1>6, <1>7 DEF PayoutsNext, payouts, pvars, RowsAreFinite

LEMMA TypedStep ==
  ASSUME Typed, [PayoutsNext]_pvars
  PROVE  Typed'
<1>1. IInv'
  BY PayoutsRefine, TypeStep, ExclusiveStep, JustifiedStep, BooksStep, ReconcilesStep
     DEF Typed, IInv
<1> QED BY <1>1, PayoutsTypeStep, AskersStep, RowsStep DEF Typed

(* A decision finds its payout pending or changes nothing. *)
LEMMA StandingStep ==
  ASSUME Standing, [PayoutsNext]_pvars
  PROVE  Standing'
<1>1. payout \in [Payout -> Record]
  BY DEF Standing, Typed, PayoutsTypeOK
<1>2. CASE UNCHANGED <<payout, sent>>
  BY <1>2, TypedStep DEF Standing, PaidIsProcessed
<1>3. ASSUME NEW q \in Dialog, Insert(q)
      PROVE  PaidIsProcessed'
  BY <1>1, <1>3 DEF Insert, Standing, PaidIsProcessed
<1>4. ASSUME NEW decision \in deciding, Decide(decision)
      PROVE  PaidIsProcessed'
  <2> DEFINE on == decision.payout
  <2>1. on \in Payout /\ decision.to \in {"processed", "failed"}
    BY DEF Standing, Typed, PayoutsTypeOK
  <2>2. CASE on \notin Pending
    BY <1>4, <2>2 DEF Decide, Standing, PaidIsProcessed
  <2>3. CASE on \in Pending
    <3>1. payout'[on].status = decision.to /\ payout[on].status = "pending"
      BY <1>1, <1>4, <2>1, <2>3 DEF Decide, Pending, Record
    <3>2. \A p \in Payout \ {on} : payout'[p] = payout[p]
      BY <1>1, <1>4, <2>3 DEF Decide
    <3>3. sent' = IF decision.to = "processed" THEN sent \cup {on} ELSE sent
      BY <1>4, <2>3 DEF Decide
    <3> QED BY <2>1, <3>1, <3>2, <3>3 DEF Standing, PaidIsProcessed
  <2> QED BY <2>2, <2>3
<1>5. CASE \E q \in Dialog : Withdraws(q)
  BY <1>2, <1>3, <1>5, TypedStep
     DEF Withdraws, Ask, ReadEarned, ReadRequested, Fail, Standing
<1>6. CASE Decides
  BY <1>2, <1>4, <1>6, TypedStep DEF Decides, ListPayouts, Tap, Standing
<1> QED BY <1>2, <1>5, <1>6 DEF PayoutsNext, payouts, pvars

(* An insert adds its amount to what its driver has asked for ... *)
LEMMA InsertAdds ==
  ASSUME PInv, NEW q \in Dialog, NEW new \in Payout, payout[new].status = "none",
         payout' = [payout EXCEPT ![new] = [driver |-> asked[q].driver,
                                            amount |-> asked[q].amount,
                                            status |-> "pending"]]
  PROVE  \A d \in Driver : Requested(d)' = IF d = asked[q].driver
                                             THEN Requested(d) + asked[q].amount
                                             ELSE Requested(d)
<1>1. payout \in [Payout -> Record] /\ asked[q] \in Asking
  BY DEF PInv, Standing, Typed, PayoutsTypeOK
<1> DEFINE cost == [p \in Payout |-> payout'[p].amount]
<1>3. \A p \in Payout \ {new} : payout'[p] = payout[p] /\ cost[p] = Cost[p]
  BY <1>1 DEF Cost
<1>4. payout'[new].driver = asked[q].driver /\ cost[new] = asked[q].amount
      /\ payout'[new].status = "pending"
  BY <1>1
<1>5. ASSUME NEW d \in Driver
      PROVE  Requested(d)' = IF d = asked[q].driver THEN Requested(d) + asked[q].amount
                                                    ELSE Requested(d)
  <2> DEFINE now == {p \in Payout : payout'[p].driver = d
                                      /\ payout'[p].status \in {"pending", "processed"}}
  <2>1. Requested(d)' = Sum(now, cost)
    BY DEF Requested, Sum, Rupees, RequestedBy, Cost
  <2>2. new \notin RequestedBy(d)
    BY DEF RequestedBy
  <2>3. IsFiniteSet(RequestedBy(d)) /\ \A p \in Payout : Cost[p] \in Nat
    BY RequestedTyped DEF PInv, Standing, Typed, RowsAreFinite
  <2>4. Sum(RequestedBy(d), cost) = Requested(d)
    <3>1. \A p \in RequestedBy(d) : Cost[p] = cost[p]
      BY <1>3, <2>2 DEF RequestedBy
    <3> HIDE DEF cost
    <3> QED BY <3>1, SameSum DEF Requested
  <2>5. CASE d = asked[q].driver
    <3>1. now = RequestedBy(d) \cup {new}
      BY <1>3, <1>4, <2>5 DEF RequestedBy
    <3>2. \A p \in RequestedBy(d) \cup {new} : cost[p] \in Nat
      BY <1>1, <1>3, <1>4, <2>3 DEF RequestedBy, Asking
    <3>3. Sum(RequestedBy(d) \cup {new}, cost) = Sum(RequestedBy(d), cost) + cost[new]
      <4> HIDE DEF cost
      <4> QED BY <2>2, <2>3, <3>2, SumAdds
    <3> QED BY <1>4, <2>1, <2>4, <2>5, <3>1, <3>3
  <2>6. CASE d # asked[q].driver
    <3>1. now = RequestedBy(d)
      BY <1>3, <1>4, <2>2, <2>6 DEF RequestedBy
    <3> QED BY <2>1, <2>4, <2>6, <3>1
  <2> QED BY <2>5, <2>6
<1> QED BY <1>5

(* ... and a decision takes away from it, or nothing. *)
LEMMA DecisionLowers ==
  ASSUME PInv, NEW decision \in deciding, Decide(decision)
  PROVE  \A d \in Driver : Requested(d)' \in Nat /\ Requested(d)' <= Requested(d)
<1> DEFINE on == decision.payout
<1>1. payout \in [Payout -> Record] /\ on \in Payout
      /\ decision.to \in {"processed", "failed"}
  BY DEF PInv, Standing, Typed, PayoutsTypeOK
<1>2. \A p \in Payout : /\ payout'[p].driver = payout[p].driver
                        /\ payout'[p].amount = payout[p].amount
  BY <1>1 DEF Decide, Record
<1>3. \A p \in Payout : \/ payout'[p].status = payout[p].status
                        \/ /\ p = on /\ payout[p].status = "pending"
                           /\ payout'[p].status = decision.to
  BY <1>1 DEF Decide, Pending, Record
<1>6. ASSUME NEW d \in Driver
      PROVE  Requested(d)' \in Nat /\ Requested(d)' <= Requested(d)
  <2> DEFINE now == {p \in Payout : payout'[p].driver = d
                                      /\ payout'[p].status \in {"pending", "processed"}}
             cost == [p \in Payout |-> payout'[p].amount]
  <2>1. Requested(d)' = Sum(now, cost)
    BY DEF Requested, Sum, Rupees, RequestedBy, Cost
  <2>2. IsFiniteSet(RequestedBy(d)) /\ \A p \in Payout : Cost[p] \in Nat
    BY RequestedTyped DEF PInv, Standing, Typed, RowsAreFinite
  <2>3. now \in SUBSET RequestedBy(d)
    BY <1>2, <1>3 DEF RequestedBy
  <2>4. \A p \in Payout : cost[p] = Cost[p]
    BY <1>2 DEF Cost
  <2>5. \A p \in now : cost[p] \in Nat /\ cost[p] <= Cost[p]
    BY <2>2, <2>4
  <2>6. \A p \in RequestedBy(d) : Cost[p] \in Nat
    BY <2>2 DEF RequestedBy
  <2>7. Sum(now, cost) \in Nat /\ Sum(now, cost) <= Sum(RequestedBy(d), Cost)
    <3> HIDE DEF now, cost
    <3> QED BY <2>2, <2>3, <2>5, <2>6, SumGrows
  <2> QED BY <2>1, <2>7 DEF Requested
<1> QED BY <1>6

LEMMA SameRequested ==
  ASSUME UNCHANGED payout
  PROVE  \A d : Requested(d)' = Requested(d)
BY DEF Requested, Sum, Rupees, RequestedBy, Cost

LEMMA SameEarned ==
  ASSUME UNCHANGED svars
  PROVE  \A d : Earned(d)' = Earned(d)
BY DEF Earned, Sum, Rupees, EarningsOf, Worth, svars

LEMMA SumsTyped ==
  ASSUME PInv, NEW d \in Driver
  PROVE  Earned(d) \in Nat /\ Requested(d) \in Nat
BY EarnedTyped, RequestedTyped DEF PInv, Standing, Typed, IInv, RowsAreFinite

(* A request that waits stays vouched for while earnings only grow and what  *)
(* its driver has asked for only shrinks.                                    *)
LEMMA StillVouched ==
  ASSUME PInv, NEW q \in Dialog, asked'[q] = asked[q],
         \A d \in Driver : d = asked[q].driver =>
           /\ Earned(d)' \in Nat /\ Earned(d) <= Earned(d)'
           /\ Requested(d)' \in Nat /\ Requested(d)' <= Requested(d)
  PROVE  VouchedFor(q)'
<1> SUFFICES ASSUME asked[q] # Unasked
             PROVE  VouchedFor(q)'
  BY DEF VouchedFor
<1>1. VouchedFor(q) /\ asked[q] \in Asking
  BY DEF PInv, Standing, Typed, Vouched, PayoutsTypeOK
<1> DEFINE d == asked[q].driver
<1>2. d \in Driver
  BY DEF PInv, Standing, Typed, Askers
<1>3. /\ Earned(d) \in Nat /\ Earned(d)' \in Nat /\ Earned(d) <= Earned(d)'
      /\ Requested(d) \in Nat /\ Requested(d)' \in Nat /\ Requested(d)' <= Requested(d)
  BY <1>2, SumsTyped
<1>4. "earned" \notin asked[q].left => asked[q].earned <= Earned(d)'
  BY <1>1, <1>3 DEF VouchedFor, Asking
<1>5. "requested" \notin asked[q].left => Requested(d)' <= asked[q].requested
  BY <1>1, <1>3 DEF VouchedFor, Asking
<1> QED BY <1>2, <1>4, <1>5 DEF VouchedFor

(* The steps that leave both tables as they are. *)
LEMMA SameTables ==
  ASSUME PInv, UNCHANGED <<svars, payout, sent>>
  PROVE  /\ Covered'
         /\ \A q \in Dialog : asked'[q] = asked[q] => VouchedFor(q)'
<1>1. \A d : Earned(d)' = Earned(d) /\ Requested(d)' = Requested(d)
  BY SameEarned, SameRequested
<1>3. Covered'
  BY <1>1 DEF PInv, Standing, Typed, Covered
<1>4. ASSUME NEW q \in Dialog, asked'[q] = asked[q]
      PROVE  VouchedFor(q)'
  <2>1. \A d \in Driver : /\ Earned(d)' \in Nat /\ Earned(d) <= Earned(d)'
                          /\ Requested(d)' \in Nat /\ Requested(d)' <= Requested(d)
    BY <1>1, SumsTyped
  <2> QED BY <1>4, <2>1, StillVouched
<1> QED BY <1>3, <1>4

LEMMA InsertStep ==
  ASSUME PInv, OneRequestPerDriver, NEW q \in Dialog, Insert(q), UNCHANGED svars
  PROVE  Covered' /\ Vouched'
<1> DEFINE task == asked[q]
<1>1. /\ asked'[q] = Unasked
      /\ \A p \in Dialog \ {q} : asked'[p] = asked[p]
  BY OthersWait DEF PInv, Standing, Typed, Insert
<1>2. VouchedFor(q)'
  BY <1>1 DEF VouchedFor
<1>3. CASE UNCHANGED payout
  <2>1. UNCHANGED <<svars, payout, sent>>
    BY <1>3 DEF Insert
  <2> QED BY <1>1, <1>2, <2>1, SameTables DEF Vouched
<1>4. CASE ~(task.amount > task.earned - task.requested)
  <2>1. PICK new \in Payout :
          /\ payout[new].status = "none"
          /\ payout' = [payout EXCEPT ![new] = [driver |-> task.driver,
                                                amount |-> task.amount,
                                                status |-> "pending"]]
    BY <1>4 DEF Insert
  <2>2. \A d \in Driver : Requested(d)' = IF d = task.driver
                                            THEN Requested(d) + task.amount
                                            ELSE Requested(d)
    BY <2>1, InsertAdds
  <2>3. \A d : Earned(d)' = Earned(d)
    BY SameEarned
  <2>6. task \in Asking /\ VouchedFor(q) /\ task # Unasked /\ task.left = {}
    BY DEF PInv, Standing, Typed, PayoutsTypeOK, Vouched, Insert, Unasked
  <2>7. /\ task.driver \in Driver /\ task.earned <= Earned(task.driver)
        /\ Requested(task.driver) <= task.requested
    BY <2>6 DEF VouchedFor, PInv, Standing, Typed, Askers
  <2>8. Covered'
    <3> SUFFICES ASSUME NEW d \in Driver
                 PROVE  Requested(d)' <= Earned(d)'
      BY DEF Covered
    <3>1. CASE d # task.driver
      BY <2>2, <2>3, <3>1 DEF PInv, Standing, Typed, Covered
    <3>2. CASE d = task.driver
      <4>1. Requested(d)' = Requested(d) + task.amount /\ Earned(d)' = Earned(d)
        BY <2>2, <2>3, <3>2
      <4>2. Requested(d) \in Nat /\ Earned(d) \in Nat
        BY SumsTyped
      <4>3. Requested(d) <= task.requested /\ task.earned <= Earned(d)
        BY <2>7, <3>2
      <4>4. /\ task.amount \in Nat /\ task.earned \in Nat /\ task.requested \in Nat
            /\ task.amount <= task.earned - task.requested
        BY <1>4, <2>6 DEF Asking
      <4> QED BY <4>1, <4>2, <4>3, <4>4
    <3> QED BY <3>1, <3>2
  <2>9. ASSUME NEW p \in Dialog \ {q}
        PROVE  VouchedFor(p)'
    <3>1. asked'[p] = asked[p]
      BY <1>1
    <3>2. asked[p].driver # task.driver
      BY <2>6 DEF OneRequestPerDriver
    <3>3. \A d \in Driver : d = asked[p].driver =>
            /\ Earned(d)' \in Nat /\ Earned(d) <= Earned(d)'
            /\ Requested(d)' \in Nat /\ Requested(d)' <= Requested(d)
      BY <2>2, <2>3, <3>2, SumsTyped
    <3> QED BY <3>1, <3>3, StillVouched
  <2> QED BY <1>2, <2>8, <2>9 DEF Vouched
<1> QED BY <1>3, <1>4 DEF Insert

LEMMA PInvStep ==
  ASSUME PInv, OneRequestPerDriver, [PayoutsNext]_pvars
  PROVE  PInv'
<1>1. Standing'
  BY StandingStep DEF PInv
<1> SUFFICES Covered' /\ Vouched'
  BY <1>1 DEF PInv
<1>3. CASE Next /\ UNCHANGED payouts
  <2>1. \A d \in Driver : Earned(d) \in Nat /\ Earned(d)' \in Nat /\ Earned(d) <= Earned(d)'
    BY <1>3, EarnedGrows DEF PInv, Standing, Typed, RowsAreFinite
  <2>2. UNCHANGED <<payout, sent, asked>>
    BY <1>3 DEF payouts
  <2>3. \A d : Requested(d)' = Requested(d)
    BY <2>2, SameRequested
  <2>5. ASSUME NEW d \in Driver
        PROVE  Requested(d)' <= Earned(d)'
    <3>1. Requested(d) <= Earned(d) /\ Requested(d) \in Nat
      BY SumsTyped DEF PInv, Standing, Typed, Covered
    <3> QED BY <2>1, <2>3, <3>1
  <2>6. ASSUME NEW q \in Dialog
        PROVE  VouchedFor(q)'
    <3>1. \A d \in Driver : /\ Earned(d)' \in Nat /\ Earned(d) <= Earned(d)'
                            /\ Requested(d)' \in Nat /\ Requested(d)' <= Requested(d)
      BY <2>1, <2>3, SumsTyped
    <3> QED BY <2>2, <3>1, StillVouched
  <2> QED BY <2>5, <2>6 DEF Covered, Vouched
<1>4. ASSUME NEW q \in Dialog, Withdraws(q), ~Insert(q), UNCHANGED svars
      PROVE  Covered' /\ Vouched'
  <2>1. UNCHANGED <<svars, payout, sent>>
    BY <1>4 DEF Withdraws, Ask, ReadEarned, ReadRequested, Fail
  <2>2. VouchedFor(q) /\ asked[q] \in Asking
    BY DEF PInv, Standing, Typed, Vouched, PayoutsTypeOK
  <2>3. PICK task : Answer(q, task)
    BY <1>4, Zenon DEF Withdraws, Ask, ReadEarned, ReadRequested, Fail
  <2>4. \A p \in Dialog \ {q} : asked'[p] = asked[p]
    BY <2>3, OthersWait DEF PInv, Standing, Typed
  <2>5. \A d : Earned(d)' = Earned(d) /\ Requested(d)' = Requested(d)
    BY <2>1, SameEarned, SameRequested
  <2>6. CASE \E d \in Driver, amount \in Amounts : Ask(q, d, amount)
    <3>1. PICK d \in Driver, amount \in Amounts : Ask(q, d, amount)
      BY <2>6
    <3>2. asked'[q] = [Unasked EXCEPT !.driver = d, !.amount = amount,
                                      !.left = {"earned", "requested"}]
      BY <3>1, OthersWait DEF PInv, Standing, Typed, Ask
    <3>3. VouchedFor(q)'
      BY <3>2 DEF VouchedFor, Unasked
    <3> QED BY <2>1, <2>4, <3>3, SameTables DEF Vouched
  <2>7. CASE ReadEarned(q)
    <3> DEFINE d == asked[q].driver
    <3>1. asked'[q] = [asked[q] EXCEPT !.earned = Earned(d), !.left = @ \ {"earned"}]
      BY <2>7, OthersWait DEF PInv, Standing, Typed, ReadEarned, Earned
    <3>2. d \in Driver
      BY <2>2, <2>7 DEF PInv, Standing, Typed, Askers, ReadEarned, Unasked
    <3>3. Earned(d) \in Nat
      BY <3>2, SumsTyped
    <3>4. /\ asked'[q].driver = d /\ asked'[q].earned = Earned(d)
          /\ asked'[q].requested = asked[q].requested
          /\ asked'[q].left = asked[q].left \ {"earned"}
      BY <2>2, <3>1 DEF Asking
    <3>5. "requested" \notin asked[q].left => Requested(d) <= asked[q].requested
      BY <2>2, <2>7 DEF VouchedFor, ReadEarned, Unasked
    <3>6. VouchedFor(q)'
      <4>1. "requested" \notin asked'[q].left => Requested(d)' <= asked'[q].requested
        BY <2>5, <3>4, <3>5
      <4>2. asked'[q].earned <= Earned(d)'
        BY <2>5, <3>3, <3>4
      <4> QED BY <3>2, <3>4, <4>1, <4>2 DEF VouchedFor
    <3> QED BY <2>1, <2>4, <3>6, SameTables DEF Vouched
  <2>8. CASE ReadRequested(q)
    <3> DEFINE d == asked[q].driver
    <3>1. asked'[q] = [asked[q] EXCEPT !.requested = Requested(d), !.left = @ \ {"requested"}]
      BY <2>8, OthersWait DEF PInv, Standing, Typed, ReadRequested, Requested
    <3>2. d \in Driver
      BY <2>2, <2>8 DEF PInv, Standing, Typed, Askers, ReadRequested, Unasked
    <3>3. Requested(d) \in Nat
      BY <3>2, SumsTyped
    <3>4. /\ asked'[q].driver = d /\ asked'[q].requested = Requested(d)
          /\ asked'[q].earned = asked[q].earned
          /\ asked'[q].left = asked[q].left \ {"requested"}
      BY <2>2, <3>1 DEF Asking
    <3>5. "earned" \notin asked[q].left => asked[q].earned <= Earned(d)
      BY <2>2, <2>8 DEF VouchedFor, ReadRequested, Unasked
    <3>6. VouchedFor(q)'
      <4>1. "earned" \notin asked'[q].left => asked'[q].earned <= Earned(d)'
        BY <2>5, <3>4, <3>5
      <4>2. Requested(d)' <= asked'[q].requested
        BY <2>5, <3>3, <3>4
      <4> QED BY <3>2, <3>4, <4>1, <4>2 DEF VouchedFor
    <3> QED BY <2>1, <2>4, <3>6, SameTables DEF Vouched
  <2>9. CASE Fail(q)
    <3>1. asked'[q] = Unasked
      BY <2>9, OthersWait DEF PInv, Standing, Typed, Fail
    <3>2. VouchedFor(q)'
      BY <3>1 DEF VouchedFor
    <3> QED BY <2>1, <2>4, <3>2, SameTables DEF Vouched
  <2> QED BY <1>4, <2>6, <2>7, <2>8, <2>9 DEF Withdraws
<1>5. CASE Decides /\ UNCHANGED svars
  <2>1. UNCHANGED asked
    BY <1>5 DEF Decides, ListPayouts, Tap, Decide
  <2>2. CASE UNCHANGED <<payout, sent>>
    BY <1>5, <2>1, <2>2, SameTables DEF Vouched
  <2>3. ASSUME NEW decision \in deciding, Decide(decision)
        PROVE  Covered' /\ Vouched'
    <3>1. \A d \in Driver : Requested(d)' \in Nat /\ Requested(d)' <= Requested(d)
      BY <2>3, DecisionLowers
    <3>2. \A d : Earned(d)' = Earned(d)
      BY <1>5, SameEarned
    <3>4. ASSUME NEW d \in Driver
          PROVE  Requested(d)' <= Earned(d)'
      <4>1. Requested(d) <= Earned(d) /\ Requested(d) \in Nat /\ Earned(d) \in Nat
        BY SumsTyped DEF PInv, Standing, Typed, Covered
      <4> QED BY <3>1, <3>2, <4>1
    <3>5. \A q \in Dialog : VouchedFor(q)'
      <4>1. \A d \in Driver : /\ Earned(d)' \in Nat /\ Earned(d) <= Earned(d)'
                              /\ Requested(d)' \in Nat /\ Requested(d)' <= Requested(d)
        BY <3>1, <3>2, SumsTyped
      <4> QED BY <2>1, <4>1, StillVouched
    <3> QED BY <3>4, <3>5 DEF Covered, Vouched
  <2> QED BY <1>5, <2>2, <2>3 DEF Decides, ListPayouts, Tap
<1>6. CASE UNCHANGED pvars
  <2>1. UNCHANGED <<svars, payout, sent>> /\ UNCHANGED asked
    BY <1>6 DEF pvars, payouts
  <2> QED BY <2>1, SameTables DEF Vouched
<1> QED BY <1>3, <1>4, <1>5, <1>6, InsertStep DEF PayoutsNext

-----------------------------------------------------------------------------
LEMMA PayoutsInvariance == PayoutsSpec /\ []OneRequestPerDriver => []PInv
<1>1. PInv /\ OneRequestPerDriver /\ [PayoutsNext]_pvars => PInv'
  BY PInvStep
<1> QED BY InitPInv, <1>1, PTL DEF PayoutsSpec

LEMMA StandingInvariance == PayoutsSpec => []Standing
<1>1. Standing /\ [PayoutsNext]_pvars => Standing'
  BY StandingStep
<1> QED BY InitPInv, <1>1, PTL DEF PayoutsSpec, PInv

(* Both tables, the requests and the admins' page keep their types, however   *)
(* many requests of a driver overlap.                                         *)
THEOREM PayoutsTypeCorrect == PayoutsSpec => []PayoutsTypeOK
<1>1. Standing => PayoutsTypeOK
  BY DEF Standing, Typed
<1> QED BY <1>1, StandingInvariance, PTL

(* Double clicks and two admins at once decide a payout once: what was sent    *)
(* stands as processed for ever (the guarded updates of adminPayouts).         *)
THEOREM PaidOnce == PayoutsSpec => []PaidIsProcessed
<1>1. Standing => PaidIsProcessed
  BY DEF Standing
<1> QED BY <1>1, StandingInvariance, PTL

(* While each driver has one request for a payout at a time, and however the *)
(* two aggregates, new earnings and the admins' decisions fall between each  *)
(* other, what is pending or paid out has been earned.                       *)
THEOREM WithdrawnOnce == PayoutsSpec /\ []OneRequestPerDriver => []NoDoubleWithdrawal
<1>1. PInv => NoDoubleWithdrawal
  BY CoveredIsEnough
<1> QED BY <1>1, PayoutsInvariance, PTL
=============================================================================
