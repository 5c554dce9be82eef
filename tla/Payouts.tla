------------------------------- MODULE Payouts -------------------------------
(***************************************************************************)
(* Withdrawals: drivers ask for payouts of what Settlement has earned them, *)
(* on their earnings page, and admins process or reject them, on their     *)
(* payments page.  A request runs two aggregates at once, over the tables  *)
(* DriverEarning and PayoutRecord, in either order, and inserts its row    *)
(* later; nothing but the check in between keeps the sum of payouts below  *)
(* the earnings.  A dialog's button is disabled while its request is        *)
(* pending, so a dialog is a slot for one request.                          *)
(*                                                                         *)
(* A sum of amounts is the number of the rupees they are made of, each told *)
(* from the others by its row and its number there.                         *)
(***************************************************************************)
EXTENDS Settlement, FiniteSets

CONSTANTS Payout,     \* rows of table PayoutRecord
          Dialog,     \* slots for the requests in flight
          Amounts     \* amounts that drivers ask for

ASSUME PayoutAssumption == Amounts \subseteq Nat \ {0}

VARIABLES payout,   \* table PayoutRecord
          asked,    \* what each request in flight has read
          listed,   \* the payouts that the admins' page lists as pending
          deciding, \* the decisions on their way, at most one of each kind
          sent      \* (history) payouts that have been processed: the money is gone

desk == <<listed, deciding>>
payouts == <<payout, asked, desk, sent>>
pvars == <<svars, payouts>>

Record == [driver : Driver \cup {NoOne}, amount : Nat,
           status : {"none", "pending", "processed", "failed"}]

NoRecord == [driver |-> NoOne, amount |-> 0, status |-> "none"]

(* left: the aggregates still to be read. *)
Asking == [driver : Driver \cup {NoOne}, amount : Nat,
           earned : Nat, requested : Nat, left : SUBSET {"earned", "requested"}]

Unasked == [driver |-> NoOne, amount |-> 0, earned |-> 0, requested |-> 0, left |-> {}]

(* SUM(worth) over some rows. *)
Rupees(rows, worth) == UNION {{row} \X (1 .. worth[row]) : row \in rows}
Sum(rows, worth) == Cardinality(Rupees(rows, worth))

EarningsOf(d) == {r \in Ride : earning[r].driver = d}
Worth == [r \in Ride |-> earning[r].amount + earning[r].tip]

Pending == {p \in Payout : payout[p].status = "pending"}
Cost == [p \in Payout |-> payout[p].amount]

(* What a driver has asked for and not been refused. *)
RequestedBy(d) ==
  {p \in Payout : payout[p].driver = d /\ payout[p].status \in {"pending", "processed"}}

Answer(q, task) == asked' = [asked EXCEPT ![q] = task]

-----------------------------------------------------------------------------
(* POST /driver/earnings/payouts *)
Ask(q, d, amount) ==
  /\ asked[q] = Unasked
  /\ Answer(q, [Unasked EXCEPT !.driver = d, !.amount = amount,
                               !.left = {"earned", "requested"}])
  /\ UNCHANGED <<payout, desk, sent>>

ReadEarned(q) ==
  /\ "earned" \in asked[q].left
  /\ Answer(q, [asked[q] EXCEPT !.earned = Sum(EarningsOf(asked[q].driver), Worth),
                                !.left = @ \ {"earned"}])
  /\ UNCHANGED <<payout, desk, sent>>

(* Mutation: only payouts that have been processed count. *)
ReadProcessed(q) ==
  /\ "requested" \in asked[q].left
  /\ Answer(q, [asked[q] EXCEPT
       !.requested = Sum({p \in RequestedBy(asked[q].driver) : payout[p].status = "processed"},
                         Cost),
       !.left = @ \ {"requested"}])
  /\ UNCHANGED <<payout, desk, sent>>

ReadRequested(q) ==
  /\ "requested" \in asked[q].left
  /\ Answer(q, [asked[q] EXCEPT !.requested = Sum(RequestedBy(asked[q].driver), Cost),
                                !.left = @ \ {"requested"}])
  /\ UNCHANGED <<payout, desk, sent>>

(* The answer of both is in: insert, or refuse. *)
Insert(q) ==
  LET task == asked[q] IN
  /\ task.driver # NoOne /\ task.left = {}
  /\ IF task.amount > task.earned - task.requested
       THEN UNCHANGED payout
       ELSE \E p \in Payout :
              /\ payout[p].status = "none"
              /\ payout' = [payout EXCEPT ![p] = [driver |-> task.driver,
                                                  amount |-> task.amount,
                                                  status |-> "pending"]]
  /\ Answer(q, Unasked)
  /\ UNCHANGED <<desk, sent>>

(* The process stops, or a statement throws. *)
Fail(q) == asked[q] # Unasked /\ Answer(q, Unasked) /\ UNCHANGED <<payout, desk, sent>>

(* The admins' page is opened or focused: GET /admin/payouts. *)
ListPayouts == listed' = Pending /\ UNCHANGED <<payout, asked, deciding, sent>>

(* A button of a payout listed as pending; useProcessPayout and               *)
(* useRejectPayout disable their own kind of button only.                     *)
Tap(p, to) ==
  /\ p \in listed
  /\ \A decision \in deciding : decision.to # to
  /\ deciding' = deciding \cup {[payout |-> p, to |-> to]}
  /\ UNCHANGED <<payout, asked, listed, sent>>

(* POST /admin/payouts/:id/process and /reject: the UPDATE of a pending row,  *)
(* and the list anew; or 409, and the list as it was.                         *)
Decide(decision) ==
  /\ decision \in deciding
  /\ deciding' = deciding \ {decision}
  /\ IF decision.payout \in Pending
       THEN /\ payout' = [payout EXCEPT ![decision.payout].status = decision.to]
            /\ sent' = IF decision.to = "processed" THEN sent \cup {decision.payout}
                                                    ELSE sent
            /\ listed' = Pending \ {decision.payout}
       ELSE UNCHANGED <<payout, sent, listed>>
  /\ UNCHANGED asked

-----------------------------------------------------------------------------
PayoutsInit ==
  /\ Init
  /\ payout = [p \in Payout |-> NoRecord]
  /\ asked  = [q \in Dialog |-> Unasked]
  /\ listed = {} /\ deciding = {} /\ sent = {}

Withdraws(q) ==
  \/ \E d \in Driver, amount \in Amounts : Ask(q, d, amount)
  \/ ReadEarned(q) \/ ReadRequested(q) \/ Insert(q) \/ Fail(q)

Decides ==
  \/ ListPayouts
  \/ \E p \in Payout, to \in {"processed", "failed"} : Tap(p, to)
  \/ \E decision \in deciding : Decide(decision)

PayoutsNext ==
  \/ Next /\ UNCHANGED payouts
  \/ ((\E q \in Dialog : Withdraws(q)) \/ Decides) /\ UNCHANGED svars

PayoutsSpec == PayoutsInit /\ [][PayoutsNext]_pvars
-----------------------------------------------------------------------------
(* Properties *)

(* Type correctness *)
PayoutsTypeOK ==
  /\ TypeOK
  /\ payout \in [Payout -> Record]
  /\ asked \in [Dialog -> Asking]
  /\ listed \subseteq Payout /\ sent \subseteq Payout
  /\ deciding \subseteq [payout : Payout, to : {"processed", "failed"}]

(* The requests of a driver come one at a time. *)
OneRequestPerDriver ==
  \A p, q \in Dialog : p # q /\ asked[p] # Unasked => asked[p].driver # asked[q].driver

(* Claimed by adminPayouts.routes.ts:28-33: double clicks and concurrent      *)
(* admins do not clobber a decision, so the rows say what money has left: a   *)
(* payout that was paid out is never rejected, nor a rejected one paid out.   *)
PaidIsProcessed == sent = {p \in Payout : payout[p].status = "processed"}

(* Claimed by driverEarnings.routes.ts:107-109: a driver cannot withdraw the  *)
(* same rupee twice, so all that has been paid out or is pending has been     *)
(* earned, whatever two admins decide about one payout at a time.             *)
NoDoubleWithdrawal ==
  \A d \in Driver :
    Sum({p \in Pending \cup sent : payout[p].driver = d}, Cost)
      <= Sum(EarningsOf(d), Worth)
=============================================================================
