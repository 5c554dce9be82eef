----------------------------- MODULE OfferScreen -----------------------------
(***************************************************************************)
(* One driver's dashboard and the overlay with a ride request that covers  *)
(* it: an offer reaches it by a push or by the poll, is accepted, declined *)
(* or, when its countdown is over, declined by the phone, while the server *)
(* withdraws offers that have lapsed.  The cached offer is written by the  *)
(* poll, both pushes and both mutations.                                   *)
(*                                                                         *)
(* A request carries one trip; other drivers and the customers are the     *)
(* environment's.  A withdrawn driver is excluded: a trip that was once    *)
(* offered to this driver is not offered again.  Left out is a withdrawal  *)
(* by id that another driver's request began before this offer and that    *)
(* excludes that driver only: RideDispatch has it (ReleaseOffer).  The     *)
(* suspension that an accept checks is OnDuty's.                           *)
(***************************************************************************)
EXTENDS Naturals, Sequences

CONSTANTS Trip,        \* rides
          NoTrip,      \* null
          MaxOffered,  \* bound: pushes not yet heard
          MaxLosses    \* bound: requests and answers lost

ASSUME OfferAssumption == MaxOffered \in Nat /\ MaxLosses \in Nat /\ NoTrip \notin Trip

VARIABLES row,        \* each ride, as far as it concerns this driver
          sweeping,   \* the ride that expireStaleOffers has found and not yet written
          overlay,    \* the dashboard's cache and the overlay that shows it
          poll,       \* GET /driver/requests/incoming: where it is and what it answers
          pushed,     \* pushes on their way, in order
          call,       \* the accept and the reject of each ride
          told,       \* rides of which the driver has read "Ride no longer available"
          losses      \* requests and answers lost

offering == <<row, sweeping, overlay, poll, pushed, call, told, losses>>

Kind == {"accept", "reject"}
NoPoll == [at |-> "idle", trip |-> NoTrip]
NoAnswer == [at |-> "idle", ride |-> FALSE]

(* busy: the mutations of this overlay that are pending; spent: its countdown *)
(* is over.  A new overlay, keyed by its ride, starts afresh.                *)
ShowOffer(t) ==
  IF t = overlay.offer THEN overlay
                       ELSE [overlay EXCEPT !.offer = t, !.busy = {}, !.spent = FALSE]
OnScreen(t) == overlay.page = "dashboard" /\ overlay.offer = t /\ t # NoTrip

(* A ride is waiting for an offer to this driver, offered to him in its      *)
(* window or past it, his to arrive at or arrived, or gone.                  *)
Offered(t) == row[t] \in {"offered", "lapsed"}
TiedUp == \E t \in Trip : row[t] \in {"offered", "lapsed", "arriving", "arrived"}

(* driverId: null by id, whatever has become of the ride since it was read:  *)
(* an accepted one is lost to him, too.                                      *)
Withdrawn(t) == [row EXCEPT ![t] = "gone"]

-----------------------------------------------------------------------------
(* The server *)

Offer(t) ==
  /\ row[t] = "waiting" /\ ~TiedUp
  /\ row' = [row EXCEPT ![t] = "offered"]
  /\ Len(pushed) < MaxOffered /\ pushed' = Append(pushed, t)
  /\ UNCHANGED <<sweeping, overlay, poll, call, told, losses>>

Lapse(t) ==
  /\ row[t] = "offered"
  /\ row' = [row EXCEPT ![t] = "lapsed"]
  /\ UNCHANGED <<sweeping, overlay, poll, pushed, call, told, losses>>

SweepFinds(t) ==
  /\ sweeping = NoTrip /\ row[t] = "lapsed"
  /\ sweeping' = t
  /\ UNCHANGED <<row, overlay, poll, pushed, call, told, losses>>

SweepWithdraws ==
  /\ sweeping # NoTrip /\ Len(pushed) < MaxOffered
  /\ row' = Withdrawn(sweeping)
  /\ pushed' = Append(pushed, NoTrip)
  /\ sweeping' = NoTrip
  /\ UNCHANGED <<overlay, poll, call, told, losses>>

(* Its rider cancels, the driver arrives, it is over.                        *)
MovesOn(t) ==
  /\ \/ row[t] \in {"offered", "lapsed", "arriving", "arrived"} /\ row' = [row EXCEPT ![t] = "gone"]
     \/ row[t] = "arriving" /\ row' = [row EXCEPT ![t] = "arrived"]
  /\ UNCHANGED <<sweeping, overlay, poll, pushed, call, told, losses>>

-----------------------------------------------------------------------------
(* The poll, every 1.5 s, and the pushes.  While the driver is offline there  *)
(* is no poll and no push is heard: the next of either may come much later.  *)

PollSent ==
  /\ overlay.page = "dashboard" /\ poll = NoPoll
  /\ poll' = [NoPoll EXCEPT !.at = "sent"]
  /\ UNCHANGED <<row, sweeping, overlay, pushed, call, told, losses>>

PollFinds ==
  /\ poll.at = "sent"
  /\ \/ \E t \in Trip : row[t] = "offered" /\ poll' = [at |-> "answer", trip |-> t]
     \/ \E t \in Trip : row[t] = "lapsed" /\ poll' = [at |-> "withdraw", trip |-> t]
     \/ (\A t \in Trip : ~Offered(t)) /\ poll' = [at |-> "answer", trip |-> NoTrip]
  /\ UNCHANGED <<row, sweeping, overlay, pushed, call, told, losses>>

PollWithdraws ==
  /\ poll.at = "withdraw"
  /\ row' = Withdrawn(poll.trip)
  /\ poll' = [at |-> "answer", trip |-> NoTrip]
  /\ UNCHANGED <<sweeping, overlay, pushed, call, told, losses>>

PollAnswered ==
  /\ poll.at = "answer"
  /\ overlay' = ShowOffer(poll.trip)
  /\ poll' = NoPoll
  /\ UNCHANGED <<row, sweeping, pushed, call, told, losses>>

HearOffer ==
  /\ pushed # <<>> /\ pushed' = Tail(pushed)
  /\ overlay' \in IF overlay.page = "dashboard" THEN {ShowOffer(Head(pushed)), overlay}
                                                ELSE {overlay}
  /\ UNCHANGED <<row, sweeping, poll, call, told, losses>>

-----------------------------------------------------------------------------
(* Accept and decline *)

Request(kind, t) == call' = [call EXCEPT ![kind][t].at = "sent"]

(* A tap, while neither mutation is pending.                                 *)
AnswerTap(kind) ==
  /\ \E t \in Trip : OnScreen(t) /\ call[kind][t] = NoAnswer /\ Request(kind, t)
  /\ overlay.busy = {}
  /\ overlay' = [overlay EXCEPT !.busy = {kind}]
  /\ UNCHANGED <<row, sweeping, poll, pushed, told, losses>>

(* The phone's clock says that the offer is over, which it may say early; a  *)
(* pending accept does not stop the decline.                                 *)
CountdownEnds ==
  /\ \E t \in Trip :
       /\ OnScreen(t) /\ ~overlay.spent
       /\ IF call["reject"][t] = NoAnswer THEN Request("reject", t) ELSE UNCHANGED call
  /\ overlay' = [overlay EXCEPT !.spent = TRUE, !.busy = @ \cup {"reject"}]
  /\ UNCHANGED <<row, sweeping, poll, pushed, told, losses>>

(* Mutation: a repeated accept is refused like a late one.                   *)
AcceptOnce(t) ==
  /\ call["accept"][t].at = "sent"
  /\ row' = IF Offered(t) THEN [row EXCEPT ![t] = "arriving"] ELSE row
  /\ call' = [call EXCEPT !["accept"][t] = [at |-> "answer", ride |-> Offered(t)]]
  /\ UNCHANGED <<sweeping, overlay, poll, pushed, told, losses>>

(* POST /driver/requests/:rideId/accept: the UPDATE of a ride that is still  *)
(* this driver's request, lapsed or not, or the ride that an earlier accept  *)
(* has made his.                                                             *)
AcceptHandled(t) ==
  /\ call["accept"][t].at = "sent"
  /\ row' = IF Offered(t) THEN [row EXCEPT ![t] = "arriving"] ELSE row
  /\ call' = [call EXCEPT !["accept"][t] = [at |-> "answer", ride |-> row'[t] = "arriving"]]
  /\ UNCHANGED <<sweeping, overlay, poll, pushed, told, losses>>

(* POST /driver/requests/:rideId/reject: found, then written by id.          *)
RejectFinds(t) ==
  /\ call["reject"][t].at = "sent"
  /\ call' = [call EXCEPT !["reject"][t].at = IF Offered(t) THEN "withdraw" ELSE "answer"]
  /\ UNCHANGED <<row, sweeping, overlay, poll, pushed, told, losses>>

RejectWithdraws(t) ==
  /\ call["reject"][t].at = "withdraw"
  /\ row' = Withdrawn(t)
  /\ call' = [call EXCEPT !["reject"][t].at = "answer"]
  /\ UNCHANGED <<sweeping, overlay, poll, pushed, told, losses>>

(* Either answer empties the cache, whichever offer is in it by now.         *)
AcceptAnswered(t) ==
  LET answer == call["accept"][t] IN
  /\ answer.at = "answer"
  /\ overlay' = [ShowOffer(NoTrip) EXCEPT !.page = IF answer.ride THEN "ride" ELSE @]
  /\ told' = IF answer.ride THEN told ELSE told \cup {t}
  /\ call' = [call EXCEPT !["accept"][t] = NoAnswer]
  /\ UNCHANGED <<row, sweeping, poll, pushed, losses>>

RejectAnswered(t) ==
  /\ call["reject"][t].at = "answer"
  /\ overlay' = ShowOffer(NoTrip)
  /\ call' = [call EXCEPT !["reject"][t] = NoAnswer]
  /\ UNCHANGED <<row, sweeping, poll, pushed, told, losses>>

-----------------------------------------------------------------------------
(* The rest of the phone *)

(* A request or its answer is lost, or the poll's.                           *)
OfferingLoses ==
  /\ losses < MaxLosses /\ losses' = losses + 1
  /\ \/ /\ poll.at \in {"sent", "answer"} /\ poll' = NoPoll
        /\ UNCHANGED <<overlay, call>>
     \/ \E kind \in Kind, t \in Trip :
          /\ call[kind][t].at \in {"sent", "answer"}
          /\ call' = [call EXCEPT ![kind][t] = NoAnswer]
          /\ overlay' = IF overlay.offer = t THEN [overlay EXCEPT !.busy = @ \ {kind}] ELSE overlay
          /\ UNCHANGED poll
  /\ UNCHANGED <<row, sweeping, pushed, told>>

(* The dashboard finds an active ride; the ride page finds none.             *)
RideKnown ==
  /\ overlay' = [overlay EXCEPT !.page =
       IF \E t \in Trip : row[t] \in {"arriving", "arrived"} THEN "ride" ELSE "dashboard"]
  /\ overlay' # overlay
  /\ UNCHANGED <<row, sweeping, poll, pushed, call, told, losses>>

-----------------------------------------------------------------------------
OfferingInit ==
  /\ row = [t \in Trip |-> "waiting"]
  /\ sweeping = NoTrip
  /\ overlay = [offer |-> NoTrip, busy |-> {}, spent |-> FALSE, page |-> "dashboard"]
  /\ poll = NoPoll /\ pushed = <<>>
  /\ call = [kind \in Kind |-> [t \in Trip |-> NoAnswer]]
  /\ told = {}
  /\ losses = 0

OfferHandled(t) ==
  \/ Offer(t) \/ Lapse(t) \/ SweepFinds(t) \/ MovesOn(t)
  \/ AcceptHandled(t) \/ RejectFinds(t) \/ RejectWithdraws(t)

OfferingNext ==
  \/ \E t \in Trip : OfferHandled(t) \/ AcceptAnswered(t) \/ RejectAnswered(t)
  \/ SweepWithdraws \/ PollSent \/ PollFinds \/ PollWithdraws \/ PollAnswered \/ HearOffer
  \/ \E kind \in Kind : AnswerTap(kind)
  \/ CountdownEnds \/ OfferingLoses \/ RideKnown

-----------------------------------------------------------------------------
(* A driver who reads "Ride no longer available" is not on his way to that   *)
(* ride: an accept that is repeated because its answer was lost is answered  *)
(* with the ride, whatever lapses or is declined meanwhile                   *)
(* (driverRide.routes.ts:224-227).                                           *)
RefusalsAreTrue == \A t \in told : row[t] # "arriving"
=============================================================================
