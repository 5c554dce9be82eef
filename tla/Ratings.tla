------------------------------- MODULE Ratings -------------------------------
(***************************************************************************)
(* The two sides of a completed ride rate each other: the customer on the  *)
(* receipt, the driver on the summary of the trip.  A rating is one        *)
(* transaction: it writes the ride's column, reads every rated ride of the *)
(* one who is rated and writes their average (READ COMMITTED: it reads its *)
(* own write and what others have committed).  The tip is Settlement's.    *)
(*                                                                         *)
(* Every trip is one rider's with one driver, so that a side's ratings all *)
(* count for the other.  An average is kept times ten.                     *)
(***************************************************************************)
EXTENDS Integers, FiniteSets
LOCAL INSTANCE FiniteSetsExt

CONSTANTS Finished,   \* completed rides
          Rating,     \* slots for the requests in flight
          Stars,      \* ratings given
          NoRide,     \* null
          MaxAborts   \* bound: transactions rolled back and answers lost

ASSUME StarsAssumption == Stars \subseteq 1 .. 5 /\ MaxAborts \in Nat

VARIABLES given,    \* Ride.rating and Ride.riderRating, 0 for null
          score,    \* Driver.rating and User.rating
          rating,   \* the requests, and what their transactions have read
          after,    \* each side's page about a trip that is over, and its request
          done,     \* trips whose page a side has left
          torn,     \* history: sides whose last commit was of a transaction that
                    \* had not read what another one had committed meanwhile
          aborts    \* transactions rolled back and answers lost

rated == <<given, score, rating, after, done, torn, aborts>>

Side == {"customer", "driver"}
NoRating == [by |-> "none", trip |-> NoRide, stars |-> 0, average |-> 0, at |-> "idle",
             passed |-> FALSE]  \* history: another about the same side has
                                \* committed since this one read the rides
NoForm == [trip |-> NoRide, waits |-> NoRide, saved |-> FALSE]

(* Math.round(avg * 10) / 10, times ten; the default of both columns is 5.  *)
Average(column) ==
  LET rides == {t \in Finished : column[t] # 0}
      n == Cardinality(rides)
  IN IF n = 0 THEN 50
     ELSE (20 * MapThenSumSet(LAMBDA t : column[t], rides) + n) \div (2 * n)

(* The first UPDATE of a rating locks its ride until the transaction ends.   *)
RideLocked(t) == \E q \in Rating : rating[q].at = "open" /\ rating[q].trip = t

-----------------------------------------------------------------------------
(* POST /rides/:id/rate and POST /driver/rides/:id/rate-rider *)

(* Mutation: the rated rides are read before this one's rating is written.   *)
RateReadFirst(q) ==
  /\ rating[q].at = "sent" /\ ~RideLocked(rating[q].trip)
  /\ rating' = [rating EXCEPT ![q].at = "open", ![q].average = Average(given[rating[q].by])]
  /\ UNCHANGED <<given, score, after, done, torn, aborts>>

RateOpen(q) ==
  /\ rating[q].at = "sent" /\ ~RideLocked(rating[q].trip)
  /\ rating' = [rating EXCEPT ![q].at = "open", ![q].average =
                   Average([given[rating[q].by] EXCEPT ![rating[q].trip] = rating[q].stars])]
  /\ UNCHANGED <<given, score, after, done, torn, aborts>>

(* The average is written and all of it is committed.                        *)
RateClose(q) ==
  /\ rating[q].at = "open"
  /\ given' = [given EXCEPT ![rating[q].by][rating[q].trip] = rating[q].stars]
  /\ score' = [score EXCEPT ![rating[q].by] = rating[q].average]
  /\ rating' = [p \in Rating |->
       IF p = q
         THEN [rating[p] EXCEPT !.at = "closed", !.average = 0, !.passed = FALSE]
         ELSE [rating[p] EXCEPT !.passed = @ \/ (rating[p].at = "open"
                                                  /\ rating[p].by = rating[q].by)]]
  /\ torn' = IF rating[q].passed THEN torn \cup {rating[q].by} ELSE torn \ {rating[q].by}
  /\ UNCHANGED <<after, done, aborts>>

(* A request fails, before it is handled, with its transaction or with its   *)
(* answer; mutateAsync throws and the page stays as it is.                    *)
RateAborts(q) ==
  /\ rating[q] # NoRating /\ aborts < MaxAborts /\ aborts' = aborts + 1
  /\ rating' = [rating EXCEPT ![q] = NoRating]
  /\ after' = [side \in Side |-> IF after[side].waits = q
                                   THEN [after[side] EXCEPT !.waits = NoRide]
                                   ELSE after[side]]
  /\ UNCHANGED <<given, score, done, torn>>

(* The phone gives up on a request that the server goes on with.             *)
GiveUpOn(side) ==
  /\ after[side].waits # NoRide /\ aborts < MaxAborts /\ aborts' = aborts + 1
  /\ after' = [after EXCEPT ![side].waits = NoRide]
  /\ UNCHANGED <<given, score, rating, done, torn>>

-----------------------------------------------------------------------------
(* The pages *)

TripOver(side, t) ==
  /\ after[side] = NoForm /\ t \notin done[side]
  /\ after' = [after EXCEPT ![side].trip = t]
  /\ UNCHANGED <<given, score, rating, done, torn, aborts>>

(* The button is disabled while a rating is pending; the driver's goes once  *)
(* it is saved.                                                              *)
SubmitRating(side, n, q) ==
  /\ after[side].trip # NoRide /\ after[side].waits = NoRide /\ ~after[side].saved
  /\ rating[q] = NoRating
  /\ rating' = [rating EXCEPT ![q] = [by |-> side, trip |-> after[side].trip, stars |-> n,
                                      average |-> 0, at |-> "sent", passed |-> FALSE]]
  /\ after' = [after EXCEPT ![side].waits = q]
  /\ UNCHANGED <<given, score, done, torn, aborts>>

Leave(side) ==
  /\ after[side].trip # NoRide
  /\ after' = [after EXCEPT ![side] = NoForm]
  /\ done' = [done EXCEPT ![side] = @ \cup {after[side].trip}]

(* "Skip" and "Done" are never disabled.                                     *)
SkipRating(side) == Leave(side) /\ UNCHANGED <<given, score, rating, torn, aborts>>

(* The customer's page thanks, empties the booking store and goes home, even *)
(* if its form was left meanwhile and the store holds another trip; the      *)
(* driver's row says "You rated", if it is still there.                      *)
RateAnswered(q) ==
  LET side == rating[q].by IN
  /\ rating[q].at = "closed"
  /\ rating' = [rating EXCEPT ![q] = NoRating]
  /\ \/ side = "customer" /\ Leave(side)
     \/ /\ side = "driver" /\ after[side].waits = q
        /\ after' = [after EXCEPT ![side].waits = NoRide, ![side].saved = TRUE]
        /\ UNCHANGED done
     \/ /\ IF side = "customer" THEN after[side].trip = NoRide ELSE after[side].waits # q
        /\ UNCHANGED <<after, done>>
  /\ UNCHANGED <<given, score, torn, aborts>>

-----------------------------------------------------------------------------
RatingsInit ==
  /\ given = [side \in Side |-> [t \in Finished |-> 0]]
  /\ score = [side \in Side |-> 50]
  /\ rating = [q \in Rating |-> NoRating]
  /\ after = [side \in Side |-> NoForm]
  /\ done = [side \in Side |-> {}]
  /\ torn = {} /\ aborts = 0

RatingsNext ==
  \/ \E q \in Rating : RateOpen(q) \/ RateClose(q) \/ RateAborts(q) \/ RateAnswered(q)
  \/ \E side \in Side :
       \/ GiveUpOn(side) \/ SkipRating(side)
       \/ \E t \in Finished : TripOver(side, t)
       \/ \E n \in Stars, q \in Rating : SubmitRating(side, n, q)

-----------------------------------------------------------------------------
(* A driver's and a rider's score is the average of the ratings their rides   *)
(* carry, whatever is rated again, rolled back or given up                    *)
(* (driverRide.routes.ts:559-564, customerRide.routes.ts:321-324).  The code   *)
(* breaks this for a while: of two transactions that overlap, the one that    *)
(* commits last has an average without the other's rating.  Then the score is *)
(* wrong, and only until the next rating of the same one that no commit       *)
(* overtakes.                                                                 *)
ScoresFollowRides == \A side \in Side \ torn : score[side] = Average(given[side])
=============================================================================
