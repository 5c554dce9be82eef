------------------------------ MODULE MCPayouts ------------------------------
(* Money as TLC runs it: transactions of riders and drivers that overlap, or   *)
(* withdrawals beside one such transaction at a time.                         *)
EXTENDS Payouts, TLC

(* What a behaviour follows, chosen at its start. *)
VARIABLE focus

Books == focus = "books" /\ Next /\ UNCHANGED payouts

(* What matters of the rides here is that they earn while a driver withdraws:  *)
(* nobody cancels or rates, and riders top up once.                           *)
Withdrawals ==
  /\ focus = "withdrawals" /\ PayoutsNext
  /\ Cardinality({q \in Request : tx'[q] # Idle}) <= 1
  /\ \A q \in Request : tx'[q].op \in {"idle", "end"}
  /\ \A r \in Ride : status'[r] # "cancelled"
  /\ \A c \in Rider : ledger'[c].credit <= 2

MCInit == PayoutsInit /\ focus \in {"books", "withdrawals"}
MCNext == UNCHANGED focus /\ (Books \/ Withdrawals)
MCSpec == MCInit /\ [][MCNext]_<<pvars, focus>>

PayoutSymmetry ==
  Permutations(Driver) \cup Permutations(Payout) \cup Permutations(Dialog)
    \cup Permutations(Ride) \cup Permutations(Request)
=============================================================================
