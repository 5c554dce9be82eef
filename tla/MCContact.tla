----------------------------- MODULE MCContact -----------------------------
(* Two rides to offer and to rate, one message, two emergency calls, two rows *)
(* of a list, and two saved places with two saves at once.                    *)
EXTENDS Contact, TLC

(* The six parts share nothing but the course of the ride, which three of     *)
(* them depend on: a behaviour follows one of them, chosen at its start.      *)
VARIABLE focus

Parts == {"offers", "room", "alerts", "ratings", "lists", "places"}

MCInit ==
  /\ Init
  /\ focus \in Parts
  /\ focus # "room"  => me = "customer"
  /\ focus # "lists" => view = "bell"

OffersMove  == focus = "offers"  /\ Ask
RoomMoves   == focus = "room"    /\ Talk
AlertsMove  == focus = "alerts"  /\ Alert
RatingsMove == focus = "ratings" /\ Rate
ListsMove   == focus = "lists"   /\ Read
PlacesMove  == focus = "places"  /\ Keep
RideMoves   == focus \in {"room", "alerts", "ratings"} /\ GoOn

MCNext ==
  /\ UNCHANGED focus
  /\ OffersMove \/ RoomMoves \/ AlertsMove \/ RatingsMove \/ ListsMove \/ PlacesMove
       \/ RideMoves

MCSpec == MCInit /\ [][MCNext]_<<vars, focus>>

(* Of the driver's requests and the sweep, two are under way at a time.       *)
FewUnderWay ==
  Cardinality({x \in Kind \X Trip : call[x[1]][x[2]] # NoAnswer})
    + Cardinality({p \in {poll} : p # NoPoll}) + Cardinality({sweeping} \ {NoTrip}) <= 2

ContactSymmetry == Permutations(Rating)
=============================================================================
