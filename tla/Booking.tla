------------------------------- MODULE Booking -------------------------------
(* A rider chooses a trip and books it: /home and /booking of the customer    *)
(* app with the booking store and the cache of fare estimates, the promo      *)
(* codes that an admin switches on and off meanwhile, and POST                *)
(* /customer/rides, which checks the price it is sent.  What happens to the   *)
(* ride afterwards is RideDispatch and LiveRide.                              *)
EXTENDS Fares

CONSTANTS
  Point,        \* places
  Cell,         \* [Point -> cell]: lat and lng to four decimals, in cache keys
  Km,           \* [Point \X Point -> Nat]: distances, at least 80
  Here,         \* where the device is
  Places,       \* what the rider selects in each field
  Vehicle,      \* the vehicle types the instance tells apart
  Draws,        \* outcomes of the surge draw the instance tells apart
  Code,         \* promo codes
  Seeded,       \* [some codes -> Terms]: defaultPromoCodes
  NewTerms,     \* the terms an admin gives a new code
  Post,         \* POST /customer/rides in flight at once
  Nowhere, NoCode, NoRide, NoPost, NoEstimate, NoPromo,
  MaxChoices,   \* bound on what the rider selects, applies or asks for
  MaxUpsets     \* bound on edits of codes, failures and ends of rides, together

Field == {"pickup", "drop"}

ASSUME BookingAssumption ==
  /\ Cell \in [Point -> Point] /\ Nowhere \notin Point
  /\ Km \in [Point \X Point -> Nat]
  /\ Here \in Point /\ Places \in [Field -> SUBSET Point]
  /\ Vehicle \subseteq VehicleType /\ Draws \subseteq BOOLEAN
  /\ DOMAIN Seeded \subseteq Code /\ NoCode \notin Code
  /\ Seeded \in [DOMAIN Seeded -> Terms]
  /\ NewTerms \subseteq Terms
  /\ {MaxChoices, MaxUpsets} \subseteq Nat

VARIABLES
  promo,      \* the PromoCode table
  page,       \* where the rider's app is
  trip,       \* the booking store: pickup, drop and promo code
  locating,   \* requests for the current location that are not answered
  cache,      \* fare estimates by query key
  fetching,   \* GET /fares/estimates in flight
  post,       \* POST /customer/rides in flight
  pending,    \* createRide.isPending of this mount of /booking
  ride,       \* the last ride created, and whether it is active
  count       \* choices and upsets left

vars == <<promo, page, trip, locating, cache, fetching, post, pending, ride, count>>

Trip  == [pickup : Point \cup {Nowhere}, drop : Point \cup {Nowhere},
          code : Code \cup {NoCode}]
Routes == {t \in Trip : t.pickup # Nowhere /\ t.drop # Nowhere}
NoTrip == [pickup |-> Nowhere, drop |-> Nowhere, code |-> NoCode]

(* queryKeys.fareEstimates: points go in to four decimals, so near ones share *)
(* an entry.                                                                  *)
KeyOf(t) == <<Cell[t.pickup], Cell[t.drop], t.code>>
Key == {Cell[p] : p \in Point} \X {Cell[p] : p \in Point} \X (Code \cup {NoCode})

Distance(t) == Km[<<t.pickup, t.drop>>]

Spend(what) == count[what] > 0 /\ count' = [count EXCEPT ![what] = @ - 1]

-----------------------------------------------------------------------------
(* Promo codes *)

Active(c) == c \in Code /\ promo[c] # NoPromo /\ promo[c].active

BuiltIn(c) == IF c \in DOMAIN Seeded THEN Seeded[c] ELSE NoTerms

(* What loadActivePromoCodes and find yield for code c: the terms of an       *)
(* active row, or the built-in ones while no row at all is active.            *)
Found(c) ==
  IF \A d \in Code : ~Active(d) THEN BuiltIn(c)
  ELSE IF Active(c) THEN promo[c].terms
  ELSE NoTerms

(* The lookup made by a handler: it falls back to the built-in codes as well  *)
(* when its query fails.                                                      *)
Lookup(c, terms) ==
  \/ terms = Found(c) /\ count' = count
  \/ terms = BuiltIn(c) /\ terms # Found(c) /\ Spend("upsets")

(* post[b].live: the code was active at some moment since Book was tapped. *)
Touched(c) ==
  [b \in Post |-> IF post[b] # NoPost /\ post[b].trip.code = c
                    THEN [post[b] EXCEPT !.live = TRUE] ELSE post[b]]

(* POST /admin/promos *)
CreatePromo(c, terms) ==
  /\ promo[c] = NoPromo
  /\ Spend("upsets")
  /\ promo' = [promo EXCEPT ![c] = [terms |-> terms, active |-> TRUE]]
  /\ post' = Touched(c)
  /\ UNCHANGED <<page, trip, locating, cache, fetching, pending, ride>>

(* PATCH /admin/promos/:id with the switch of the promos page *)
TogglePromo(c) ==
  /\ promo[c] # NoPromo
  /\ Spend("upsets")
  /\ promo' = [promo EXCEPT ![c].active = ~@]
  /\ post' = Touched(c)
  /\ UNCHANGED <<page, trip, locating, cache, fetching, pending, ride>>

-----------------------------------------------------------------------------
(* Estimates *)

Stale(k) == cache[k] = NoEstimate \/ cache[k].old

(* Mutation: an estimate that is cached is never asked for again. *)
FetchMissing(t) ==
  IF cache[KeyOf(t)] = NoEstimate /\ \A f \in fetching : KeyOf(f) # KeyOf(t)
    THEN fetching \cup {t}
    ELSE fetching

(* useFareEstimates subscribes to the key of t: an entry that is missing or   *)
(* past its 30 seconds is fetched, for the points of this moment, unless a    *)
(* fetch for the same key is under way.                                       *)
Fetch(t) ==
  IF Stale(KeyOf(t)) /\ \A f \in fetching : KeyOf(f) # KeyOf(t)
    THEN fetching \cup {t}
    ELSE fetching

(* The store holds t and the app shows page p: what /home and /booking do.    *)
(* Leaving /home cancels the automatic location; /booking subscribes to the   *)
(* estimates of t when it is mounted and when the key changes.                *)
Render(p, t) ==
  /\ page' = p /\ trip' = t
  /\ fetching' = IF /\ p = "booking" /\ t \in Routes
                    /\ page = "booking" => KeyOf(trip) # KeyOf(t)
                   THEN Fetch(t) ELSE fetching
  /\ pending' = (pending /\ p = page)

StillAsking(p) == {l \in locating : l.auto => p = "home"}

(* GET /fares/estimates prices the trip for every vehicle. *)
EstimateAnswered(t) ==
  /\ \E terms \in {Found(t.code), BuiltIn(t.code)}, surging \in [Vehicle -> Draws] :
       /\ Lookup(t.code, terms)
       /\ cache' = [cache EXCEPT ![KeyOf(t)] =
            [fares |-> [v \in Vehicle |-> ComputeFare(v, Distance(t), terms, surging[v])],
             old   |-> FALSE]]
  /\ fetching' = fetching \ {t}
  /\ UNCHANGED <<promo, page, trip, locating, post, pending, ride>>

(* It fails, and so does its one retry; an older answer stays. *)
EstimateFails(t) ==
  /\ Spend("upsets")
  /\ fetching' = fetching \ {t}
  /\ UNCHANGED <<promo, page, trip, locating, cache, post, pending, ride>>

(* staleTime, 30 seconds *)
EstimateAges(k) ==
  /\ cache[k] # NoEstimate /\ ~cache[k].old
  /\ cache' = [cache EXCEPT ![k].old = TRUE]
  /\ UNCHANGED <<promo, page, trip, locating, fetching, post, pending, ride, count>>

(* refetchOnWindowFocus *)
WindowFocus ==
  /\ page = "booking" /\ trip \in Routes
  /\ fetching' = Fetch(trip)
  /\ UNCHANGED <<promo, page, trip, locating, cache, post, pending, ride, count>>

-----------------------------------------------------------------------------
(* The rider chooses *)

(* handleDropSelect, handleSavedPlaceSelect, handlePickupSelect of /home: on   *)
(* to /booking once the other field is set as well.                           *)
SelectOnHome(field, pt) ==
  LET t == [trip EXCEPT ![field] = pt] IN
  /\ page = "home"
  /\ Render(IF t \in Routes THEN "booking" ELSE "home", t)
  /\ locating' = StillAsking(page')
  /\ UNCHANGED <<promo, cache, post, ride>>

(* handleMapPickerConfirm of /home: a drop leaves the rider on /home. *)
ConfirmOnMap(field, pt) ==
  LET t == [trip EXCEPT ![field] = pt] IN
  /\ page = "home"
  /\ Render(IF field = "pickup" /\ t \in Routes THEN "booking" ELSE "home", t)
  /\ locating' = StillAsking(page')
  /\ UNCHANGED <<promo, cache, post, ride>>

(* handleEditPickupSelect, handleEditDropSelect, handleMapPickerConfirm *)
EditOnBooking(field, pt) ==
  /\ page = "booking"
  /\ Render("booking", [trip EXCEPT ![field] = pt])
  /\ UNCHANGED <<promo, locating, cache, post, ride>>

(* handleApplyPromo *)
ApplyPromo(c) ==
  /\ page = "booking" /\ c # trip.code
  /\ Render("booking", [trip EXCEPT !.code = c])
  /\ UNCHANGED <<promo, locating, cache, post, ride>>

Chooses ==
  /\ Spend("choices")
  /\ \/ \E field \in Field : \E pt \in Places[field] :
          SelectOnHome(field, pt) \/ ConfirmOnMap(field, pt) \/ EditOnBooking(field, pt)
     \/ \E c \in Code \cup {NoCode} : ApplyPromo(c)

(* "please go back and re-select your ride": the back button ... *)
GoBack ==
  /\ page = "booking"
  /\ Render("home", trip)
  /\ UNCHANGED <<promo, locating, cache, post, ride, count>>

(* ... and the drop chosen again. *)
Reselect ==
  /\ trip \in Routes
  /\ SelectOnHome("drop", trip.drop)
  /\ UNCHANGED count

(* handleUseCurrentLocation of either page.  onward: the drop was set when     *)
(* the button was tapped, and /home will go on to /booking.                   *)
UseCurrentLocation(field) ==
  /\ page \in {"home", "booking"}
  /\ Spend("choices")
  /\ locating' = locating \cup
       {[field  |-> field, auto |-> FALSE,
         onward |-> page = "home" /\ field = "pickup" /\ trip.drop # Nowhere]}
  /\ UNCHANGED <<promo, page, trip, cache, fetching, post, pending, ride>>

(* The location is known, wherever the app is by now. *)
Located(l) ==
  /\ Render(IF l.onward THEN "booking" ELSE page, [trip EXCEPT ![l.field] = Here])
  /\ locating' = {m \in StillAsking(page') : m # l}
  /\ UNCHANGED <<promo, cache, post, ride, count>>

(* Denied, unavailable or past its 8 seconds *)
NotLocated(l) ==
  /\ locating' = locating \ {l}
  /\ UNCHANGED <<promo, page, trip, cache, fetching, post, pending, ride, count>>

(* /booking without both points goes back to /home. *)
NothingToBook ==
  /\ page = "booking" /\ trip \notin Routes
  /\ Render("home", trip)
  /\ UNCHANGED <<promo, locating, cache, post, ride, count>>

-----------------------------------------------------------------------------
(* Booking *)

Put(b, p) == post' = [post EXCEPT ![b] = p]

(* handleBook: the trip, the vehicle and the fare as the page shows them. *)
Book(b, v) ==
  /\ page = "booking" /\ trip \in Routes /\ ~pending
  /\ cache[KeyOf(trip)] # NoEstimate
  /\ post[b] = NoPost
  /\ Put(b, [stage |-> "sent", trip |-> trip, vehicle |-> v,
             fare |-> cache[KeyOf(trip)].fares[v], live |-> Active(trip.code)])
  /\ pending' = TRUE
  /\ UNCHANGED <<promo, page, trip, locating, cache, fetching, ride, count>>

HasRide == ride # NoRide /\ ride.active

(* Mutation: the breakdown is stored as it was sent. *)
CheckNothing(b) ==
  /\ post[b] # NoPost /\ post[b].stage = "sent"
  /\ Put(b, [post[b] EXCEPT !.stage = IF HasRide THEN "refused" ELSE "checked"])
  /\ UNCHANGED <<promo, page, trip, locating, cache, fetching, pending, ride, count>>

(* POST /customer/rides: no active ride, and isValidFare ... *)
Check(b) ==
  /\ post[b] # NoPost /\ post[b].stage = "sent"
  /\ \E terms \in {Found(post[b].trip.code), BuiltIn(post[b].trip.code)} :
       /\ Lookup(post[b].trip.code, terms)
       /\ Put(b, [post[b] EXCEPT !.stage =
            IF ~HasRide /\ IsValidFare(post[b].vehicle, Distance(post[b].trip),
                                       post[b].fare, terms)
              THEN "checked" ELSE "refused"])
  /\ UNCHANGED <<promo, page, trip, locating, cache, fetching, pending, ride>>

(* ... then INSERT, which the index of active rides per rider may refuse. *)
Insert(b) ==
  /\ post[b] # NoPost /\ post[b].stage = "checked"
  /\ IF HasRide
       THEN Put(b, [post[b] EXCEPT !.stage = "refused"]) /\ UNCHANGED ride
       ELSE /\ Put(b, [post[b] EXCEPT !.stage = "created"])
            /\ ride' = [active |-> TRUE, trip |-> post[b].trip, vehicle |-> post[b].vehicle,
                        fare |-> post[b].fare, live |-> post[b].live]
  /\ UNCHANGED <<promo, page, trip, locating, cache, fetching, pending, count>>

(* The answer; with a ride the app goes to /matching from wherever it is. *)
Answered(b) ==
  /\ post[b] # NoPost /\ post[b].stage \in {"created", "refused"}
  /\ Put(b, NoPost)
  /\ IF post[b].stage = "created"
       THEN Render("matching", trip) /\ locating' = StillAsking("matching")
       ELSE pending' = FALSE /\ UNCHANGED <<page, trip, fetching, locating>>
  /\ UNCHANGED <<promo, cache, ride, count>>

(* The connection fails before the request arrives or after it was handled. *)
ConnectionLost(b) ==
  /\ post[b] # NoPost /\ post[b].stage \in {"sent", "created"}
  /\ Spend("upsets")
  /\ Put(b, NoPost)
  /\ pending' = FALSE
  /\ UNCHANGED <<promo, page, trip, locating, cache, fetching, ride>>

(* /home finds an active ride. *)
Resume ==
  /\ page = "home" /\ HasRide
  /\ Render("matching", trip)
  /\ locating' = StillAsking("matching")
  /\ UNCHANGED <<promo, cache, post, ride, count>>

Automatic == [field |-> "pickup", auto |-> TRUE, onward |-> FALSE]

(* The ride ends, by whatever RideDispatch allows ... *)
RideEnds ==
  /\ HasRide
  /\ Spend("upsets")
  /\ ride' = [ride EXCEPT !.active = FALSE]
  /\ UNCHANGED <<promo, page, trip, locating, cache, fetching, post, pending>>

(* ... and its page resets the store and returns to /home, which asks for the *)
(* location by itself.                                                        *)
LeaveMatching ==
  /\ page = "matching" /\ ~HasRide
  /\ Render("home", NoTrip)
  /\ locating' = locating \cup {Automatic}
  /\ UNCHANGED <<promo, cache, post, ride, count>>

-----------------------------------------------------------------------------
FirstRows(made, terms) ==
  [c \in Code |-> IF c \in DOMAIN Seeded THEN [terms |-> Seeded[c], active |-> TRUE]
                 ELSE IF c \in made THEN [terms |-> terms, active |-> TRUE]
                 ELSE NoPromo]

(* seedPromoCodes has filled the table at the first start, and an admin has    *)
(* made codes since; or it has failed.                                        *)
Init ==
  /\ \/ \E made \in SUBSET (Code \ DOMAIN Seeded), terms \in NewTerms :
          /\ promo = FirstRows(made, terms)
          /\ count = [choices |-> MaxChoices, upsets |-> MaxUpsets]
     \/ /\ promo = [c \in Code |-> NoPromo] /\ MaxUpsets > 0
        /\ count = [choices |-> MaxChoices, upsets |-> MaxUpsets - 1]
  /\ page = "home" /\ trip = NoTrip /\ locating = {Automatic}
  /\ cache = [k \in Key |-> NoEstimate] /\ fetching = {}
  /\ post = [b \in Post |-> NoPost] /\ pending = FALSE /\ ride = NoRide

Next ==
  \/ \E c \in Code, terms \in NewTerms : CreatePromo(c, terms)
  \/ \E c \in Code : TogglePromo(c)
  \/ \E t \in fetching : EstimateAnswered(t) \/ EstimateFails(t)
  \/ \E k \in Key : EstimateAges(k)
  \/ WindowFocus \/ Chooses \/ GoBack \/ Reselect \/ NothingToBook
  \/ \E field \in Field : UseCurrentLocation(field)
  \/ \E l \in locating : Located(l) \/ NotLocated(l)
  \/ \E b \in Post, v \in Vehicle : Book(b, v)
  \/ \E b \in Post : Check(b) \/ Insert(b) \/ Answered(b) \/ ConnectionLost(b)
  \/ Resume \/ RideEnds \/ LeaveMatching

Spec == Init /\ [][Next]_vars

(* The API answers, estimates age, locations are found or not, and a rider    *)
(* who wants a ride books what is shown and, refused, goes back and selects   *)
(* the ride again, as the API's message says.                                 *)
FairSpec ==
  /\ Spec
  /\ WF_vars(\E t \in fetching : EstimateAnswered(t))
  /\ WF_vars(\E k \in Key : EstimateAges(k))
  /\ \A b \in Post : WF_vars(Check(b) \/ Insert(b) \/ Answered(b))
  /\ WF_vars(\E l \in locating : Located(l) \/ NotLocated(l))
  /\ WF_vars(NothingToBook \/ Reselect \/ Resume)
  /\ SF_vars(\E b \in Post, v \in Vehicle : Book(b, v))
  /\ SF_vars(GoBack)

-----------------------------------------------------------------------------
(* What a POST carries and how far its handler is. *)
PostRow ==
  [stage : {"sent", "checked", "created", "refused"}, trip : Routes,
   vehicle : Vehicle, fare : Fare, live : BOOLEAN]

(* Type invariant; only whole trips are priced and booked. *)
TypeOK ==
  /\ promo \in [Code -> [terms : Terms, active : BOOLEAN] \cup {NoPromo}]
  /\ page \in {"home", "booking", "matching"}
  /\ trip \in Trip
  /\ locating \subseteq [field : Field, auto : BOOLEAN, onward : BOOLEAN]
  /\ cache \in [Key -> [fares : [Vehicle -> Fare], old : BOOLEAN] \cup {NoEstimate}]
  /\ fetching \subseteq Routes
  /\ post \in [Post -> PostRow \cup {NoPost}]
  /\ pending \in BOOLEAN
  /\ ride \in [active : BOOLEAN, trip : Routes, vehicle : Vehicle, fare : Fare,
               live : BOOLEAN] \cup {NoRide}
  /\ count \in [{"choices", "upsets"} -> Nat]

(* The terms a code can ever have had. *)
TermsOf(c) ==
  {NoTerms} \cup (IF c \in Code THEN NewTerms ELSE {}) \cup {BuiltIn(c)}

(* A ride costs what the rates give for its own trip and vehicle, with or     *)
(* without surge, less what its own code gives, although the price was        *)
(* computed earlier, perhaps for a point near by or before an admin switched  *)
(* the code (useFares.ts caches by rounded points for 30 seconds).            *)
FareFitsTrip ==
  ride # NoRide =>
    \E terms \in TermsOf(ride.trip.code), surging \in BOOLEAN :
      ride.fare = ComputeFare(ride.vehicle, Distance(ride.trip), terms, surging)

(* A discount comes from a code that was on when Book was tapped or later, or *)
(* from a built-in code: an estimate with the discount of a code that was     *)
(* switched off since cannot be booked (isValidFare looks the code up again). *)
LapsedCodesGiveNothing ==
  ride # NoRide /\ ride.fare.promoDiscount > 0 =>
    ride.live \/ ride.trip.code \in DOMAIN Seeded

(* A rider who has a trip to book, books what is shown and, refused, goes     *)
(* back and selects the ride again gets a ride: a stale estimate is replaced  *)
(* in the end and does not have every booking refused.                        *)
PersistentRiderGetsARide ==
  page = "booking" /\ trip \in Routes ~> HasRide \/ page = "matching"
=============================================================================
