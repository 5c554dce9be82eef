---------------------------- MODULE BookingProofs ----------------------------
(* The two fare computations of the API agree for every distance, every       *)
(* vehicle type, every promo code and either outcome of the surge draw.  And  *)
(* for any places, codes and vehicles, and however many choices, edits and    *)
(* failures there are: Booking keeps its types, a ride costs what its own     *)
(* trip costs, and a code that is off gives nothing.                          *)
EXTENDS Booking, TLAPS

-----------------------------------------------------------------------------
(* Fares *)


LEMMA RoundedIsNat ==
  ASSUME NEW n \in Nat, NEW d \in Nat, d > 0
  PROVE  Rounded(n, d) \in Nat
BY DEF Rounded

LEMMA RatesAreNat ==
  ASSUME NEW v \in VehicleType
  PROVE  /\ Rate[v].base \in Nat /\ Rate[v].perKm \in Nat
         /\ Rate[v].perMin \in Nat /\ Rate[v].speed \in Nat /\ Rate[v].speed > 0
<1>1. CASE v = "bike"  BY <1>1 DEF Rate
<1>2. CASE v = "auto"  BY <1>2 DEF Rate
<1>3. CASE v = "cab"   BY <1>3 DEF Rate
<1> QED BY <1>1, <1>2, <1>3 DEF VehicleType

(* Multiplication keeps to the naturals. *)
LEMMA ProductIsNat ==
  ASSUME NEW m \in Nat, NEW n \in Nat
  PROVE  m * n \in Nat
OBVIOUS

LEMMA PercentIsNat ==
  ASSUME NEW p \in Nat, NEW amount \in Nat
  PROVE  Percent(p, amount) \in Nat
<1>1. p * amount \in Nat  BY ProductIsNat
<1> QED BY <1>1, RoundedIsNat DEF Percent

(* A share of at most the whole: p percent of an amount, rounded, is no more  *)
(* than the amount.                                                           *)
LEMMA PercentIsAShare ==
  ASSUME NEW p \in 0..100, NEW amount \in Nat
  PROVE  Percent(p, amount) <= amount
<1> DEFINE product == p * amount
<1>1. product \in Nat  BY ProductIsNat
<1>2. product <= 100 * amount
  <2>1. (100 - p) * amount \in Nat  BY ProductIsNat
  <2>2. (100 - p) * amount = 100 * amount - product  OBVIOUS
  <2> QED BY <2>1, <2>2, <1>1
<1> HIDE DEF product
<1>3. (2 * product + 100) \div 200 <= amount  BY <1>1, <1>2
<1> QED BY <1>3 DEF Percent, Rounded, product

LEMMA PartsAreNat ==
  ASSUME NEW v \in VehicleType, NEW km \in Nat
  PROVE  DistancePart(v, km) \in Nat /\ TimePart(v, km) \in Nat
<1>1. km * Rate[v].perKm \in Nat  BY RatesAreNat, ProductIsNat
<1>2. DistancePart(v, km) \in Nat  BY <1>1, RoundedIsNat DEF DistancePart
<1>3. 60 * km \in Nat /\ 100 * Rate[v].speed \in Nat /\ 100 * Rate[v].speed > 0
  BY RatesAreNat
<1>4. Minutes(v, km) \in Nat  BY <1>3, RoundedIsNat DEF Minutes, Greatest
<1>5. Minutes(v, km) * Rate[v].perMin \in Nat  BY <1>4, RatesAreNat, ProductIsNat
<1>6. TimePart(v, km) \in Nat  BY <1>5, RoundedIsNat DEF TimePart
<1> QED BY <1>2, <1>6

LEMMA DiscountIsBounded ==
  ASSUME NEW amount \in Nat, NEW terms \in Terms \cup {NoTerms}
  PROVE  Discount(amount, terms) \in Nat /\ Discount(amount, terms) <= amount
<1>1. terms.percent \in 0..100 /\ terms.percent \in Nat /\ terms.cap \in Nat
  BY DEF Terms, NoTerms
<1>2. Percent(terms.percent, amount) \in Nat  BY <1>1, PercentIsNat
<1>3. Percent(terms.percent, amount) <= amount  BY <1>1, PercentIsAShare
<1> QED BY <1>1, <1>2, <1>3 DEF Discount, Least

(* No code, no discount. *)
LEMMA NoTermsNoDiscount ==
  ASSUME NEW amount \in Nat
  PROVE  ~(Discount(amount, NoTerms) > 0)
<1>1. Percent(0, amount) \in Nat  BY PercentIsNat
<1> QED BY <1>1 DEF Discount, NoTerms, Least

Subtotal(fare) == fare.base + fare.distance + fare.time + fare.surge

(* Every fare that computeFare of lib/fare.ts returns is made of natural      *)
(* numbers, its discount is no more than what it is taken from, and its total *)
(* is the sum of its parts less the discount: the Math.max with 0 never cuts. *)
THEOREM FaresAddUp ==
  ASSUME NEW v \in VehicleType, NEW km \in Nat, NEW terms \in Terms \cup {NoTerms},
         NEW surging \in BOOLEAN
  PROVE  LET fare == ComputeFare(v, km, terms, surging)
         IN  /\ fare \in Fare
             /\ fare.promoDiscount <= Subtotal(fare)
             /\ fare.total = Subtotal(fare) - fare.promoDiscount
<1> DEFINE base     == Rate[v].base
           distance == DistancePart(v, km)
           time     == TimePart(v, km)
           surge    == IF surging THEN Percent(15, base + distance + time) ELSE 0
           subtotal == base + distance + time + surge
           discount == Discount(subtotal, terms)
           total    == Greatest(0, subtotal - discount)
<1>1. base \in Nat /\ distance \in Nat /\ time \in Nat  BY RatesAreNat, PartsAreNat
<1>2. surge \in Nat
  <2>1. base + distance + time \in Nat  BY <1>1
  <2> HIDE DEF base, distance, time
  <2> QED BY <2>1, PercentIsNat
<1> HIDE DEF base, distance, time, surge
<1>3. subtotal \in Nat  BY <1>1, <1>2
<1> HIDE DEF subtotal
<1>4. discount \in Nat /\ discount <= subtotal  BY <1>3, DiscountIsBounded
<1> HIDE DEF discount
<1>5. total = subtotal - discount /\ total \in Nat  BY <1>3, <1>4 DEF Greatest
<1>6. ComputeFare(v, km, terms, surging) =
        [base |-> base, distance |-> distance, time |-> time, surge |-> surge,
         promoDiscount |-> discount, total |-> total]
  BY DEF ComputeFare, base, distance, time, surge, subtotal, discount
<1> HIDE DEF total
<1> QED BY <1>1, <1>2, <1>3, <1>4, <1>5, <1>6 DEF Fare, Subtotal, subtotal

(* A fare that an estimate showed passes the check of POST /customer/rides,   *)
(* for the same points and as long as the code gives the same.                *)
THEOREM EstimatesAreValid ==
  ASSUME NEW v \in VehicleType, NEW km \in Nat, NEW terms \in Terms \cup {NoTerms},
         NEW surging \in BOOLEAN
  PROVE  IsValidFare(v, km, ComputeFare(v, km, terms, surging), terms)
BY DEF IsValidFare, ComputeFare

(* Nothing else passes: a fare that the check accepts is what computeFare     *)
(* returns, with the surge drawn one way or the other.                        *)
THEOREM ValidFaresAreComputed ==
  ASSUME NEW v \in VehicleType, NEW km \in Nat, NEW terms \in Terms \cup {NoTerms},
         NEW fare \in Fare, IsValidFare(v, km, fare, terms)
  PROVE  \E surging \in BOOLEAN : fare = ComputeFare(v, km, terms, surging)
<1> DEFINE subtotal == Rate[v].base + DistancePart(v, km) + TimePart(v, km)
<1>1. fare = [base |-> fare.base, distance |-> fare.distance, time |-> fare.time,
              surge |-> fare.surge, promoDiscount |-> fare.promoDiscount,
              total |-> fare.total]
  BY DEF Fare
<1>2. CASE fare.surge = Percent(15, subtotal)
  <2>1. fare = ComputeFare(v, km, terms, TRUE)
    BY <1>1, <1>2 DEF IsValidFare, ComputeFare
  <2> QED BY <2>1
<1>3. CASE fare.surge = 0
  <2>1. fare = ComputeFare(v, km, terms, FALSE)
    BY <1>1, <1>3 DEF IsValidFare, ComputeFare
  <2> QED BY <2>1
<1> QED BY <1>2, <1>3 DEF IsValidFare

-----------------------------------------------------------------------------
(* Booking *)

USE BookingAssumption DEF Field

-----------------------------------------------------------------------------
(* What the lookups find *)

LEMMA BuiltInTyped ==
  ASSUME NEW c \in Code \cup {NoCode}
  PROVE  BuiltIn(c) \in Terms \cup {NoTerms}
BY DEF BuiltIn

LEMMA FoundTyped ==
  ASSUME TypeOK, NEW c \in Code \cup {NoCode}
  PROVE  Found(c) \in Terms \cup {NoTerms}
<1>1. CASE Active(c)
  <2>1. promo[c].terms \in Terms  BY <1>1 DEF TypeOK, Active
  <2> QED BY <2>1, BuiltInTyped DEF Found
<1>2. CASE ~Active(c)
  BY <1>2, BuiltInTyped DEF Found
<1> QED BY <1>1, <1>2

(* Every row holds terms its code can have. *)
PromosKnown == \A c \in Code : promo[c] # NoPromo => promo[c].terms \in TermsOf(c)

LEMMA LookupKnown ==
  ASSUME PromosKnown, NEW c \in Code \cup {NoCode}
  PROVE  Found(c) \in TermsOf(c) /\ BuiltIn(c) \in TermsOf(c)
<1>1. BuiltIn(c) \in TermsOf(c) /\ NoTerms \in TermsOf(c)  BY DEF TermsOf
<1>2. Active(c) => promo[c].terms \in TermsOf(c)  BY DEF PromosKnown, Active
<1> QED BY <1>1, <1>2 DEF Found

LEMMA KnownTermsTyped ==
  ASSUME NEW c \in Code \cup {NoCode}
  PROVE  TermsOf(c) \subseteq Terms \cup {NoTerms}
BY BuiltInTyped DEF TermsOf

-----------------------------------------------------------------------------
(* Types *)

LEMMA DistanceTyped ==
  ASSUME NEW t \in Routes
  PROVE  Distance(t) \in Nat
<1>1. <<t.pickup, t.drop>> \in Point \X Point  BY DEF Routes, Trip
<1> QED BY <1>1 DEF Distance

LEMMA KeyTyped ==
  ASSUME NEW t \in Routes
  PROVE  KeyOf(t) \in Key
<1>1. t.pickup \in Point /\ t.drop \in Point /\ t.code \in Code \cup {NoCode}
  BY DEF Routes, Trip
<1> QED BY <1>1 DEF KeyOf, Key

LEMMA RenderTyped ==
  ASSUME TypeOK, NEW p \in {"home", "booking", "matching"}, NEW t \in Trip, Render(p, t)
  PROVE  /\ page' \in {"home", "booking", "matching"}
         /\ trip' \in Trip
         /\ fetching' \subseteq Routes
         /\ pending' \in BOOLEAN
<1>1. page' \in {"home", "booking", "matching"} /\ trip' \in Trip  BY DEF Render
<1>2. fetching' \subseteq Routes  BY DEF Render, TypeOK, Fetch
<1>3. pending' \in BOOLEAN  BY Zenon DEF Render, TypeOK
<1> QED BY <1>1, <1>2, <1>3

LEMMA SpendTyped ==
  ASSUME TypeOK, NEW what \in {"choices", "upsets"}, Spend(what)
  PROVE  count' \in [{"choices", "upsets"} -> Nat]
BY DEF Spend, TypeOK

LEMMA TouchedTyped ==
  ASSUME TypeOK, NEW c
  PROVE  Touched(c) \in [Post -> PostRow \cup {NoPost}]
<1>1. ASSUME NEW b \in Post, post[b] # NoPost
      PROVE  [post[b] EXCEPT !.live = TRUE] \in PostRow
  <2>1. post[b] \in PostRow  BY <1>1 DEF TypeOK
  <2> QED BY <2>1 DEF PostRow
<1> QED BY <1>1 DEF Touched, TypeOK

(* The type invariant of Booking holds for all values of the constants.       *)
LEMMA TypeInit == Init => TypeOK
<1> SUFFICES ASSUME Init PROVE TypeOK  OBVIOUS
<1>1. promo \in [Code -> [terms : Terms, active : BOOLEAN] \cup {NoPromo}]
  <2>1. \A c \in DOMAIN Seeded : [terms |-> Seeded[c], active |-> TRUE]
                                   \in [terms : Terms, active : BOOLEAN]
    OBVIOUS
  <2>2. \A terms \in NewTerms : [terms |-> terms, active |-> TRUE]
                                  \in [terms : Terms, active : BOOLEAN]
    OBVIOUS
  <2>3. CASE promo = [c \in Code |-> NoPromo]  BY <2>3
  <2>4. ASSUME NEW made \in SUBSET (Code \ DOMAIN Seeded), NEW terms \in NewTerms,
               promo = FirstRows(made, terms)
        PROVE  promo \in [Code -> [terms : Terms, active : BOOLEAN] \cup {NoPromo}]
    <3> DEFINE Rows == [terms : Terms, active : BOOLEAN] \cup {NoPromo}
    <3>1. /\ \A c \in DOMAIN Seeded : [terms |-> Seeded[c], active |-> TRUE] \in Rows
          /\ [terms |-> terms, active |-> TRUE] \in Rows
          /\ NoPromo \in Rows
      BY <2>1, <2>2
    <3> HIDE DEF Rows
    <3>2. promo \in [Code -> Rows]  BY <2>4, <3>1 DEF FirstRows
    <3> QED BY <3>2 DEF Rows
  <2> QED BY <2>3, <2>4 DEF Init
<1>2. trip \in Trip  BY DEF Init, NoTrip, Trip
<1>3. locating \subseteq [field : Field, auto : BOOLEAN, onward : BOOLEAN]
  BY DEF Init, Automatic
<1>4. count \in [{"choices", "upsets"} -> Nat]
  BY DEF Init
<1> QED BY <1>1, <1>2, <1>3, <1>4 DEF Init, TypeOK

LEMMA TypeStep == TypeOK /\ [Next]_vars => TypeOK'
<1> SUFFICES ASSUME TypeOK, [Next]_vars PROVE TypeOK'  OBVIOUS
<1>1. ASSUME NEW c \in Code, NEW terms \in NewTerms, CreatePromo(c, terms) PROVE TypeOK'
  <2>1. promo' \in [Code -> [terms : Terms, active : BOOLEAN] \cup {NoPromo}]
    BY <1>1 DEF CreatePromo, TypeOK
  <2>2. post' \in [Post -> PostRow \cup {NoPost}]  BY <1>1, TouchedTyped DEF CreatePromo
  <2>3. count' \in [{"choices", "upsets"} -> Nat]  BY <1>1, SpendTyped DEF CreatePromo
  <2> QED BY <1>1, <2>1, <2>2, <2>3 DEF CreatePromo, TypeOK
<1>2. ASSUME NEW c \in Code, TogglePromo(c) PROVE TypeOK'
  <2>1. promo' \in [Code -> [terms : Terms, active : BOOLEAN] \cup {NoPromo}]
    <3>1. promo[c] \in [terms : Terms, active : BOOLEAN]  BY <1>2 DEF TogglePromo, TypeOK
    <3>2. [promo[c] EXCEPT !.active = ~@] \in [terms : Terms, active : BOOLEAN]  BY <3>1
    <3> QED BY <1>2, <3>2 DEF TogglePromo, TypeOK
  <2>2. post' \in [Post -> PostRow \cup {NoPost}]  BY <1>2, TouchedTyped DEF TogglePromo
  <2>3. count' \in [{"choices", "upsets"} -> Nat]  BY <1>2, SpendTyped DEF TogglePromo
  <2> QED BY <1>2, <2>1, <2>2, <2>3 DEF TogglePromo, TypeOK
<1>3. ASSUME NEW t \in fetching, EstimateAnswered(t) PROVE TypeOK'
  <2>1. t \in Routes /\ t.code \in Code \cup {NoCode}  BY DEF TypeOK, Routes, Trip
  <2>2. PICK terms \in {Found(t.code), BuiltIn(t.code)}, surging \in [Vehicle -> Draws] :
          /\ Lookup(t.code, terms)
          /\ cache' = [cache EXCEPT ![KeyOf(t)] =
               [fares |-> [v \in Vehicle |-> ComputeFare(v, Distance(t), terms, surging[v])],
                old   |-> FALSE]]
    BY <1>3 DEF EstimateAnswered
  <2>3. terms \in Terms \cup {NoTerms}  BY <2>1, FoundTyped, BuiltInTyped
  <2>4. [v \in Vehicle |-> ComputeFare(v, Distance(t), terms, surging[v])] \in [Vehicle -> Fare]
    <3>1. ASSUME NEW v \in Vehicle PROVE ComputeFare(v, Distance(t), terms, surging[v]) \in Fare
      BY <2>1, <2>3, DistanceTyped, FaresAddUp
    <3> QED BY <3>1
  <2>5. cache' \in [Key -> [fares : [Vehicle -> Fare], old : BOOLEAN] \cup {NoEstimate}]
    <3> DEFINE row == [fares |-> [v \in Vehicle |->
                                   ComputeFare(v, Distance(t), terms, surging[v])],
                       old   |-> FALSE]
    <3>1. row \in [fares : [Vehicle -> Fare], old : BOOLEAN]  BY <2>4
    <3>2. cache' = [cache EXCEPT ![KeyOf(t)] = row]  BY <2>2
    <3> HIDE DEF row
    <3> QED BY <3>1, <3>2 DEF TypeOK
  <2>6. count' \in [{"choices", "upsets"} -> Nat]  BY <2>2, SpendTyped DEF Lookup, TypeOK
  <2>7. fetching' \subseteq Routes  BY <1>3 DEF EstimateAnswered, TypeOK
  <2> QED BY <1>3, <2>5, <2>6, <2>7 DEF EstimateAnswered, TypeOK
<1>4. ASSUME NEW t \in fetching, EstimateFails(t) PROVE TypeOK'
  <2>1. count' \in [{"choices", "upsets"} -> Nat]  BY <1>4, SpendTyped DEF EstimateFails
  <2> QED BY <1>4, <2>1 DEF EstimateFails, TypeOK
<1>5. ASSUME NEW k \in Key, EstimateAges(k) PROVE TypeOK'
  <2>1. cache[k] \in [fares : [Vehicle -> Fare], old : BOOLEAN]
    BY <1>5 DEF EstimateAges, TypeOK
  <2>2. cache' \in [Key -> [fares : [Vehicle -> Fare], old : BOOLEAN] \cup {NoEstimate}]
    BY <1>5, <2>1 DEF EstimateAges, TypeOK
  <2> QED BY <1>5, <2>2 DEF EstimateAges, TypeOK
<1>6. CASE WindowFocus
  BY <1>6 DEF WindowFocus, TypeOK, Fetch
<1>7. ASSUME NEW field \in Field, NEW pt \in Point, SelectOnHome(field, pt),
             count' \in [{"choices", "upsets"} -> Nat]
      PROVE  TypeOK'
  <2>1. [trip EXCEPT ![field] = pt] \in Trip  BY DEF TypeOK, Trip
  <2> QED BY <1>7, <2>1, RenderTyped DEF SelectOnHome, StillAsking, TypeOK
<1>8. ASSUME NEW field \in Field, NEW pt \in Point, ConfirmOnMap(field, pt),
             count' \in [{"choices", "upsets"} -> Nat]
      PROVE  TypeOK'
  <2>1. [trip EXCEPT ![field] = pt] \in Trip  BY DEF TypeOK, Trip
  <2> QED BY <1>8, <2>1, RenderTyped DEF ConfirmOnMap, StillAsking, TypeOK
<1>9. ASSUME NEW field \in Field, NEW pt \in Point, EditOnBooking(field, pt),
             count' \in [{"choices", "upsets"} -> Nat]
      PROVE  TypeOK'
  <2>1. [trip EXCEPT ![field] = pt] \in Trip  BY DEF TypeOK, Trip
  <2> QED BY <1>9, <2>1, RenderTyped DEF EditOnBooking, TypeOK
<1>10. CASE Chooses
  <2>1. count' \in [{"choices", "upsets"} -> Nat]  BY <1>10, SpendTyped DEF Chooses
  <2>2. ASSUME NEW c \in Code \cup {NoCode}, ApplyPromo(c) PROVE TypeOK'
    <3>1. [trip EXCEPT !.code = c] \in Trip  BY DEF TypeOK, Trip
    <3> QED BY <2>1, <2>2, <3>1, RenderTyped DEF ApplyPromo, TypeOK
  <2> QED BY <1>7, <1>8, <1>9, <1>10, <2>1, <2>2 DEF Chooses
<1>11. CASE GoBack
  BY <1>11, RenderTyped DEF GoBack, TypeOK
<1>12. CASE Reselect
  <2>1. trip.drop \in Point  BY <1>12 DEF Reselect, Routes, Trip
  <2> QED BY <1>7, <1>12, <2>1 DEF Reselect, TypeOK
<1>13. CASE NothingToBook
  BY <1>13, RenderTyped DEF NothingToBook, TypeOK
<1>14. ASSUME NEW field \in Field, UseCurrentLocation(field) PROVE TypeOK'
  <2>1. count' \in [{"choices", "upsets"} -> Nat]  BY <1>14, SpendTyped DEF UseCurrentLocation
  <2>2. PICK onward \in BOOLEAN :
          locating' = locating \cup {[field |-> field, auto |-> FALSE, onward |-> onward]}
    <3>1. (page = "home" /\ field = "pickup" /\ trip.drop # Nowhere) \in BOOLEAN  OBVIOUS
    <3> QED BY <1>14, <3>1 DEF UseCurrentLocation
  <2>3. [field |-> field, auto |-> FALSE, onward |-> onward]
          \in [field : Field, auto : BOOLEAN, onward : BOOLEAN]
    BY <2>2
  <2>4. locating' \subseteq [field : Field, auto : BOOLEAN, onward : BOOLEAN]
    <3>1. locating \subseteq [field : Field, auto : BOOLEAN, onward : BOOLEAN]  BY DEF TypeOK
    <3> QED BY <2>2, <2>3, <3>1
  <2> QED BY <1>14, <2>1, <2>4 DEF UseCurrentLocation, TypeOK
<1>15. ASSUME NEW l \in locating, Located(l) PROVE TypeOK'
  <2>1. l.field \in Field /\ l.onward \in BOOLEAN  BY DEF TypeOK
  <2>2. [trip EXCEPT ![l.field] = Here] \in Trip  BY <2>1 DEF TypeOK, Trip
  <2>3. (IF l.onward THEN "booking" ELSE page) \in {"home", "booking", "matching"}
    BY DEF TypeOK
  <2> QED BY <1>15, <2>2, <2>3, RenderTyped DEF Located, StillAsking, TypeOK
<1>16. ASSUME NEW l \in locating, NotLocated(l) PROVE TypeOK'
  BY <1>16 DEF NotLocated, TypeOK
<1>17. ASSUME NEW b \in Post, NEW v \in Vehicle, Book(b, v) PROVE TypeOK'
  <2>1. KeyOf(trip) \in Key  BY <1>17, KeyTyped DEF Book
  <2>2. cache[KeyOf(trip)].fares[v] \in Fare  BY <1>17, <2>1 DEF Book, TypeOK
  <2>3. Active(trip.code) \in BOOLEAN  BY DEF Active, TypeOK
  <2>4. [stage |-> "sent", trip |-> trip, vehicle |-> v,
         fare |-> cache[KeyOf(trip)].fares[v], live |-> Active(trip.code)] \in PostRow
    BY <1>17, <2>2, <2>3 DEF Book, PostRow
  <2> QED BY <1>17, <2>4 DEF Book, Put, TypeOK
<1>18. ASSUME NEW b \in Post, Check(b) PROVE TypeOK'
  <2>1. count' \in [{"choices", "upsets"} -> Nat]
    BY <1>18, SpendTyped DEF Check, Lookup, TypeOK
  <2>2. post' \in [Post -> PostRow \cup {NoPost}]
    <3>1. post[b] \in PostRow  BY <1>18 DEF Check, TypeOK
    <3>2. /\ [post[b] EXCEPT !.stage = "checked"] \in PostRow
          /\ [post[b] EXCEPT !.stage = "refused"] \in PostRow
      BY <3>1 DEF PostRow
    <3>3. \/ post' = [post EXCEPT ![b] = [post[b] EXCEPT !.stage = "checked"]]
          \/ post' = [post EXCEPT ![b] = [post[b] EXCEPT !.stage = "refused"]]
      BY <1>18 DEF Check, Put
    <3> QED BY <3>2, <3>3 DEF TypeOK
  <2> QED BY <1>18, <2>1, <2>2 DEF Check, TypeOK
<1>19. ASSUME NEW b \in Post, Insert(b) PROVE TypeOK'
  <2>1. post[b] \in PostRow  BY <1>19 DEF Insert, TypeOK
  <2>2. /\ [post[b] EXCEPT !.stage = "created"] \in PostRow
        /\ [post[b] EXCEPT !.stage = "refused"] \in PostRow
    BY <2>1 DEF PostRow
  <2>3. post' \in [Post -> PostRow \cup {NoPost}]
    BY <1>19, <2>2 DEF Insert, Put, TypeOK
  <2>4. ride' \in [active : BOOLEAN, trip : Routes, vehicle : Vehicle, fare : Fare,
                   live : BOOLEAN] \cup {NoRide}
    <3>1. ride \in [active : BOOLEAN, trip : Routes, vehicle : Vehicle, fare : Fare,
                    live : BOOLEAN] \cup {NoRide}
      BY DEF TypeOK
    <3>2. [active |-> TRUE, trip |-> post[b].trip, vehicle |-> post[b].vehicle,
           fare |-> post[b].fare, live |-> post[b].live]
            \in [active : BOOLEAN, trip : Routes, vehicle : Vehicle, fare : Fare,
                 live : BOOLEAN]
      BY <2>1 DEF PostRow
    <3> QED BY <1>19, <3>1, <3>2 DEF Insert
  <2> QED BY <1>19, <2>3, <2>4 DEF Insert, TypeOK
<1>20. ASSUME NEW b \in Post, Answered(b) PROVE TypeOK'
  <2>1. post' \in [Post -> PostRow \cup {NoPost}]  BY <1>20 DEF Answered, Put, TypeOK
  <2>2. CASE post[b].stage = "created"
    BY <1>20, <2>1, <2>2, RenderTyped DEF Answered, StillAsking, TypeOK
  <2>3. CASE post[b].stage # "created"
    BY <1>20, <2>1, <2>3 DEF Answered, TypeOK
  <2> QED BY <2>2, <2>3
<1>21. ASSUME NEW b \in Post, ConnectionLost(b) PROVE TypeOK'
  <2>1. count' \in [{"choices", "upsets"} -> Nat]  BY <1>21, SpendTyped DEF ConnectionLost
  <2>2. post' \in [Post -> PostRow \cup {NoPost}]  BY <1>21 DEF ConnectionLost, Put, TypeOK
  <2> QED BY <1>21, <2>1, <2>2 DEF ConnectionLost, TypeOK
<1>22. CASE Resume
  BY <1>22, RenderTyped DEF Resume, StillAsking, TypeOK
<1>23. CASE RideEnds
  <2>1. count' \in [{"choices", "upsets"} -> Nat]  BY <1>23, SpendTyped DEF RideEnds
  <2>2. ride' \in [active : BOOLEAN, trip : Routes, vehicle : Vehicle, fare : Fare,
                   live : BOOLEAN]
    BY <1>23 DEF RideEnds, HasRide, TypeOK
  <2> QED BY <1>23, <2>1, <2>2 DEF RideEnds, TypeOK
<1>24. CASE LeaveMatching
  <2>1. NoTrip \in Trip  BY DEF NoTrip, Trip
  <2>2. Automatic \in [field : Field, auto : BOOLEAN, onward : BOOLEAN]  BY DEF Automatic
  <2>3. locating' \subseteq [field : Field, auto : BOOLEAN, onward : BOOLEAN]
    BY <1>24, <2>2 DEF LeaveMatching, TypeOK
  <2> QED BY <1>24, <2>1, <2>3, RenderTyped DEF LeaveMatching, TypeOK
<1>25. CASE UNCHANGED vars
  BY <1>25 DEF vars, TypeOK
<1> QED BY <1>1, <1>2, <1>3, <1>4, <1>5, <1>6, <1>10, <1>11, <1>12, <1>13, <1>14, <1>15,
           <1>16, <1>17, <1>18, <1>19, <1>20, <1>21, <1>22, <1>23, <1>24, <1>25 DEF Next

(* Type correctness of Booking for every number of places and codes.          *)
THEOREM TypeCorrect == Spec => []TypeOK
<1> QED BY TypeInit, TypeStep, PTL DEF Spec

-----------------------------------------------------------------------------
(* The price of a ride *)

(* What the check has passed is a price of the trip it came with. *)
Priced(row) ==
  \E terms \in TermsOf(row.trip.code), surging \in BOOLEAN :
    row.fare = ComputeFare(row.vehicle, Distance(row.trip), terms, surging)

PostsPriced ==
  \A b \in Post : post[b] # NoPost /\ post[b].stage \in {"checked", "created"} =>
                    Priced(post[b])

PriceInv == TypeOK /\ PromosKnown /\ PostsPriced /\ FareFitsTrip

LEMMA PriceInit == Init => PriceInv
<1> SUFFICES ASSUME Init PROVE PriceInv  OBVIOUS
<1>1. ASSUME NEW c \in Code, promo[c] # NoPromo PROVE promo[c].terms \in TermsOf(c)
  <2>1. CASE c \in DOMAIN Seeded
    <3>1. promo[c] = [terms |-> Seeded[c], active |-> TRUE]
      BY <1>1, <2>1 DEF Init, FirstRows
    <3> QED BY <2>1, <3>1 DEF TermsOf, BuiltIn
  <2>2. CASE c \notin DOMAIN Seeded
    <3>1. \E terms \in NewTerms : promo[c] = [terms |-> terms, active |-> TRUE]
      BY <1>1, <2>2 DEF Init, FirstRows
    <3> QED BY <3>1 DEF TermsOf
  <2> QED BY <2>1, <2>2
<1>2. PromosKnown  BY <1>1 DEF PromosKnown
<1>3. PostsPriced  BY DEF Init, PostsPriced
<1>4. FareFitsTrip  BY DEF Init, FareFitsTrip
<1> QED BY <1>2, <1>3, <1>4, TypeInit DEF PriceInv

(* The steps that touch the codes, the bookings in flight or the ride.        *)
LEMMA StepSplit ==
  ASSUME [Next]_vars
  PROVE  \/ \E c \in Code, terms \in NewTerms : CreatePromo(c, terms)
         \/ \E c \in Code : TogglePromo(c)
         \/ \E b \in Post, v \in Vehicle : Book(b, v)
         \/ \E b \in Post : Check(b) \/ Insert(b) \/ Answered(b) \/ ConnectionLost(b)
         \/ RideEnds
         \/ UNCHANGED <<promo, post, ride>>
<1>1. ASSUME Chooses \/ Reselect PROVE UNCHANGED <<promo, post, ride>>
  BY <1>1 DEF Chooses, Reselect, SelectOnHome, ConfirmOnMap, EditOnBooking, ApplyPromo
<1>2. ASSUME NEW t \in fetching, EstimateAnswered(t) \/ EstimateFails(t)
      PROVE  UNCHANGED <<promo, post, ride>>
  BY <1>2 DEF EstimateAnswered, EstimateFails
<1>3. ASSUME NEW k \in Key, EstimateAges(k) PROVE UNCHANGED <<promo, post, ride>>
  BY <1>3 DEF EstimateAges
<1>4. ASSUME WindowFocus \/ GoBack \/ NothingToBook \/ Resume \/ LeaveMatching
      PROVE  UNCHANGED <<promo, post, ride>>
  BY <1>4 DEF WindowFocus, GoBack, NothingToBook, Resume, LeaveMatching
<1>5. ASSUME NEW field \in Field, UseCurrentLocation(field)
      PROVE  UNCHANGED <<promo, post, ride>>
  BY <1>5 DEF UseCurrentLocation
<1>6. ASSUME NEW l \in locating, Located(l) \/ NotLocated(l)
      PROVE  UNCHANGED <<promo, post, ride>>
  BY <1>6 DEF Located, NotLocated
<1>7. CASE UNCHANGED vars  BY <1>7 DEF vars
<1> QED BY <1>1, <1>2, <1>3, <1>4, <1>5, <1>6, <1>7, Zenon DEF Next

(* No row ever gets terms its code cannot have. *)
LEMMA PromosKnownStep == TypeOK /\ PromosKnown /\ [Next]_vars => PromosKnown'
<1> SUFFICES ASSUME TypeOK, PromosKnown, [Next]_vars,
                    NEW d \in Code, promo'[d] # NoPromo
             PROVE  promo'[d].terms \in TermsOf(d)
  BY DEF PromosKnown
<1>1. ASSUME NEW c \in Code, NEW terms \in NewTerms, CreatePromo(c, terms)
      PROVE  promo'[d].terms \in TermsOf(d)
  <2>1. CASE d = c
    <3>1. promo'[d] = [terms |-> terms, active |-> TRUE]
      BY <1>1, <2>1 DEF CreatePromo, TypeOK
    <3> QED BY <3>1 DEF TermsOf
  <2>2. CASE d # c
    <3>1. promo'[d] = promo[d]  BY <1>1, <2>2 DEF CreatePromo, TypeOK
    <3> QED BY <3>1 DEF PromosKnown
  <2> QED BY <2>1, <2>2
<1>2. ASSUME NEW c \in Code, TogglePromo(c) PROVE promo'[d].terms \in TermsOf(d)
  <2>1. promo[d] # NoPromo /\ promo'[d].terms = promo[d].terms
    BY <1>2 DEF TogglePromo, TypeOK
  <2> QED BY <2>1 DEF PromosKnown
<1>3. CASE UNCHANGED promo  BY <1>3 DEF PromosKnown
<1> QED BY <1>1, <1>2, <1>3, StepSplit
        DEF Book, Check, Insert, Answered, ConnectionLost, RideEnds

LEMMA CheckPrices ==
  ASSUME TypeOK, PromosKnown, NEW b \in Post, Check(b), post'[b].stage = "checked"
  PROVE  Priced(post'[b])
<1> DEFINE row == post[b]
<1>1. row \in PostRow /\ row.trip \in Routes /\ row.vehicle \in VehicleType
      /\ row.fare \in Fare
  BY DEF Check, TypeOK, PostRow
<1>2. row.trip.code \in Code \cup {NoCode}  BY <1>1 DEF Routes, Trip
<1>3. PICK terms \in {Found(row.trip.code), BuiltIn(row.trip.code)} :
        post' = [post EXCEPT ![b] = [row EXCEPT !.stage =
                   IF ~HasRide /\ IsValidFare(row.vehicle, Distance(row.trip),
                                              row.fare, terms)
                     THEN "checked" ELSE "refused"]]
  BY DEF Check, Put
<1>4. /\ post'[b].trip = row.trip /\ post'[b].vehicle = row.vehicle
      /\ post'[b].fare = row.fare
      /\ IsValidFare(row.vehicle, Distance(row.trip), row.fare, terms)
  BY <1>1, <1>3 DEF TypeOK, PostRow
<1>5. terms \in TermsOf(row.trip.code) /\ terms \in Terms \cup {NoTerms}
  BY <1>2, LookupKnown, KnownTermsTyped
<1>6. PICK surging \in BOOLEAN :
        row.fare = ComputeFare(row.vehicle, Distance(row.trip), terms, surging)
  BY <1>1, <1>4, <1>5, DistanceTyped, ValidFaresAreComputed
<1> QED BY <1>4, <1>5, <1>6 DEF Priced

LEMMA PostsPricedStep == TypeOK /\ PromosKnown /\ PostsPriced /\ [Next]_vars => PostsPriced'
<1> SUFFICES ASSUME TypeOK, PromosKnown, PostsPriced, [Next]_vars, NEW a \in Post,
                    post'[a] # NoPost, post'[a].stage \in {"checked", "created"}
             PROVE  Priced(post'[a])
  BY DEF PostsPriced
<1>1. ASSUME NEW c, post' = Touched(c) PROVE Priced(post'[a])
  <2>1. post[a] # NoPost  BY <1>1 DEF Touched
  <2>2. post[a] \in PostRow  BY <2>1 DEF TypeOK
  <2>3. /\ post'[a].stage = post[a].stage /\ post'[a].trip = post[a].trip
        /\ post'[a].vehicle = post[a].vehicle /\ post'[a].fare = post[a].fare
    BY <1>1, <2>1, <2>2 DEF Touched, PostRow
  <2> QED BY <2>1, <2>3 DEF PostsPriced, Priced
<1>2. ASSUME NEW b \in Post, NEW v \in Vehicle, Book(b, v) PROVE Priced(post'[a])
  <2>1. a # b  BY <1>2 DEF Book, Put, TypeOK
  <2>2. post'[a] = post[a]  BY <1>2, <2>1 DEF Book, Put, TypeOK
  <2> QED BY <2>2 DEF PostsPriced
<1>3. ASSUME NEW b \in Post, Check(b) PROVE Priced(post'[a])
  <2>1. CASE a = b
    <3>1. post'[b].stage = "checked"
      <4>1. post[b] \in PostRow  BY <1>3 DEF Check, TypeOK
      <4>2. post'[b].stage \in {"checked", "refused"}
        BY <1>3, <4>1 DEF Check, Put, TypeOK, PostRow
      <4> QED BY <2>1, <4>2
    <3> QED BY <1>3, <2>1, <3>1, CheckPrices
  <2>2. CASE a # b
    <3>1. post'[a] = post[a]  BY <1>3, <2>2 DEF Check, Put, TypeOK
    <3> QED BY <3>1 DEF PostsPriced
  <2> QED BY <2>1, <2>2
<1>4. ASSUME NEW b \in Post, Insert(b) PROVE Priced(post'[a])
  <2>1. CASE a = b
    <3>1. post[b] \in PostRow /\ post[b] # NoPost /\ post[b].stage = "checked"
      BY <1>4 DEF Insert, TypeOK
    <3>2. /\ post'[a].trip = post[a].trip /\ post'[a].vehicle = post[a].vehicle
          /\ post'[a].fare = post[a].fare
      BY <1>4, <2>1, <3>1 DEF Insert, Put, TypeOK, PostRow
    <3> QED BY <2>1, <3>1, <3>2 DEF PostsPriced, Priced
  <2>2. CASE a # b
    <3>1. post'[a] = post[a]  BY <1>4, <2>2 DEF Insert, Put, TypeOK
    <3> QED BY <3>1 DEF PostsPriced
  <2> QED BY <2>1, <2>2
<1>5. ASSUME NEW b \in Post, Answered(b) \/ ConnectionLost(b) PROVE Priced(post'[a])
  <2>1. a # b  BY <1>5 DEF Answered, ConnectionLost, Put, TypeOK
  <2>2. post'[a] = post[a]  BY <1>5, <2>1 DEF Answered, ConnectionLost, Put, TypeOK
  <2> QED BY <2>2 DEF PostsPriced
<1>6. CASE UNCHANGED post  BY <1>6 DEF PostsPriced
<1> QED BY <1>1, <1>2, <1>3, <1>4, <1>5, <1>6, StepSplit
        DEF CreatePromo, TogglePromo, RideEnds

LEMMA FareFitsStep == TypeOK /\ PostsPriced /\ FareFitsTrip /\ [Next]_vars => FareFitsTrip'
<1> SUFFICES ASSUME TypeOK, PostsPriced, FareFitsTrip, [Next]_vars, ride' # NoRide
             PROVE  Priced(ride')
  BY DEF FareFitsTrip, Priced
<1>1. ASSUME NEW b \in Post, Insert(b) PROVE Priced(ride')
  <2>1. CASE HasRide  BY <1>1, <2>1 DEF Insert, FareFitsTrip, Priced
  <2>2. CASE ~HasRide
    <3>1. Priced(post[b])  BY <1>1 DEF Insert, PostsPriced
    <3>2. /\ ride'.trip = post[b].trip /\ ride'.vehicle = post[b].vehicle
          /\ ride'.fare = post[b].fare
      BY <1>1, <2>2 DEF Insert
    <3> QED BY <3>1, <3>2 DEF Priced
  <2> QED BY <2>1, <2>2
<1>2. CASE RideEnds
  <2>1. ride # NoRide /\ ride'.trip = ride.trip /\ ride'.vehicle = ride.vehicle
        /\ ride'.fare = ride.fare
    BY <1>2 DEF RideEnds, HasRide, TypeOK
  <2> QED BY <2>1 DEF FareFitsTrip, Priced
<1>3. CASE UNCHANGED ride  BY <1>3 DEF FareFitsTrip, Priced
<1> QED BY <1>1, <1>2, <1>3, StepSplit
        DEF CreatePromo, TogglePromo, Book, Check, Answered, ConnectionLost

(* However stale the estimate and whatever the admins do meanwhile, a ride    *)
(* costs what computeFare gives for its own trip and vehicle with terms its   *)
(* own code has.                                                              *)
THEOREM FareFits == Spec => []FareFitsTrip
<1>1. PriceInv /\ [Next]_vars => PriceInv'
  BY TypeStep, PromosKnownStep, PostsPricedStep, FareFitsStep DEF PriceInv
<1>2. PriceInv => FareFitsTrip  BY DEF PriceInv
<1> QED BY PriceInit, <1>1, <1>2, PTL DEF Spec

-----------------------------------------------------------------------------
(* Discounts *)

FromBuiltIn(row) == row.trip.code \in DOMAIN Seeded

(* A booking in flight is live while its code is on, and what passed the      *)
(* check with a discount is live or has a built-in code.                      *)
PostsLive ==
  \A b \in Post : post[b] # NoPost =>
    /\ Active(post[b].trip.code) => post[b].live
    /\ /\ post[b].stage \in {"checked", "created"}
       /\ post[b].fare.promoDiscount > 0
       => post[b].live \/ FromBuiltIn(post[b])

DiscountInv == TypeOK /\ PostsLive /\ LapsedCodesGiveNothing

(* A price that is valid without a code has no discount. *)
LEMMA ValidWithoutTerms ==
  ASSUME NEW v \in VehicleType, NEW km \in Nat, NEW fare \in Fare,
         IsValidFare(v, km, fare, NoTerms)
  PROVE  ~(fare.promoDiscount > 0)
<1>1. Rate[v].base + DistancePart(v, km) + TimePart(v, km) + fare.surge \in Nat
  BY RatesAreNat, PartsAreNat DEF Fare
<1>2. fare.promoDiscount =
        Discount(Rate[v].base + DistancePart(v, km) + TimePart(v, km) + fare.surge, NoTerms)
  BY DEF IsValidFare
<1> QED BY <1>1, <1>2, NoTermsNoDiscount

(* A check that lets a discount pass has found terms: those of an active row, *)
(* or built-in ones.                                                          *)
LEMMA CheckedDiscounts ==
  ASSUME TypeOK, PostsLive, NEW b \in Post, Check(b), post'[b].stage = "checked",
         post'[b].fare.promoDiscount > 0
  PROVE  post'[b].live \/ FromBuiltIn(post'[b])
<1> DEFINE row == post[b]
<1>1. row \in PostRow /\ row # NoPost /\ row.trip \in Routes
      /\ row.vehicle \in VehicleType /\ row.fare \in Fare
  BY DEF Check, TypeOK, PostRow
<1>2. PICK terms \in {Found(row.trip.code), BuiltIn(row.trip.code)} :
        post' = [post EXCEPT ![b] = [row EXCEPT !.stage =
                   IF ~HasRide /\ IsValidFare(row.vehicle, Distance(row.trip),
                                              row.fare, terms)
                     THEN "checked" ELSE "refused"]]
  BY DEF Check, Put
<1>3. /\ post'[b].trip = row.trip /\ post'[b].live = row.live
      /\ post'[b].fare = row.fare
      /\ IsValidFare(row.vehicle, Distance(row.trip), row.fare, terms)
  BY <1>1, <1>2 DEF TypeOK, PostRow
<1>4. post'[b].fare.promoDiscount > 0  OBVIOUS
<1>5. terms # NoTerms
  <2>1. Distance(row.trip) \in Nat  BY <1>1, DistanceTyped
  <2> QED BY <1>1, <1>3, <1>4, <2>1, ValidWithoutTerms
<1>6. Active(row.trip.code) \/ row.trip.code \in DOMAIN Seeded
  BY <1>2, <1>5 DEF Found, BuiltIn
<1>7. Active(row.trip.code) => row.live  BY <1>1 DEF PostsLive
<1> QED BY <1>3, <1>6, <1>7 DEF FromBuiltIn

LEMMA PostsLiveStep == TypeOK /\ PostsLive /\ [Next]_vars => PostsLive'
<1> DEFINE Fine(a) == /\ Active(post[a].trip.code) => post[a].live
                      /\ /\ post[a].stage \in {"checked", "created"}
                         /\ post[a].fare.promoDiscount > 0
                         => post[a].live \/ FromBuiltIn(post[a])
<1> SUFFICES ASSUME TypeOK, PostsLive, [Next]_vars, NEW a \in Post, post'[a] # NoPost
             PROVE  Fine(a)'
  BY DEF PostsLive
<1>1. ASSUME NEW c \in Code, post' = Touched(c),
             \A d \in Code : d # c => promo'[d] = promo[d]
      PROVE  Fine(a)'
  <2>1. post[a] # NoPost  BY <1>1 DEF Touched
  <2>2. post[a] \in PostRow  BY <2>1 DEF TypeOK
  <2>3. /\ post'[a].stage = post[a].stage /\ post'[a].trip = post[a].trip
        /\ post'[a].fare = post[a].fare
        /\ post'[a].live = (post[a].live \/ post[a].trip.code = c)
    BY <1>1, <2>1, <2>2 DEF Touched, PostRow
  <2>4. post[a].trip.code # c => Active(post[a].trip.code)' = Active(post[a].trip.code)
    BY <1>1, <2>3 DEF Active
  <2> QED BY <2>1, <2>3, <2>4 DEF PostsLive, FromBuiltIn
<1>2. ASSUME UNCHANGED promo, post'[a] = post[a] PROVE Fine(a)'
  BY <1>2 DEF PostsLive, FromBuiltIn, Active
<1>3. ASSUME NEW b \in Post, NEW v \in Vehicle, Book(b, v) PROVE Fine(a)'
  <2>1. CASE a = b
    <3>1. post'[a].stage = "sent" /\ post'[a].live = Active(trip.code)
          /\ post'[a].trip = trip
      BY <1>3, <2>1 DEF Book, Put, TypeOK
    <3>2. UNCHANGED promo  BY <1>3 DEF Book
    <3> QED BY <3>1, <3>2 DEF Active
  <2>2. CASE a # b  BY <1>2, <1>3, <2>2 DEF Book, Put, TypeOK
  <2> QED BY <2>1, <2>2
<1>4. ASSUME NEW b \in Post, Check(b) PROVE Fine(a)'
  <2>1. CASE a = b
    <3>1. post[b] \in PostRow /\ post[b] # NoPost  BY <1>4 DEF Check, TypeOK
    <3>2. /\ post'[b].stage \in {"checked", "refused"} /\ post'[b].trip = post[b].trip
          /\ post'[b].live = post[b].live /\ UNCHANGED promo
      BY <1>4, <3>1 DEF Check, Put, TypeOK, PostRow
    <3>3. Active(post[a].trip.code)' => post'[a].live
      BY <2>1, <3>1, <3>2 DEF PostsLive, Active
    <3>4. post'[a].stage = "checked" /\ post'[a].fare.promoDiscount > 0
            => post'[a].live \/ FromBuiltIn(post'[a])
      BY <1>4, <2>1, CheckedDiscounts
    <3> QED BY <2>1, <3>2, <3>3, <3>4
  <2>2. CASE a # b  BY <1>2, <1>4, <2>2 DEF Check, Put, TypeOK
  <2> QED BY <2>1, <2>2
<1>5. ASSUME NEW b \in Post, Insert(b) PROVE Fine(a)'
  <2>1. CASE a = b
    <3>1. post[b] \in PostRow /\ post[b] # NoPost /\ post[b].stage = "checked"
      BY <1>5 DEF Insert, TypeOK
    <3>2. /\ post'[b].trip = post[b].trip /\ post'[b].fare = post[b].fare
          /\ post'[b].live = post[b].live /\ UNCHANGED promo
      BY <1>5, <3>1 DEF Insert, Put, TypeOK, PostRow
    <3> QED BY <2>1, <3>1, <3>2 DEF PostsLive, Active, FromBuiltIn
  <2>2. CASE a # b  BY <1>2, <1>5, <2>2 DEF Insert, Put, TypeOK
  <2> QED BY <2>1, <2>2
<1>6. ASSUME NEW b \in Post, Answered(b) \/ ConnectionLost(b) PROVE Fine(a)'
  <2>1. a # b  BY <1>6 DEF Answered, ConnectionLost, Put, TypeOK
  <2> QED BY <1>2, <1>6, <2>1 DEF Answered, ConnectionLost, Put, TypeOK
<1>7. ASSUME NEW c \in Code, NEW terms \in NewTerms, CreatePromo(c, terms) PROVE Fine(a)'
  BY <1>1, <1>7 DEF CreatePromo, TypeOK
<1>8. ASSUME NEW c \in Code, TogglePromo(c) PROVE Fine(a)'
  BY <1>1, <1>8 DEF TogglePromo, TypeOK
<1>9. CASE UNCHANGED <<promo, post>>  BY <1>2, <1>9
<1> HIDE DEF Fine
<1> QED BY <1>3, <1>4, <1>5, <1>6, <1>7, <1>8, <1>9, StepSplit DEF RideEnds

LEMMA LapsedStep ==
  TypeOK /\ PostsLive /\ LapsedCodesGiveNothing /\ [Next]_vars => LapsedCodesGiveNothing'
<1> SUFFICES ASSUME TypeOK, PostsLive, LapsedCodesGiveNothing, [Next]_vars,
                    ride' # NoRide, ride'.fare.promoDiscount > 0
             PROVE  ride'.live \/ ride'.trip.code \in DOMAIN Seeded
  BY DEF LapsedCodesGiveNothing
<1>1. ASSUME NEW b \in Post, Insert(b) PROVE ride'.live \/ ride'.trip.code \in DOMAIN Seeded
  <2>1. CASE HasRide  BY <1>1, <2>1 DEF Insert, LapsedCodesGiveNothing
  <2>2. CASE ~HasRide
    <3>1. ride'.trip = post[b].trip /\ ride'.fare = post[b].fare
          /\ ride'.live = post[b].live
      BY <1>1, <2>2 DEF Insert
    <3> QED BY <1>1, <3>1 DEF Insert, PostsLive, FromBuiltIn
  <2> QED BY <2>1, <2>2
<1>2. CASE RideEnds
  <2>1. ride # NoRide /\ ride'.trip = ride.trip /\ ride'.live = ride.live
        /\ ride'.fare = ride.fare
    BY <1>2 DEF RideEnds, HasRide, TypeOK
  <2> QED BY <2>1 DEF LapsedCodesGiveNothing
<1>3. CASE UNCHANGED ride  BY <1>3 DEF LapsedCodesGiveNothing
<1> QED BY <1>1, <1>2, <1>3, StepSplit
        DEF CreatePromo, TogglePromo, Book, Check, Answered, ConnectionLost

(* No ride has a discount from a code that was off from the moment Book was   *)
(* tapped, unless the code is a built-in one.                                 *)
THEOREM LapsedGiveNothing == Spec => []LapsedCodesGiveNothing
<1>1. Init => DiscountInv
  BY TypeInit DEF Init, DiscountInv, PostsLive, LapsedCodesGiveNothing
<1>2. DiscountInv /\ [Next]_vars => DiscountInv'
  BY TypeStep, PostsLiveStep, LapsedStep DEF DiscountInv
<1>3. DiscountInv => LapsedCodesGiveNothing  BY DEF DiscountInv
<1> QED BY <1>1, <1>2, <1>3, PTL DEF Spec
=============================================================================
