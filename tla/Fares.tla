-------------------------------- MODULE Fares --------------------------------
(* The fare arithmetic of the API: computeFare of lib/fare.ts, which prices   *)
(* an estimate, and isValidFare of customerRide.routes.ts, which checks the   *)
(* price that a booking submits.  The two are written apart in the code and   *)
(* must agree; FaresProofs shows that they do.  Distances are integers, in    *)
(* hundredths of a kilometre, and amounts are rupees.                         *)
EXTENDS Integers

VehicleType == {"bike", "auto", "cab"}

(* perMin is in tenths of a rupee, speed in km/h. *)
Rate == [bike |-> [base |-> 15, perKm |-> 5,  perMin |-> 8,  speed |-> 28],
         auto |-> [base |-> 25, perKm |-> 8,  perMin |-> 10, speed |-> 22],
         cab  |-> [base |-> 50, perKm |-> 13, perMin |-> 15, speed |-> 24]]

(* What a promo code gives: a percentage, at most so many rupees.  NoTerms is *)
(* no code, or a code that no lookup finds.                                   *)
Terms   == [percent : 1..100, cap : Nat]
NoTerms == [percent |-> 0, cap |-> 0]

(* Mutation: the half is taken off before rounding down. *)
RoundedDown(n, d) == (2 * n - d) \div (2 * d)

(* Math.round of n / d for n >= 0 *)
Rounded(n, d) == (2 * n + d) \div (2 * d)

Least(a, b)    == IF a < b THEN a ELSE b
Greatest(a, b) == IF a > b THEN a ELSE b

Minutes(v, km)      == Greatest(3, Rounded(60 * km, 100 * Rate[v].speed))
DistancePart(v, km) == Rounded(km * Rate[v].perKm, 100)
TimePart(v, km)     == Rounded(Minutes(v, km) * Rate[v].perMin, 10)

Percent(p, amount)     == Rounded(p * amount, 100)
Discount(amount, terms) == Least(Percent(terms.percent, amount), terms.cap)

Fare == [base : Nat, distance : Nat, time : Nat, surge : Nat, promoDiscount : Nat,
         total : Nat]

(* computeFare; surging is the outcome of its random draw. *)
ComputeFare(v, km, terms, surging) ==
  LET base     == Rate[v].base
      distance == DistancePart(v, km)
      time     == TimePart(v, km)
      surge    == IF surging THEN Percent(15, base + distance + time) ELSE 0
      subtotal == base + distance + time + surge
      discount == Discount(subtotal, terms)
  IN  [base |-> base, distance |-> distance, time |-> time, surge |-> surge,
       promoDiscount |-> discount, total |-> Greatest(0, subtotal - discount)]

(* isValidFare, for the terms it finds for the code that was submitted *)
IsValidFare(v, km, fare, terms) ==
  LET subtotal == Rate[v].base + DistancePart(v, km) + TimePart(v, km)
      surged   == subtotal + fare.surge
  IN  /\ fare.base = Rate[v].base
      /\ fare.distance = DistancePart(v, km)
      /\ fare.time = TimePart(v, km)
      /\ fare.surge \in {0, Percent(15, subtotal)}
      /\ fare.promoDiscount = Discount(surged, terms)
      /\ fare.total = Greatest(0, surged - fare.promoDiscount)
=============================================================================
