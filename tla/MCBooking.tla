------------------------------ MODULE MCBooking ------------------------------
(* Three places for Booking: two that share a cache cell, whose distances to  *)
(* the third round to different bike fares, and codes, one of them built in.  *)
EXTENDS Booking

CONSTANTS gate, lane, station

MCCell == [p \in Point |-> IF p = lane THEN gate ELSE p]

MCKm == [pair \in Point \X Point |->
          IF pair[1] = station /\ pair[2] = station THEN 80
          ELSE IF lane \in {pair[1], pair[2]} /\ station \in {pair[1], pair[2]} THEN 269
          ELSE IF station \in {pair[1], pair[2]} THEN 270
          ELSE 80]

MCPlaces == [field \in Field |-> IF field = "pickup" THEN {lane} ELSE {station}]

MCSeeded  == [c \in {"TRYLO50"} |-> [percent |-> 50, cap |-> 50]]
MCTerms   == {[percent |-> 20, cap |-> 100]}
=============================================================================
