---------------------------- MODULE PlacePicker ----------------------------
(***************************************************************************)
(* How the rider's app lets a destination be set: the search field of the  *)
(* LocationSearchSheet, which searches Photon 300 ms after the last key,   *)
(* and the MapLocationPicker, whose fixed pin is the centre of a map and   *)
(* whose address comes from Nominatim each time the camera settles.        *)
(*                                                                         *)
(* A destination stands for its point, for the text that finds it and for  *)
(* its address.  Both components number what they ask (requestId) and drop *)
(* an answer that is not the latest: here the latest question is `asked',  *)
(* the ones it has replaced are `late'.  The pickup field behaves as the   *)
(* destination field does and is left out.                                 *)
(***************************************************************************)
EXTENDS Naturals

CONSTANTS Length,   \* destinations lie along a street, 1 .. Length blocks from the pickup
          None,     \* null
          Unnamed   \* the address "Selected location"

ASSUME LengthAssumption == Length \in Nat \ {0}
ASSUME NamesAssumption  == None \notin Nat /\ Unnamed \notin Nat /\ None # Unnamed

VARIABLES drop,     \* the destination in the booking store
          field,    \* the search field of the open sheet
          picker    \* the open map picker

places == <<drop, field, picker>>

Place == 1 .. Length
Pickup == 0
Point == {Pickup} \cup Place
Empty == Pickup              \* the text of an empty field: it finds nothing

NoDrop == [point |-> None, address |-> None]

ClosedField == [open |-> FALSE, text |-> Empty, timer |-> FALSE, asked |-> None,
                late |-> {}, results |-> None]

ClosedPicker == [open |-> FALSE, camera |-> None, center |-> None, asked |-> None,
                 late |-> {}, address |-> None]

-----------------------------------------------------------------------------
(* The search field *)

Replaced(form) == IF form.asked = None THEN form.late ELSE form.late \cup {form.asked}

(* The effect on `value': an empty field clears the list and numbers no       *)
(* request, so a search still running stays the latest one.                   *)
Typed(text) ==
  IF text = Empty
    THEN [field EXCEPT !.text = text, !.timer = FALSE, !.results = None]
    ELSE [field EXCEPT !.text = text, !.timer = TRUE, !.asked = None,
                       !.late = Replaced(field)]

(* The sheet opens with the text its page kept from before. *)
OpenSheet(text) ==
  /\ ~field.open /\ ~picker.open
  /\ field' = [ClosedField EXCEPT !.open = TRUE, !.text = text, !.timer = text # Empty]
  /\ UNCHANGED <<drop, picker>>

CloseSheet ==
  /\ field.open
  /\ field' = ClosedField
  /\ UNCHANGED <<drop, picker>>

Type(text) ==
  /\ field.open /\ text # field.text
  /\ field' = Typed(text)
  /\ UNCHANGED <<drop, picker>>

(* 300 ms without a key *)
Search ==
  /\ field.timer
  /\ field' = [field EXCEPT !.timer = FALSE, !.asked = field.text]
  /\ UNCHANGED <<drop, picker>>

(* Photon answers, with nothing if the request failed; only the answer to the *)
(* latest request fills the list.                                             *)
SearchAnswered ==
  /\ \/ /\ field.asked # None
        /\ \E found \in {field.asked, None} :
             field' = [field EXCEPT !.asked = None, !.results = found]
     \/ \E query \in field.late : field' = [field EXCEPT !.late = @ \ {query}]
  /\ UNCHANGED <<drop, picker>>

(* A suggestion is tapped: its point and its description, and the sheet goes. *)
Select ==
  /\ field.results # None
  /\ drop' = [point |-> field.results, address |-> field.results]
  /\ field' = ClosedField
  /\ UNCHANGED picker

-----------------------------------------------------------------------------
(* The map picker *)

Resolving == picker.asked # None

(* "Choose on map": the picker starts at the destination, or at the pickup. *)
OpenPicker ==
  LET start == IF drop = NoDrop THEN Pickup ELSE drop.point IN
  /\ field.open
  /\ field' = ClosedField
  /\ picker' = [ClosedPicker EXCEPT !.open = TRUE, !.camera = start, !.center = start,
                                    !.asked = start]
  /\ UNCHANGED drop

ClosePicker ==
  /\ picker.open
  /\ picker' = ClosedPicker
  /\ UNCHANGED <<drop, field>>

(* The map is dragged, or flies to the current location. *)
Pan(point) ==
  /\ picker.open /\ point # picker.camera
  /\ picker' = [picker EXCEPT !.camera = point]
  /\ UNCHANGED <<drop, field>>

(* moveend: the pin's point becomes the centre and its address is asked for. *)
Settle ==
  /\ picker.open /\ picker.camera # picker.center
  /\ picker' = [picker EXCEPT !.center = picker.camera, !.asked = picker.camera,
                              !.late = Replaced(picker)]
  /\ UNCHANGED <<drop, field>>

(* Mutation: any answer is taken for the one awaited. *)
AddressAnsweredAny ==
  /\ \E point \in picker.late \cup ({picker.asked} \ {None}) :
       picker' = [picker EXCEPT !.address = point, !.late = @ \ {point}, !.asked = None]
  /\ UNCHANGED <<drop, field>>

(* Nominatim answers, with null if the request failed; only the answer to the *)
(* latest request is kept.                                                    *)
AddressAnswered ==
  /\ \/ /\ Resolving
        /\ \E address \in {picker.asked, None} :
             picker' = [picker EXCEPT !.asked = None, !.address = address]
     \/ \E point \in picker.late : picker' = [picker EXCEPT !.late = @ \ {point}]
  /\ UNCHANGED <<drop, field>>

(* "Confirm location", disabled while the address is being looked up. *)
Confirm ==
  /\ picker.open /\ ~Resolving
  /\ drop' = [point   |-> picker.center,
              address |-> IF picker.address = None THEN Unnamed ELSE picker.address]
  /\ picker' = ClosedPicker
  /\ UNCHANGED field

-----------------------------------------------------------------------------
PlacesInit == drop = NoDrop /\ field = ClosedField /\ picker = ClosedPicker

(* The steps that leave the destination alone. *)
LookAround ==
  \/ CloseSheet \/ Search \/ SearchAnswered
  \/ OpenPicker \/ ClosePicker \/ Settle \/ AddressAnswered
  \/ \E text \in Point : OpenSheet(text) \/ Type(text)
  \/ \E point \in Point : Pan(point)

(* The address booked is the one of the point booked, or none, however the    *)
(* answers of the geocoder overtake each other while the map is moved         *)
(* (map-location-picker.tsx:35-43).                                           *)
ConfirmedAddressFits ==
  drop # NoDrop => drop.address \in {drop.point, Unnamed}

(* Once the typing has paused and the search has been answered, the list is   *)
(* the one of the text in the field (place-autocomplete.tsx:97-107).  An      *)
(* emptied field is another matter: its effect does not number a request.     *)
SuggestionsFitText ==
  field.text # Empty /\ ~field.timer /\ field.asked = None
    => field.results \in {field.text, None}
=============================================================================
