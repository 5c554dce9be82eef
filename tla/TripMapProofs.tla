--------------------------- MODULE TripMapProofs ---------------------------
(* What the map and the places keep for any street and any headings: the     *)
(* answers that come late are the ones that do not matter any more.          *)
EXTENDS TripMap, TLAPS

Maybe == Point \cup {None}

Drop   == [point : Maybe, address : Maybe \cup {Unnamed}]
Form   == [open : BOOLEAN, text : Point, timer : BOOLEAN, asked : Maybe,
           late : SUBSET Maybe, results : Maybe]
Picker == [open : BOOLEAN, camera : Maybe, center : Maybe, asked : Maybe,
           late : SUBSET Maybe, address : Maybe]

PlacesTypeOK == drop \in Drop /\ field \in Form /\ picker \in Picker

(* The address asked for is the centre's, and so is the one answered last. *)
AddressIsCurrent ==
  /\ picker.asked \in {None, picker.center}
  /\ picker.asked = None => picker.address \in {None, picker.center}

(* A destination has a point, and so has an open picker. *)
PointsKnown ==
  /\ drop # NoDrop => drop.point # None
  /\ picker.open => picker.camera # None /\ picker.center # None

(* The same of the search, as long as there is something to search for. *)
SearchIsCurrent ==
  field.text # Empty =>
    /\ field.asked \in {None, field.text}
    /\ ~field.timer /\ field.asked = None => field.results \in {field.text, None}

PlacesInv ==
  PlacesTypeOK /\ PointsKnown /\ AddressIsCurrent /\ SearchIsCurrent /\ ConfirmedAddressFits

(* What the pages do to the places. *)
PlacesStep ==
  \/ LookAround \/ Select \/ Confirm
  \/ drop' = NoDrop /\ UNCHANGED <<field, picker>>
  \/ UNCHANGED places

LEMMA EmptyIsAPoint == Empty \in Point /\ Pickup \in Point
BY DEF Empty, Pickup, Point

LEMMA NoneIsNoPoint == None \notin Point
BY NamesAssumption, LengthAssumption DEF Point, Pickup, Place

LEMMA ClosedTyped == ClosedPicker \in Picker /\ ~ClosedPicker.open
BY DEF ClosedPicker, Picker, Maybe

LEMMA StepOnPlaces == [Next]_vars => PlacesStep
<1> SUFFICES ASSUME [Next]_vars PROVE PlacesStep  OBVIOUS
<1> USE DEF PlacesStep
<1>1. CASE Browse  BY <1>1 DEF Browse
<1>2. CASE SelectPlace  BY <1>2 DEF SelectPlace
<1>3. CASE ConfirmPlace  BY <1>3 DEF ConfirmPlace
<1>4. CASE Back \/ BookRide  BY <1>4 DEF Back, BookRide
<1>5. CASE RideEnds  BY <1>5 DEF RideEnds
<1>6. CASE Load \/ Error \/ RouteAnswered \/ RouteIgnored
  BY <1>6 DEF Load, Error, RouteAnswered, RouteIgnored
<1>7. ASSUME NEW block \in Point, NEW heading \in Heading \cup {None}, Fix(block, heading)
      PROVE  PlacesStep
  BY <1>7 DEF Fix
<1>8. CASE Frame \/ FollowChanges \/ DragStart \/ DragEnd \/ Resume \/ Locate
  BY <1>8 DEF Frame, FollowChanges, DragStart, DragEnd, Resume, Locate
<1>9. CASE UNCHANGED vars  BY <1>9 DEF vars, places
<1> QED BY <1>1, <1>2, <1>3, <1>4, <1>5, <1>6, <1>7, <1>8, <1>9 DEF Next

-----------------------------------------------------------------------------
(* Steps of the search field and of the picker *)

FieldSteps(text) == OpenSheet(text) \/ Type(text)

LEMMA SearchTyped ==
  ASSUME PlacesTypeOK, field.asked \in Maybe,
         CloseSheet \/ Search \/ SearchAnswered \/ OpenPicker \/ Select
           \/ \E text \in Point : FieldSteps(text)
  PROVE  field' \in Form
<1>1. CASE CloseSheet  BY <1>1, EmptyIsAPoint DEF CloseSheet, ClosedField, Form, Maybe
<1>2. CASE Search  BY <1>2 DEF Search, PlacesTypeOK, Form, Maybe
<1>3. CASE SearchAnswered
  <2>1. CASE field.asked # None /\ \E found \in {field.asked, None} :
               field' = [field EXCEPT !.asked = None, !.results = found]
    BY <2>1 DEF PlacesTypeOK, Form, Maybe
  <2>2. CASE \E query \in field.late : field' = [field EXCEPT !.late = @ \ {query}]
    BY <2>2 DEF PlacesTypeOK, Form
  <2> QED BY <1>3, <2>1, <2>2 DEF SearchAnswered
<1>4. CASE OpenPicker  BY <1>4, EmptyIsAPoint DEF OpenPicker, ClosedField, Form, Maybe
<1>5. CASE Select  BY <1>5, EmptyIsAPoint DEF Select, ClosedField, Form, Maybe
<1>6. ASSUME NEW text \in Point, OpenSheet(text) PROVE field' \in Form
  BY <1>6 DEF OpenSheet, ClosedField, Form, Maybe
<1>7. ASSUME NEW text \in Point, Type(text) PROVE field' \in Form
  <2>1. Replaced(field) \in SUBSET Maybe  BY DEF PlacesTypeOK, Form, Replaced
  <2> QED BY <1>7, <2>1 DEF Type, Typed, PlacesTypeOK, Form, Maybe
<1> QED BY <1>1, <1>2, <1>3, <1>4, <1>5, <1>6, <1>7 DEF FieldSteps

LEMMA PickerTyped ==
  ASSUME PlacesTypeOK,
         OpenPicker \/ ClosePicker \/ Settle \/ AddressAnswered \/ Confirm
           \/ \E point \in Point : Pan(point)
  PROVE  picker' \in Picker
<1>1. CASE OpenPicker
  <2>1. (IF drop = NoDrop THEN Pickup ELSE drop.point) \in Maybe
    BY EmptyIsAPoint DEF PlacesTypeOK, Drop, Maybe
  <2> QED BY <1>1, <2>1 DEF OpenPicker, ClosedPicker, Picker, Maybe
<1>2. CASE ClosePicker \/ Confirm  BY <1>2, ClosedTyped DEF ClosePicker, Confirm
<1>3. CASE Settle
  <2>1. Replaced(picker) \in SUBSET Maybe  BY DEF PlacesTypeOK, Picker, Replaced
  <2> QED BY <1>3, <2>1 DEF Settle, PlacesTypeOK, Picker
<1>4. CASE AddressAnswered
  <2>1. CASE Resolving /\ \E address \in {picker.asked, None} :
               picker' = [picker EXCEPT !.asked = None, !.address = address]
    BY <2>1 DEF PlacesTypeOK, Picker, Maybe
  <2>2. CASE \E point \in picker.late : picker' = [picker EXCEPT !.late = @ \ {point}]
    BY <2>2 DEF PlacesTypeOK, Picker
  <2> QED BY <1>4, <2>1, <2>2 DEF AddressAnswered
<1>5. ASSUME NEW point \in Point, Pan(point) PROVE picker' \in Picker
  BY <1>5 DEF Pan, PlacesTypeOK, Picker, Maybe
<1> QED BY <1>1, <1>2, <1>3, <1>4, <1>5

LEMMA PlacesTypeStep == PlacesTypeOK /\ PlacesStep => PlacesTypeOK'
<1> SUFFICES ASSUME PlacesTypeOK, PlacesStep PROVE PlacesTypeOK'  OBVIOUS
<1>0. field.asked \in Maybe  BY DEF PlacesTypeOK, Form
<1>1. drop' \in Drop
  <2>1. CASE LookAround
    BY <2>1 DEF LookAround, CloseSheet, Search, SearchAnswered, OpenPicker, ClosePicker,
                Settle, AddressAnswered, OpenSheet, Type, Pan, PlacesTypeOK
  <2>2. CASE Select  BY <2>2 DEF Select, PlacesTypeOK, Drop, Form
  <2>3. CASE Confirm  BY <2>3 DEF Confirm, PlacesTypeOK, Drop, Picker
  <2>4. CASE drop' = NoDrop  BY <2>4 DEF NoDrop, Drop, Maybe
  <2>5. CASE UNCHANGED places  BY <2>5 DEF places, PlacesTypeOK
  <2> QED BY <2>1, <2>2, <2>3, <2>4, <2>5 DEF PlacesStep
<1>2. field' \in Form
  <2>1. CASE CloseSheet \/ Search \/ SearchAnswered \/ OpenPicker \/ Select
               \/ \E text \in Point : FieldSteps(text)
    BY <1>0, <2>1, SearchTyped
  <2>2. CASE field' = field  BY <2>2 DEF PlacesTypeOK
  <2> QED BY <2>1, <2>2 DEF PlacesStep, LookAround, FieldSteps, ClosePicker, Settle,
                            AddressAnswered, Pan, Confirm, places
<1>3. picker' \in Picker
  <2>1. CASE OpenPicker \/ ClosePicker \/ Settle \/ AddressAnswered \/ Confirm
               \/ \E point \in Point : Pan(point)
    BY <2>1, PickerTyped
  <2>2. CASE picker' = picker  BY <2>2 DEF PlacesTypeOK
  <2> QED BY <2>1, <2>2 DEF PlacesStep, LookAround, CloseSheet, Search, SearchAnswered,
                            OpenSheet, Type, Select, places
<1> QED BY <1>1, <1>2, <1>3 DEF PlacesTypeOK

-----------------------------------------------------------------------------
LEMMA PointsStep == PlacesTypeOK /\ PointsKnown /\ PlacesStep => PointsKnown'
<1> SUFFICES ASSUME PlacesTypeOK, PointsKnown, PlacesStep PROVE PointsKnown'
  OBVIOUS
<1> USE DEF PointsKnown
<1>0. picker \in Picker  BY DEF PlacesTypeOK
<1>1. CASE OpenPicker
  <2>1. drop' = drop /\ (IF drop = NoDrop THEN Pickup ELSE drop.point) # None
    BY <1>1, EmptyIsAPoint, NoneIsNoPoint DEF OpenPicker
  <2> QED BY <1>1, <2>1 DEF OpenPicker, ClosedPicker
<1>2. CASE ClosePicker  BY <1>2, ClosedTyped DEF ClosePicker
<1>3. CASE Settle  BY <1>0, <1>3 DEF Settle, Picker
<1>4. CASE AddressAnswered
  <2>1. CASE \E address \in {picker.asked, None} :
               picker' = [picker EXCEPT !.asked = None, !.address = address]
    BY <1>0, <1>4, <2>1 DEF AddressAnswered, Picker
  <2>2. CASE \E point \in picker.late : picker' = [picker EXCEPT !.late = @ \ {point}]
    BY <1>0, <1>4, <2>2 DEF AddressAnswered, Picker
  <2> QED BY <1>4, <2>1, <2>2 DEF AddressAnswered
<1>5. ASSUME NEW point \in Point, Pan(point) PROVE PointsKnown'
  BY <1>0, <1>5, NoneIsNoPoint DEF Pan, Picker
<1>6. CASE Confirm  BY <1>6, ClosedTyped DEF Confirm
<1>7. CASE Select  BY <1>7 DEF Select
<1>8. CASE UNCHANGED <<drop, picker>>  BY <1>8
<1>9. CASE drop' = NoDrop /\ picker' = picker  BY <1>9
<1> QED BY <1>1, <1>2, <1>3, <1>4, <1>5, <1>6, <1>7, <1>8, <1>9
        DEF PlacesStep, LookAround, CloseSheet, Search, SearchAnswered, OpenSheet, Type, places

LEMMA AddressStep ==
  PlacesTypeOK /\ PointsKnown /\ AddressIsCurrent /\ PlacesStep => AddressIsCurrent'
<1> SUFFICES ASSUME PlacesTypeOK, PointsKnown, AddressIsCurrent, PlacesStep
             PROVE  AddressIsCurrent'
  OBVIOUS
<1> USE DEF AddressIsCurrent
<1>0. picker \in Picker  BY DEF PlacesTypeOK
<1>1. CASE OpenPicker  BY <1>1 DEF OpenPicker, ClosedPicker
<1>2. CASE ClosePicker \/ Confirm  BY <1>2 DEF ClosePicker, Confirm, ClosedPicker
<1>3. CASE Settle  BY <1>0, <1>3 DEF Settle, Picker, PointsKnown
<1>4. CASE AddressAnswered
  <2>1. CASE Resolving /\ \E address \in {picker.asked, None} :
               picker' = [picker EXCEPT !.asked = None, !.address = address]
    <3>1. picker.asked = picker.center  BY <2>1 DEF Resolving
    <3> QED BY <1>0, <2>1, <3>1 DEF Picker
  <2>2. CASE \E point \in picker.late : picker' = [picker EXCEPT !.late = @ \ {point}]
    BY <1>0, <2>2 DEF Picker
  <2> QED BY <1>4, <2>1, <2>2 DEF AddressAnswered
<1>5. ASSUME NEW point \in Point, Pan(point) PROVE AddressIsCurrent'
  BY <1>0, <1>5 DEF Pan, Picker
<1>6. CASE picker' = picker  BY <1>6
<1> QED BY <1>1, <1>2, <1>3, <1>4, <1>5, <1>6
        DEF PlacesStep, LookAround, CloseSheet, Search, SearchAnswered, OpenSheet, Type,
            Select, places

LEMMA SearchStep == PlacesTypeOK /\ SearchIsCurrent /\ PlacesStep => SearchIsCurrent'
<1> SUFFICES ASSUME PlacesTypeOK, SearchIsCurrent, PlacesStep PROVE SearchIsCurrent'
  OBVIOUS
<1> USE DEF SearchIsCurrent
<1>0. field \in Form  BY DEF PlacesTypeOK
<1>1. CASE CloseSheet \/ OpenPicker \/ Select
  BY <1>1 DEF CloseSheet, OpenPicker, Select, ClosedField
<1>2. CASE Search  BY <1>0, <1>2, NoneIsNoPoint DEF Search, Form
<1>3. CASE SearchAnswered
  <2>1. CASE field.asked # None /\ \E found \in {field.asked, None} :
               field' = [field EXCEPT !.asked = None, !.results = found]
    BY <1>0, <2>1 DEF Form
  <2>2. CASE \E query \in field.late : field' = [field EXCEPT !.late = @ \ {query}]
    BY <1>0, <2>2 DEF Form
  <2> QED BY <1>3, <2>1, <2>2 DEF SearchAnswered
<1>4. ASSUME NEW text \in Point, OpenSheet(text) PROVE SearchIsCurrent'
  BY <1>4 DEF OpenSheet, ClosedField
<1>5. ASSUME NEW text \in Point, Type(text) PROVE SearchIsCurrent'
  BY <1>0, <1>5 DEF Type, Typed, Form
<1>6. CASE field' = field  BY <1>6
<1> QED BY <1>1, <1>2, <1>3, <1>4, <1>5, <1>6
        DEF PlacesStep, LookAround, ClosePicker, Settle, AddressAnswered, Pan, Confirm, places

LEMMA FitsStep ==
  PlacesTypeOK /\ AddressIsCurrent /\ ConfirmedAddressFits /\ PlacesStep
    => ConfirmedAddressFits'
<1> SUFFICES ASSUME PlacesTypeOK, AddressIsCurrent, ConfirmedAddressFits, PlacesStep
             PROVE  ConfirmedAddressFits'
  OBVIOUS
<1> USE DEF ConfirmedAddressFits
<1>1. CASE Select  BY <1>1 DEF Select
<1>2. CASE Confirm
  <2>1. picker.address \in {None, picker.center}
    BY <1>2 DEF Confirm, Resolving, AddressIsCurrent
  <2> QED BY <1>2, <2>1 DEF Confirm
<1>3. CASE drop' = NoDrop  BY <1>3 DEF NoDrop
<1>4. CASE drop' = drop  BY <1>4 DEF NoDrop
<1> QED BY <1>1, <1>2, <1>3, <1>4
        DEF PlacesStep, LookAround, CloseSheet, Search, SearchAnswered, OpenPicker,
            ClosePicker, Settle, AddressAnswered, OpenSheet, Type, Pan, places

LEMMA PlacesInvariant == Spec => []PlacesInv
<1>1. Init => PlacesInv
  BY EmptyIsAPoint
  DEF Init, PlacesInit, PlacesInv, PlacesTypeOK, PointsKnown, AddressIsCurrent, SearchIsCurrent,
      ConfirmedAddressFits, NoDrop, ClosedField, ClosedPicker, Drop, Form, Picker, Maybe
<1>2. PlacesInv /\ [Next]_vars => PlacesInv'
  BY StepOnPlaces, PlacesTypeStep, PointsStep, AddressStep, SearchStep, FitsStep DEF PlacesInv
<1> QED BY <1>1, <1>2, PTL DEF Spec

(* The address booked is the one of the point booked, on streets of any       *)
(* length and whichever lookups overtake each other.                          *)
THEOREM AddressFits == Spec => []ConfirmedAddressFits
<1>1. PlacesInv => ConfirmedAddressFits  BY DEF PlacesInv
<1> QED BY <1>1, PlacesInvariant, PTL

(* A settled search shows what was found for the text in the field, or        *)
(* nothing.                                                                   *)
THEOREM SuggestionsFit == Spec => []SuggestionsFitText
<1>1. PlacesInv => SuggestionsFitText
  BY DEF PlacesInv, SearchIsCurrent, SuggestionsFitText
<1> QED BY <1>1, PlacesInvariant, PTL

-----------------------------------------------------------------------------
(* The route and the follow camera *)

Route == [asked : Maybe, late : SUBSET Maybe, line : Maybe, at : Maybe, info : Maybe]

SceneTypeOK ==
  /\ page \in {"home", "booking", "ride"}
  /\ map \in [load : {"loading", "ready"}, failed : BOOLEAN]
  /\ route \in Route
  /\ follow \in [on : BOOLEAN, paused : BOOLEAN, held : BOOLEAN, timer : BOOLEAN]

(* Only the route to the destination of this moment is awaited. *)
RouteIsCurrent == route.asked # None => Routed /\ route.asked = drop.point

(* A held map follows nothing and has no timer that would make it. *)
HeldIsPaused ==
  follow.held => follow.on /\ follow.paused /\ ~follow.timer /\ map.load = "ready"

SceneInv == PlacesTypeOK /\ SceneTypeOK /\ RouteIsCurrent /\ HeldIsPaused

(* What the steps do to the page, its map, its route and the camera. *)
Edits ==
  /\ drop'.point \in Maybe
  /\ route' = RouteAfter(drop'.point)
  /\ UNCHANGED <<page, map, follow, view>>
Still == UNCHANGED <<drop, page, map, route, follow, view>>
Answers == RouteAnswered \/ RouteIgnored
Drives == \E block \in Point, heading \in Heading \cup {None} : Fix(block, heading)
Follows == FollowChanges \/ DragStart \/ DragEnd \/ Resume

SceneStep ==
  \/ Still \/ Edits \/ Load \/ Error \/ Answers \/ Drives \/ Follows \/ Locate
  \/ \E next \in {"home", "booking", "ride"} : GoTo(next)

LEMMA StepOnScene == PlacesTypeOK /\ [Next]_vars => SceneStep
<1> SUFFICES ASSUME PlacesTypeOK, [Next]_vars PROVE SceneStep  OBVIOUS
<1> USE DEF SceneStep
<1>1. CASE Browse
  <2>1. drop' = drop
    BY <1>1 DEF Browse, LookAround, CloseSheet, Search, SearchAnswered, OpenPicker,
                ClosePicker, Settle, AddressAnswered, OpenSheet, Type, Pan
  <2> QED BY <1>1, <2>1 DEF Browse, scene, Still
<1>2. CASE SelectPlace
  <2>1. drop'.point \in Maybe  BY <1>2 DEF SelectPlace, Select, PlacesTypeOK, Form, Maybe
  <2> QED BY <1>2, <2>1 DEF SelectPlace, Edits
<1>3. CASE ConfirmPlace
  <2>1. drop'.point \in Maybe  BY <1>3 DEF ConfirmPlace, Confirm, PlacesTypeOK, Picker
  <2> QED BY <1>3, <2>1 DEF ConfirmPlace, Edits
<1>4. CASE Back \/ BookRide \/ RideEnds  BY <1>4 DEF Back, BookRide, RideEnds
<1>5. CASE Frame  BY <1>5 DEF Frame, places, Still
<1>6. CASE UNCHANGED vars  BY <1>6 DEF vars, Still
<1>7. CASE \E block \in Point, heading \in Heading \cup {None} : Fix(block, heading)
  BY <1>7 DEF Drives
<1> QED BY <1>1, <1>2, <1>3, <1>4, <1>5, <1>6, <1>7 DEF Next, Answers, Follows

LEMMA AskTyped ==
  ASSUME SceneTypeOK, NEW point \in Maybe
  PROVE  AskRoute(point) \in Route /\ AskRoute(point).asked = point
BY DEF AskRoute, SceneTypeOK, Route

(* What GoTo leaves behind. *)
LEMMA Opened ==
  ASSUME NEW next \in {"home", "booking", "ride"}, GoTo(next)
  PROVE  SceneTypeOK' /\ RouteIsCurrent' /\ HeldIsPaused'
<1>1. route' = NoRoute /\ route' \in Route /\ route'.asked = None
  BY DEF GoTo, NoRoute, Route, Maybe
<1>2. PICK on \in {FALSE, next = "ride"} : follow' = [Unfollowed EXCEPT !.on = on]
  BY DEF GoTo
<1>3. /\ follow' \in [on : BOOLEAN, paused : BOOLEAN, held : BOOLEAN, timer : BOOLEAN]
      /\ ~follow'.held
  BY <1>2 DEF Unfollowed
<1>4. map' \in [load : {"loading", "ready"}, failed : BOOLEAN]  BY DEF GoTo, Mounted
<1>5. page' \in {"home", "booking", "ride"}  BY DEF GoTo
<1> QED BY <1>1, <1>3, <1>4, <1>5 DEF SceneTypeOK, RouteIsCurrent, HeldIsPaused

LEMMA RouteStep ==
  PlacesTypeOK /\ SceneTypeOK /\ RouteIsCurrent /\ SceneStep
    => route' \in Route /\ RouteIsCurrent'
<1> SUFFICES ASSUME PlacesTypeOK, SceneTypeOK, RouteIsCurrent, SceneStep
             PROVE  route' \in Route /\ RouteIsCurrent'
  OBVIOUS
<1>0. route \in Route /\ drop.point \in Maybe  BY DEF SceneTypeOK, PlacesTypeOK, Drop
<1>1. CASE Still  BY <1>0, <1>1 DEF Still, RouteIsCurrent, Routed
<1>2. CASE Edits
  <2>1. CASE Routed /\ drop'.point # drop.point
    <3>1. route' = AskRoute(drop'.point)  BY <1>2, <2>1 DEF Edits, RouteAfter
    <3> QED BY <1>2, <2>1, <3>1, AskTyped DEF Edits, RouteIsCurrent, Routed
  <2>2. CASE ~(Routed /\ drop'.point # drop.point)
    BY <1>0, <1>2, <2>2 DEF Edits, RouteAfter, RouteIsCurrent, Routed
  <2> QED BY <2>1, <2>2
<1>3. CASE Load
  <2>1. map'.load = "ready" /\ page' = page /\ drop' = drop
    BY <1>3 DEF Load, places, SceneTypeOK
  <2>2. CASE page # "home" /\ drop # NoDrop
    <3>1. route' = AskRoute(drop.point)  BY <1>3, <2>2 DEF Load
    <3> QED BY <1>0, <2>1, <2>2, <3>1, AskTyped DEF RouteIsCurrent, Routed, SceneTypeOK
  <2>3. CASE ~(page # "home" /\ drop # NoDrop)
    <3>1. route' = route /\ ~Routed  BY <1>3, <2>3 DEF Load, Routed
    <3> QED BY <1>0, <3>1 DEF RouteIsCurrent
  <2> QED BY <2>2, <2>3
<1>4. CASE Error
  <2>1. map'.load = map.load /\ page' = page /\ drop' = drop /\ route' = route
    BY <1>4 DEF Error, places, SceneTypeOK
  <2> QED BY <1>0, <2>1 DEF RouteIsCurrent, Routed
<1>5. CASE Answers
  <2>1. route' \in Route /\ route'.asked \in {None, route.asked}
    <3>1. CASE RouteAnswered  BY <1>0, <3>1 DEF RouteAnswered, Route, Maybe, Pickup, Point
    <3>2. CASE route' = [route EXCEPT !.asked = None]  BY <1>0, <3>2 DEF Route, Maybe
    <3>3. CASE \E point \in route.late : route' = [route EXCEPT !.late = @ \ {point}]
      BY <1>0, <3>3 DEF Route
    <3> QED BY <1>5, <3>1, <3>2, <3>3 DEF Answers, RouteIgnored
  <2>2. page' = page /\ map' = map /\ drop' = drop
    BY <1>5 DEF Answers, RouteAnswered, RouteIgnored, places
  <2> QED BY <2>1, <2>2 DEF RouteIsCurrent, Routed
<1>6. ASSUME NEW block \in Point, NEW heading \in Heading \cup {None}, Fix(block, heading)
      PROVE  route' \in Route /\ RouteIsCurrent'
  <2>1. route' \in {route, [route EXCEPT !.at = block]}  BY <1>6 DEF Fix, Trim
  <2>2. route' \in Route /\ route'.asked = route.asked  BY <1>0, <2>1 DEF Route, Maybe
  <2> QED BY <1>6, <2>2 DEF Fix, places, RouteIsCurrent, Routed
<1>7. CASE Follows \/ Locate
  BY <1>0, <1>7 DEF Follows, FollowChanges, DragStart, DragEnd, Resume, Locate, places,
                    RouteIsCurrent, Routed
<1>8. CASE \E next \in {"home", "booking", "ride"} : GoTo(next)
  BY <1>8, Opened DEF SceneTypeOK
<1> QED BY <1>1, <1>2, <1>3, <1>4, <1>5, <1>6, <1>7, <1>8 DEF SceneStep, Drives

LEMMA MapStep ==
  SceneTypeOK /\ HeldIsPaused /\ SceneStep
    => /\ page' \in {"home", "booking", "ride"}
       /\ map' \in [load : {"loading", "ready"}, failed : BOOLEAN]
       /\ follow' \in [on : BOOLEAN, paused : BOOLEAN, held : BOOLEAN, timer : BOOLEAN]
       /\ HeldIsPaused'
<1> SUFFICES ASSUME SceneTypeOK, HeldIsPaused, SceneStep
             PROVE  /\ page' \in {"home", "booking", "ride"}
                    /\ map' \in [load : {"loading", "ready"}, failed : BOOLEAN]
                    /\ follow' \in [on : BOOLEAN, paused : BOOLEAN, held : BOOLEAN, timer : BOOLEAN]
                    /\ HeldIsPaused'
  OBVIOUS
<1> USE DEF HeldIsPaused, SceneTypeOK
<1>1. CASE UNCHANGED <<page, map, follow>>  BY <1>1
<1>2. CASE Load  BY <1>2 DEF Load
<1>3. CASE Error  BY <1>3 DEF Error
<1>4. CASE FollowChanges  BY <1>4 DEF FollowChanges
<1>5. CASE DragStart  BY <1>5 DEF DragStart
<1>6. CASE DragEnd  BY <1>6 DEF DragEnd
<1>7. CASE Resume  BY <1>7 DEF Resume
<1>8. CASE \E next \in {"home", "booking", "ride"} : GoTo(next)
  BY <1>8, Opened
<1>9. ASSUME NEW block \in Point, NEW heading \in Heading \cup {None}, Fix(block, heading)
      PROVE  UNCHANGED <<page, map, follow>>
  BY <1>9 DEF Fix
<1> QED BY <1>1, <1>2, <1>3, <1>4, <1>5, <1>6, <1>7, <1>8, <1>9
        DEF SceneStep, Still, Edits, Answers, RouteAnswered, RouteIgnored, Drives, Follows, Locate

LEMMA SceneInvariant == Spec => [](PlacesInv /\ SceneInv)
<1>1. Init => SceneInv
  <2> SUFFICES ASSUME Init PROVE SceneInv  OBVIOUS
  <2>1. route \in Route /\ route.asked = None  BY DEF Init, NoRoute, Route, Maybe
  <2>2. /\ follow \in [on : BOOLEAN, paused : BOOLEAN, held : BOOLEAN, timer : BOOLEAN]
        /\ ~follow.held
    BY DEF Init, Unfollowed
  <2>3. page = "home" /\ map \in [load : {"loading", "ready"}, failed : BOOLEAN]
    BY DEF Init, Mounted
  <2>4. PlacesTypeOK
    BY EmptyIsAPoint
    DEF Init, PlacesInit, PlacesTypeOK, NoDrop, ClosedField, ClosedPicker, Drop, Form, Picker,
        Maybe
  <2> QED BY <2>1, <2>2, <2>3, <2>4 DEF SceneInv, SceneTypeOK, RouteIsCurrent, HeldIsPaused
<1>2. SceneInv /\ [Next]_vars => SceneInv'
  <2> SUFFICES ASSUME SceneInv, [Next]_vars PROVE SceneInv'  OBVIOUS
  <2>1. PlacesTypeOK'  BY StepOnPlaces, PlacesTypeStep DEF SceneInv
  <2>2. SceneStep  BY StepOnScene DEF SceneInv
  <2>3. route' \in Route /\ RouteIsCurrent'
    BY <2>2, RouteStep DEF SceneInv
  <2> QED BY <2>1, <2>2, <2>3, MapStep DEF SceneInv, SceneTypeOK
<1> QED BY <1>1, <1>2, PlacesInvariant, PTL DEF Spec

(* Whichever fetches overtake each other while the destination is edited, the *)
(* route and the distance shown are only replaced by those to the destination *)
(* of the moment.                                                             *)
THEOREM RouteFits == Spec => RouteFitsTrip
<1> DEFINE Fits == (route'.line # route.line \/ route'.info # route.info) /\ route'.line # None
                     => route'.line = drop'.point /\ route'.info = drop'.point
<1>1. SceneInv /\ [Next]_vars => Fits
  <2> SUFFICES ASSUME SceneInv, [Next]_vars PROVE Fits  OBVIOUS
  <2>0. route \in Route  BY DEF SceneInv, SceneTypeOK
  <2>1. SceneStep  BY StepOnScene DEF SceneInv
  <2>2. ASSUME NEW point, route' = AskRoute(point) PROVE Fits
    BY <2>0, <2>2 DEF AskRoute, Route
  <2>3. CASE route' = route  BY <2>3
  <2>4. CASE RouteAnswered
    BY <2>0, <2>4 DEF RouteAnswered, Route, SceneInv, RouteIsCurrent, places
  <2>5. CASE RouteIgnored  BY <2>0, <2>5 DEF RouteIgnored, Route
  <2>6. ASSUME NEW block \in Point, NEW heading \in Heading \cup {None}, Fix(block, heading)
        PROVE  Fits
    <3>1. route' \in {route, [route EXCEPT !.at = block]}  BY <2>6 DEF Fix, Trim
    <3> QED BY <2>0, <3>1 DEF Route
  <2>7. CASE \E next \in {"home", "booking", "ride"} : GoTo(next)
    <3>1. route'.line = None  BY <2>7 DEF GoTo, NoRoute
    <3> QED BY <3>1
  <2> HIDE DEF Fits
  <2> QED BY <2>1, <2>2, <2>3, <2>4, <2>5, <2>6, <2>7
          DEF SceneStep, Still, Edits, RouteAfter, Load, Error, Answers, Drives, Follows,
              FollowChanges, DragStart, DragEnd, Resume, Locate
<1>2. SceneInv /\ [Next]_vars => [Fits]_vars  BY <1>1
<1> QED BY <1>2, SceneInvariant, PTL DEF Spec, RouteFitsTrip

(* No fix and no timer moves the map from under the rider's finger. *)
THEOREM KeepsMap == Spec => UserKeepsTheMap
<1> DEFINE Keeps == follow.held /\ follow'.held /\ view' # view => view' \in {"trip", "here"}
<1>1. SceneInv /\ [Next]_vars => Keeps
  <2> SUFFICES ASSUME SceneInv, [Next]_vars, follow.held, follow'.held PROVE Keeps  OBVIOUS
  <2>1. SceneStep  BY StepOnScene DEF SceneInv
  <2>2. follow.on /\ follow.paused /\ map.load = "ready"  BY DEF SceneInv, HeldIsPaused
  <2>3. CASE view' = view  BY <2>3
  <2>4. CASE view' \in {"trip", "here"}  BY <2>4
  <2>5. CASE Load \/ DragStart  BY <2>2, <2>5 DEF Load, DragStart
  <2>6. CASE FollowChanges  BY <2>2, <2>6 DEF FollowChanges, SceneInv, SceneTypeOK
  <2>7. ASSUME NEW block \in Point, NEW heading \in Heading \cup {None}, Fix(block, heading)
        PROVE  view' = view
    BY <2>2, <2>7 DEF Fix
  <2>8. ASSUME NEW next \in {"home", "booking", "ride"}, GoTo(next) PROVE FALSE
    BY <2>8 DEF GoTo, Unfollowed
  <2> QED BY <2>1, <2>3, <2>4, <2>5, <2>6, <2>7, <2>8
          DEF SceneStep, Still, Edits, Error, Answers, RouteAnswered, RouteIgnored, Drives,
              Follows, DragEnd, Resume, Locate
<1>2. SceneInv /\ [Next]_vars => [Keeps]_vars  BY <1>1
<1> QED BY <1>2, SceneInvariant, PTL DEF Spec, UserKeepsTheMap
=============================================================================
