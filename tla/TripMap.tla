------------------------------ MODULE TripMap ------------------------------
(***************************************************************************)
(* The map of the rider's app (PremiumMap) on its pages: on /home it shows *)
(* the place of the rider, on /booking the route to a destination that can *)
(* still be changed with PlacePicker's sheet or map, and on /ride the car, *)
(* which glides and turns between fixes, the route trimmed behind it, and  *)
(* a camera that follows it unless the rider holds the map.  The driver's  *)
(* ride page shows the same component with the same properties.            *)
(*                                                                         *)
(* Effects run in the step that changes what they depend on.  The street   *)
(* is a line: the route to d is its blocks 0 .. d.  An animation has       *)
(* Frames frames; angles are counted in eighths of a turn.                  *)
(***************************************************************************)
EXTENDS PlacePicker, Integers

CONSTANT Heading   \* headings a device may report, apart from none

ASSUME HeadingAssumption == Heading \subseteq 0 .. 7

VARIABLES page,     \* "home", "booking" or "ride"
          map,      \* the MapLibre instance of the page: loading or ready, failed
          route,    \* fetches under way, the line on the map, the km told to the page
          car,      \* the live marker: its glide and its turn
          follow,   \* the follow camera
          view      \* what the camera was last moved to

scene == <<page, map, route, car, follow, view>>
vars == <<drop, field, picker, page, map, route, car, follow, view>>

Frames == 2
Turn == 8

-----------------------------------------------------------------------------
(* Gliding and turning *)

(* Interpolates an angle along the shorter arc. *)
Arc(from, to) == ((to - from + Turn + Turn \div 2) % Turn) - Turn \div 2
LerpAngle(from, to, frame) == (from + (Arc(from, to) * frame) \div Frames + Turn) % Turn

(* Half a block is one unit. *)
Lerp(from, to, frame) == from + ((to - from) * frame) \div Frames

NoCar == [from |-> None, to |-> None, frame |-> Frames,
          turnFrom |-> 0, turnTo |-> 0, turnFrame |-> Frames, heading |-> None]

Shown(c) == Lerp(c.from, c.to, c.frame)
Facing(c) == LerpAngle(c.turnFrom, c.turnTo, c.turnFrame)

(* A new target starts from where the marker is now, not from the last one. *)
Glide(c, to) ==
  IF c.to = None THEN [c EXCEPT !.from = to, !.to = to]
  ELSE [c EXCEPT !.from = Shown(c), !.to = to, !.frame = 0]

Bearing(from, to) == IF to > from THEN 0 ELSE Turn \div 2

(* The device's heading if it has one, else the bearing of the last two fixes *)
(* if they are far enough apart; otherwise the turn under way just stops.     *)
Steer(c, to, heading) ==
  LET still == [c EXCEPT !.heading = heading, !.turnFrom = Facing(c), !.turnTo = Facing(c),
                         !.turnFrame = Frames]
      towards(angle) == [still EXCEPT !.turnTo = angle, !.turnFrame = 0]
  IN  CASE heading # None                 -> towards(heading)
        [] heading = None /\ c.to \notin {None, to} -> towards(Bearing(c.to, to))
        [] OTHER                          -> still

-----------------------------------------------------------------------------
(* The route *)

NoRoute == [asked |-> None, late |-> {}, line |-> None, at |-> None, info |-> None]

(* The effect on pickup and drop: asks for the route, cancelling the fetch    *)
(* before it; the line drawn stays until the answer replaces it.              *)
AskRoute(point) ==
  [route EXCEPT !.asked = point,
                !.late = @ \cup ({route.asked} \ {None})]

Routed == page \in {"booking", "ride"} /\ map.load = "ready"

(* A new point on a map that shows a route starts the effect again. *)
RouteAfter(point) ==
  IF Routed /\ point # drop.point THEN AskRoute(point) ELSE route

Mounted == [load |-> "loading", failed |-> FALSE]
Unfollowed == [on |-> FALSE, paused |-> FALSE, held |-> FALSE, timer |-> FALSE]

(* Another page has a map of its own, and an old page's answers go nowhere. *)
GoTo(next) ==
  /\ page' = next
  /\ map' = Mounted
  /\ route' = NoRoute
  /\ car' = NoCar
  /\ \E on \in {FALSE, next = "ride"} : follow' = [Unfollowed EXCEPT !.on = on]
  /\ view' = "start"

Trim(r, to) == IF r.line # None /\ to < r.line THEN [r EXCEPT !.at = to] ELSE r

(* The follow camera eases to the car unless it is paused. *)
Following(f) == map.load = "ready" /\ f.on /\ ~f.paused /\ car.to # None

-----------------------------------------------------------------------------
(* The map *)

Load ==
  /\ map.load = "loading"
  /\ map' = [map EXCEPT !.load = "ready"]
  /\ route' = IF page # "home" /\ drop # NoDrop THEN AskRoute(drop.point) ELSE route
  /\ view' = IF follow.on /\ car.to # None THEN "car" ELSE view
  /\ UNCHANGED <<places, page, car, follow>>

(* An error before the first load shows "Map failed to load"; later ones are  *)
(* only logged.                                                               *)
Error ==
  /\ map.load = "loading" /\ ~map.failed
  /\ map' = [map EXCEPT !.failed = TRUE]
  /\ UNCHANGED <<places, page, route, car, follow, view>>

(* Mutation: an answer is drawn even if the effect it belongs to is over. *)
RouteAnsweredAny ==
  /\ Routed
  /\ \E point \in route.late \cup ({route.asked} \ {None}) :
       route' = [route EXCEPT !.late = @ \ {point}, !.line = point, !.at = Pickup,
                              !.info = point, !.asked = IF @ = point THEN None ELSE @]
  /\ view' = "trip"
  /\ UNCHANGED <<places, page, map, car, follow>>

(* OSRM answers: the line is drawn from the pickup, the page is told the km,  *)
(* the camera fits the trip ...                                               *)
RouteAnswered ==
  /\ route.asked # None
  /\ route' = [route EXCEPT !.asked = None, !.line = route.asked, !.at = Pickup,
                            !.info = route.asked]
  /\ view' = "trip"
  /\ UNCHANGED <<places, page, map, car, follow>>

(* ... or there is no answer, or the style is busy, or the effect is over.    *)
RouteIgnored ==
  /\ \/ route.asked # None /\ route' = [route EXCEPT !.asked = None]
     \/ \E point \in route.late : route' = [route EXCEPT !.late = @ \ {point}]
  /\ UNCHANGED <<places, page, map, car, follow, view>>

-----------------------------------------------------------------------------
(* The car *)

(* A fix arrives from the driver's device: over the socket, from the ride, or *)
(* on the driver's page from its own watch.                                   *)
Fix(block, heading) ==
  LET to == 2 * block IN
  /\ page = "ride"
  /\ <<to, heading>> # <<car.to, car.heading>>
  /\ car' = LET turned == Steer(car, to, heading)
            IN  IF to # car.to THEN [Glide(car, to) EXCEPT
                                       !.turnFrom = turned.turnFrom, !.turnTo = turned.turnTo,
                                       !.turnFrame = turned.turnFrame, !.heading = heading]
                ELSE turned
  /\ route' = IF to # car.to /\ Routed THEN Trim(route, block) ELSE route
  /\ view' = IF to # car.to /\ map.load = "ready" /\ follow.on /\ ~follow.paused
               THEN "car" ELSE view
  /\ UNCHANGED <<places, page, map, follow>>

(* requestAnimationFrame, for whichever animation is under way *)
Frame ==
  /\ car.frame < Frames \/ car.turnFrame < Frames
  /\ LET moved == IF car.frame < Frames THEN car.frame + 1 ELSE Frames
         turned == IF car.turnFrame < Frames THEN car.turnFrame + 1 ELSE Frames
     IN  car' = [car EXCEPT
                   !.frame = moved, !.from = IF moved = Frames THEN car.to ELSE @,
                   !.turnFrame = turned, !.turnFrom = IF turned = Frames THEN car.turnTo ELSE @]
  /\ UNCHANGED <<places, page, map, route, follow, view>>

-----------------------------------------------------------------------------
(* The follow camera *)

(* The status of the ride enters or leaves arriving .. in_progress; an answer *)
(* that comes late may do so more than once.  Leaving clears the timer only.  *)
FollowChanges ==
  /\ page = "ride"
  /\ follow' = IF follow.on THEN [follow EXCEPT !.on = FALSE, !.held = FALSE, !.timer = FALSE]
               ELSE [follow EXCEPT !.on = TRUE]
  /\ view' = IF Following(follow') THEN "car" ELSE view
  /\ UNCHANGED <<places, page, map, route, car>>

(* Mutation: the timer of the drag before goes on running. *)
DragStartAlone ==
  /\ page = "ride" /\ map.load = "ready" /\ ~follow.held
  /\ view' = "dragged"
  /\ follow' = IF follow.on THEN [follow EXCEPT !.paused = TRUE, !.held = TRUE] ELSE follow
  /\ UNCHANGED <<places, page, map, route, car>>

(* held: a drag the listeners, there while follow is on, have heard begin. *)
DragStart ==
  /\ page = "ride" /\ map.load = "ready" /\ ~follow.held
  /\ view' = "dragged"
  /\ follow' = IF follow.on THEN [follow EXCEPT !.paused = TRUE, !.held = TRUE, !.timer = FALSE]
               ELSE follow
  /\ UNCHANGED <<places, page, map, route, car>>

DragEnd ==
  /\ follow.held
  /\ follow' = [follow EXCEPT !.held = FALSE, !.timer = TRUE]
  /\ UNCHANGED <<places, page, map, route, car, view>>

(* Six seconds after the drag *)
Resume ==
  /\ follow.timer
  /\ follow' = [follow EXCEPT !.paused = FALSE, !.timer = FALSE]
  /\ UNCHANGED <<places, page, map, route, car, view>>

(* The button for the current location: its answer moves the camera only. *)
Locate ==
  /\ page = "ride" /\ map.load = "ready"
  /\ view' = "here"
  /\ UNCHANGED <<places, page, map, route, car, follow>>

-----------------------------------------------------------------------------
(* The pages *)

(* The sheet and the map picker are there on /home and /booking. *)
Browse == page # "ride" /\ LookAround /\ UNCHANGED scene

(* A suggestion taken on /home leads on to /booking. *)
SelectPlace ==
  /\ page # "ride"
  /\ Select
  /\ IF page = "home" THEN GoTo("booking")
     ELSE route' = RouteAfter(drop'.point) /\ UNCHANGED <<page, map, car, follow, view>>

(* A point confirmed on the map does not. *)
ConfirmPlace ==
  /\ page # "ride"
  /\ Confirm
  /\ route' = RouteAfter(drop'.point)
  /\ UNCHANGED <<page, map, car, follow, view>>

Back ==
  /\ page = "booking" /\ ~field.open /\ ~picker.open
  /\ GoTo("home")
  /\ UNCHANGED places

BookRide ==
  /\ page = "booking" /\ ~field.open /\ ~picker.open
  /\ GoTo("ride")
  /\ UNCHANGED places

RideEnds ==
  /\ page = "ride"
  /\ GoTo("home")
  /\ drop' = NoDrop
  /\ UNCHANGED <<field, picker>>

Init ==
  /\ PlacesInit
  /\ page = "home" /\ map = Mounted /\ route = NoRoute
  /\ car = NoCar /\ follow = Unfollowed /\ view = "start"

Next ==
  \/ Browse \/ SelectPlace \/ ConfirmPlace \/ Back \/ BookRide \/ RideEnds
  \/ Load \/ Error \/ RouteAnswered \/ RouteIgnored
  \/ \E block \in Point, heading \in Heading \cup {None} : Fix(block, heading)
  \/ Frame
  \/ FollowChanges \/ DragStart \/ DragEnd \/ Resume \/ Locate

Spec == Init /\ [][Next]_vars

-----------------------------------------------------------------------------
(* Properties *)

(* A route, and the distance shown with it, is only ever replaced by the one  *)
(* to the destination of this moment, although fetches overtake each other    *)
(* while the destination is edited (premium-map.tsx:572-618).                 *)
RouteFitsTrip ==
  [][(route'.line # route.line \/ route'.info # route.info) /\ route'.line # None
       => route'.line = drop'.point /\ route'.info = drop'.point]_vars

(* While the rider holds the map, fixes do not move it from under the finger, *)
(* not even when the timer of an earlier drag is still running: only a route  *)
(* or a location the rider has asked for does (premium-map.tsx:666-689).      *)
UserKeepsTheMap ==
  [][follow.held /\ follow'.held /\ view' # view => view' \in {"trip", "here"}]_vars
=============================================================================
