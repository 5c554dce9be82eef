------------------------------ MODULE Contact ------------------------------
(* How the sides of a ride and the platform reach each other: the driver's   *)
(* screen with the offers, the ride's room and chat, the emergency alerts,   *)
(* the ratings afterwards, the lists of notifications and tickets, and the   *)
(* rider's saved places.  The room, the alerts and the ratings depend on the *)
(* ride, and a driver on his way is not on the screen with the offers; the   *)
(* lists and the places are on their own.                                    *)
EXTENDS OfferScreen, RideChannel, SosAlerts, Ratings, Inbox, SavedPlaces

ridden == <<ride, driver, messages>>
vars == <<ridden, offering, channel, sos, rated, inbox, saved>>

Init == OfferingInit /\ ChannelInit /\ SosInit /\ RatingsInit /\ InboxInit /\ PlacesSavedInit

Ask   == ~Committed /\ OfferingNext /\ UNCHANGED <<ridden, channel, sos, rated, inbox, saved>>
Talk  == ChannelNext /\ UNCHANGED <<offering, sos, rated, inbox, saved>>
Alert == SosNext /\ UNCHANGED <<ridden, offering, channel, rated, inbox, saved>>
Rate  == ride = "over" /\ RatingsNext
           /\ UNCHANGED <<ridden, offering, channel, sos, inbox, saved>>
Read  == InboxNext /\ UNCHANGED <<ridden, offering, channel, sos, rated, saved>>
Keep  == PlacesSavedNext /\ UNCHANGED <<ridden, offering, channel, sos, rated, inbox>>
GoOn  == (TakenOff \/ \E role \in Role : Advance(role))
           /\ UNCHANGED <<offering, sos, rated, inbox, saved>>

Next == Ask \/ Talk \/ Alert \/ Rate \/ Read \/ Keep \/ GoOn

Spec == Init /\ [][Next]_vars
=============================================================================
