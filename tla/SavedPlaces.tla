---------------------------- MODULE SavedPlaces ----------------------------
(***************************************************************************)
(* A rider's saved places: the section and the dialog of the profile page, *)
(* and POST and DELETE /customer/saved-places.  Home and Work are single   *)
(* slots by a lookup that comes before the write; the table has no index   *)
(* for it.  A page lets one save go at a time, but its requests go on when *)
(* it is left.  Addresses are left out: what matters is which rows a label *)
(* has.                                                                    *)
(***************************************************************************)
EXTENDS Naturals, FiniteSets

CONSTANTS Place,     \* rows of table SavedPlace, of one rider
          Slot,      \* the labels with a single place: home, work
          Anywhere,  \* the label other
          Save,      \* saves under way at once
          Blank      \* null

ASSUME SavedAssumption ==
  /\ IsFiniteSet(Save)
  /\ Anywhere \notin Slot /\ Blank \notin Save \cup Place \cup Slot \cup {Anywhere}

VARIABLES label,     \* [Place -> label], Blank where there is no row
          save,      \* POST /saved-places under way
          profile,   \* the page: list, dialog, what is pending
          removing,  \* DELETE /saved-places/:id under way
          crossed    \* history: slots of which two saves were handled at once

saved == <<label, save, profile, removing, crossed>>

Label == Slot \cup {Anywhere}
Rows == {p \in Place : label[p] # Blank}
RowsOf(slot) == {p \in Place : label[p] = slot}

NoSave   == [at |-> "idle", label |-> Blank, row |-> Blank]
NoDialog == [label |-> Blank, chosen |-> FALSE]
Unopened == [open |-> FALSE, list |-> {}, dialog |-> NoDialog, saving |-> Blank,
             deleting |-> Blank]

-----------------------------------------------------------------------------
(* The page *)

(* A list younger than a minute is not fetched again. *)
OpenProfile ==
  /\ ~profile.open
  /\ \E list \in {Rows, profile.list} :
       profile' = [Unopened EXCEPT !.open = TRUE, !.list = list]
  /\ UNCHANGED <<label, save, removing, crossed>>

LeaveProfile ==
  /\ profile.open
  /\ profile' = [Unopened EXCEPT !.list = profile.list]
  /\ UNCHANGED <<label, save, removing, crossed>>

FetchPlaces ==
  /\ profile.open
  /\ profile' = [profile EXCEPT !.list = Rows]
  /\ UNCHANGED <<label, save, removing, crossed>>

(* "Add" starts with Home, "Change" with the label of its row. *)
OpenDialog ==
  /\ profile.open /\ profile.dialog = NoDialog
  /\ \E to \in Label : profile' = [profile EXCEPT !.dialog = [label |-> to, chosen |-> FALSE]]
  /\ UNCHANGED <<label, save, removing, crossed>>

CloseDialog ==
  /\ profile.dialog # NoDialog
  /\ profile' = [profile EXCEPT !.dialog = NoDialog]
  /\ UNCHANGED <<label, save, removing, crossed>>

(* Another label, a suggestion taken, or the text changed again, also while   *)
(* a save is pending.                                                         *)
FillIn ==
  /\ profile.dialog # NoDialog
  /\ \E to \in Label, chosen \in BOOLEAN :
       profile' = [profile EXCEPT !.dialog = [label |-> to, chosen |-> chosen]]
  /\ UNCHANGED <<label, save, removing, crossed>>

(* "Save place", disabled while one is pending *)
TapSave(s) ==
  /\ profile.dialog.chosen /\ profile.saving = Blank
  /\ save[s] = NoSave
  /\ save' = [save EXCEPT ![s] = [NoSave EXCEPT !.at = "sent", !.label = profile.dialog.label]]
  /\ profile' = [profile EXCEPT !.saving = s]
  /\ UNCHANGED <<label, removing, crossed>>

(* The bin of a row, disabled while a removal is pending *)
TapRemove(p) ==
  /\ profile.open /\ p \in profile.list /\ profile.deleting = Blank
  /\ removing' = removing \cup {p}
  /\ profile' = [profile EXCEPT !.deleting = p]
  /\ UNCHANGED <<label, save, crossed>>

-----------------------------------------------------------------------------
(* POST /saved-places *)

(* A save is looked up while another of its slot is between lookup and write. *)
Crosses(s) ==
  crossed' = crossed \cup {slot \in Slot :
                             /\ save[s].label = slot
                             /\ \E t \in Save : /\ save[t].label = slot
                                              /\ save[t].at \in {"update", "create"}}

(* Mutation: the lookup is left out. *)
FindNothing(s) ==
  /\ save[s].at = "sent"
  /\ save' = [save EXCEPT ![s].at = "create"]
  /\ Crosses(s)
  /\ UNCHANGED <<label, profile, removing>>

(* findFirst of the label, in no particular order *)
Find(s) ==
  /\ save[s].at = "sent"
  /\ IF save[s].label \in Slot /\ RowsOf(save[s].label) # {}
       THEN \E p \in RowsOf(save[s].label) :
              save' = [save EXCEPT ![s].at = "update", ![s].row = p]
       ELSE save' = [save EXCEPT ![s].at = "create"]
  /\ Crosses(s)
  /\ UNCHANGED <<label, profile, removing>>

(* An id that no row, list or request has *)
Unused(p) ==
  /\ p \notin Rows \cup profile.list \cup removing
  /\ \A s \in Save : save[s].row # p

Create(s) ==
  /\ save[s].at = "create"
  /\ \E p \in Place :
       /\ Unused(p)
       /\ label' = [label EXCEPT ![p] = save[s].label]
  /\ save' = [save EXCEPT ![s].at = "written"]
  /\ UNCHANGED <<profile, removing, crossed>>

(* The row found may have been removed since: the update throws, the page is  *)
(* told so (the error middleware of app.ts) and its dialog stays.             *)
Update(s) ==
  /\ save[s].at = "update"
  /\ IF save[s].row \in Rows
       THEN save' = [save EXCEPT ![s].at = "written"] /\ UNCHANGED profile
       ELSE /\ save' = [save EXCEPT ![s] = NoSave]
            /\ profile' = IF profile.saving = s THEN [profile EXCEPT !.saving = Blank]
                                                ELSE profile
  /\ UNCHANGED <<label, removing, crossed>>

(* The list is fetched again, and the dialog closes, whatever has been filled *)
(* in since; for a page that was left only the list becomes stale.            *)
SaveAnswered(s) ==
  /\ save[s].at = "written"
  /\ save' = [save EXCEPT ![s] = NoSave]
  /\ profile' = IF profile.saving = s
                  THEN [profile EXCEPT !.list = Rows, !.dialog = NoDialog, !.saving = Blank]
                  ELSE profile
  /\ UNCHANGED <<label, removing, crossed>>

(* The connection is lost: the page shows an error, the handler goes on. *)
SaveLost ==
  /\ profile.saving # Blank
  /\ profile' = [profile EXCEPT !.saving = Blank]
  /\ UNCHANGED <<label, save, removing, crossed>>

-----------------------------------------------------------------------------
(* DELETE /saved-places/:id: the row, or 404; the list again, or an error.    *)
Remove(p) ==
  /\ p \in removing
  /\ label' = [label EXCEPT ![p] = Blank]
  /\ removing' = removing \ {p}
  /\ profile' = IF profile.deleting = p
                  THEN [profile EXCEPT !.deleting = Blank,
                                       !.list = IF p \in Rows THEN Rows \ {p} ELSE @]
                  ELSE profile
  /\ UNCHANGED <<save, crossed>>

-----------------------------------------------------------------------------
PlacesSavedInit ==
  /\ label = [p \in Place |-> Blank]
  /\ save = [s \in Save |-> NoSave]
  /\ profile = Unopened /\ removing = {} /\ crossed = {}

PlacesSavedNext ==
  \/ OpenProfile \/ LeaveProfile \/ FetchPlaces
  \/ OpenDialog \/ CloseDialog \/ FillIn \/ SaveLost
  \/ \E s \in Save : TapSave(s) \/ Find(s) \/ Create(s) \/ Update(s) \/ SaveAnswered(s)
  \/ \E p \in Place : TapRemove(p) \/ Remove(p)

(* The saves of a slot that have found no row and will insert one. *)
Inserting(slot) == {s \in Save : save[s].at = "create" /\ save[s].label = slot}

(* Home and Work are single-slot (customerMisc.routes.ts:60-61) as long as no *)
(* two saves of the slot were handled at once: whatever is removed, left,     *)
(* lost or sent again in between, the slot has, or is about to have, one row. *)
SlotsAreNotStacked ==
  \A slot \in Slot \ crossed : Cardinality(RowsOf(slot)) + Cardinality(Inserting(slot)) <= 1

(* What the comment says of them without that condition.                      *)
HomeAndWorkAreSingle == \A slot \in Slot : Cardinality(RowsOf(slot)) <= 1
=============================================================================
