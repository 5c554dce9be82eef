---------------------------- MODULE ContactProofs ----------------------------
(* The safety properties of the parts of Contact, for any rides, messages,   *)
(* calls, ratings, rows and places, with all of the parts at work at once.   *)
EXTENDS Contact, FiniteSetTheorems, TLAPS

(* What a step is to each of the parts. *)
LEMMA Steps ==
  [Next]_vars =>
    /\ [OfferingNext]_offering
    /\ [ChannelNext \/ TakenOff \/ \E role \in Role : Advance(role)]_<<ridden, channel>>
    /\ [SosNext]_sos
    /\ [RatingsNext]_rated
    /\ [InboxNext]_inbox
    /\ [PlacesSavedNext]_saved
BY DEF Next, vars, Ask, Talk, Alert, Rate, Read, Keep, GoOn

-----------------------------------------------------------------------------
(* Saved places: a slot has one row as long as its saves do not overlap *)

Stage == {"idle", "sent", "update", "create", "written"}
SaveRow == [at : Stage, label : Label \cup {Blank}, row : Place \cup {Blank}]
Page == [open : BOOLEAN, list : SUBSET Place,
         dialog : [label : Label \cup {Blank}, chosen : BOOLEAN],
         saving : Save \cup {Blank}, deleting : Place \cup {Blank}]

(* Types; a dialog with a chosen place has a label. *)
SavedTypeOK ==
  /\ label \in [Place -> Label \cup {Blank}]
  /\ save \in [Save -> SaveRow]
  /\ profile \in Page
  /\ removing \subseteq Place /\ crossed \subseteq Slot

SlotsAreFinite == \A slot \in Slot : IsFiniteSet(RowsOf(slot))

SlotInv == SavedTypeOK /\ SlotsAreFinite /\ SlotsAreNotStacked

-----------------------------------------------------------------------------
LEMMA BlankIsNoLabel == Blank \notin Label
BY SavedAssumption DEF Label

LEMMA InsertingIsFinite ==
  ASSUME NEW slot
  PROVE  /\ IsFiniteSet(Inserting(slot))
         /\ Cardinality(Inserting(slot)) \in Nat
<1>1. Inserting(slot) \subseteq Save  BY DEF Inserting
<1>2. IsFiniteSet(Save)  BY SavedAssumption
<1> QED BY <1>1, <1>2, FS_Subset, FS_CardinalityType

LEMMA SlotInit == PlacesSavedInit => SlotInv
<1> SUFFICES ASSUME PlacesSavedInit PROVE SlotInv  OBVIOUS
<1>1. SavedTypeOK
  BY DEF PlacesSavedInit, SavedTypeOK, SaveRow, Page, Stage, NoSave, Unopened, NoDialog
<1>2. ASSUME NEW slot \in Slot
      PROVE  RowsOf(slot) = {} /\ Inserting(slot) = {}
  BY SavedAssumption DEF PlacesSavedInit, RowsOf, Inserting, NoSave
<1>3. IsFiniteSet({}) /\ Cardinality({}) = 0  BY FS_EmptySet
<1>4. SlotsAreFinite  BY <1>2, <1>3 DEF SlotsAreFinite
<1>5. SlotsAreNotStacked
  <2> SUFFICES ASSUME NEW slot \in Slot
               PROVE  Cardinality(RowsOf(slot)) + Cardinality(Inserting(slot)) <= 1
    BY DEF SlotsAreNotStacked
  <2>1. Cardinality(RowsOf(slot)) = 0 /\ Cardinality(Inserting(slot)) = 0
    BY <1>2, <1>3
  <2> QED BY <2>1
<1> QED BY <1>1, <1>4, <1>5 DEF SlotInv

LEMMA SavedTypeStep == SavedTypeOK /\ [PlacesSavedNext]_saved => SavedTypeOK'
<1> SUFFICES ASSUME SavedTypeOK, [PlacesSavedNext]_saved PROVE SavedTypeOK'  OBVIOUS
<1> USE DEF SavedTypeOK
<1>1. Rows \subseteq Place  BY DEF Rows
<1>2. CASE OpenProfile
  <2>1. PICK list \in {Rows, profile.list} :
          profile' = [Unopened EXCEPT !.open = TRUE, !.list = list]
    BY <1>2 DEF OpenProfile
  <2>2. list \subseteq Place  BY <1>1, <2>1 DEF Page
  <2> QED BY <1>2, <2>1, <2>2 DEF OpenProfile, Page, Unopened, NoDialog
<1>3. CASE LeaveProfile  BY <1>3 DEF LeaveProfile, Page, Unopened, NoDialog
<1>4. CASE FetchPlaces  BY <1>1, <1>4 DEF FetchPlaces, Page
<1>5. CASE OpenDialog
  <2>1. PICK to \in Label :
          profile' = [profile EXCEPT !.dialog = [label |-> to, chosen |-> FALSE]]
    BY <1>5 DEF OpenDialog
  <2> QED BY <1>5, <2>1 DEF OpenDialog, Page
<1>6. CASE CloseDialog  BY <1>6 DEF CloseDialog, Page, NoDialog
<1>7. CASE FillIn  BY <1>7 DEF FillIn, Page
<1>8. CASE SaveLost  BY <1>8 DEF SaveLost, Page
<1>9. ASSUME NEW s \in Save, TapSave(s) PROVE SavedTypeOK'
  BY <1>9 DEF TapSave, Page, SaveRow, Stage, NoSave
<1>10. ASSUME NEW s \in Save, Find(s) PROVE SavedTypeOK'
  <2>1. ASSUME NEW p \in RowsOf(save[s].label) PROVE p \in Place  BY DEF RowsOf
  <2>2. crossed' \subseteq Slot  BY <1>10 DEF Find, Crosses
  <2> QED BY <1>10, <2>1, <2>2 DEF Find, SaveRow, Stage
<1>11. ASSUME NEW s \in Save, Create(s) PROVE SavedTypeOK'
  BY <1>11 DEF Create, SaveRow, Stage
<1>12. ASSUME NEW s \in Save, Update(s) PROVE SavedTypeOK'
  <2>1. save' \in [Save -> SaveRow]  BY <1>12 DEF Update, SaveRow, Stage, NoSave
  <2>2. profile' \in Page  BY <1>12 DEF Update, Page
  <2> QED BY <1>12, <2>1, <2>2 DEF Update
<1>13. ASSUME NEW s \in Save, SaveAnswered(s) PROVE SavedTypeOK'
  BY <1>1, <1>13 DEF SaveAnswered, SaveRow, Stage, NoSave, Page, NoDialog
<1>14. ASSUME NEW p \in Place, TapRemove(p) PROVE SavedTypeOK'
  BY <1>14 DEF TapRemove, Page
<1>15. ASSUME NEW p \in Place, Remove(p) PROVE SavedTypeOK'
  BY <1>1, <1>15 DEF Remove, Page
<1>16. CASE UNCHANGED saved  BY <1>16 DEF saved
<1> QED BY <1>2, <1>3, <1>4, <1>5, <1>6, <1>7, <1>8, <1>9, <1>10, <1>11, <1>12, <1>13,
           <1>14, <1>15, <1>16 DEF PlacesSavedNext

-----------------------------------------------------------------------------
(* What is left of a slot after a step. *)
Within(slot) ==
  slot \notin crossed => Cardinality(RowsOf(slot)) + Cardinality(Inserting(slot)) <= 1

Fine(slot) == IsFiniteSet(RowsOf(slot)) /\ Within(slot)

LEMMA FineKept ==
  ASSUME NEW slot, Fine(slot), RowsOf(slot)' = RowsOf(slot), Inserting(slot)' = Inserting(slot),
         crossed \subseteq crossed'
  PROVE  Fine(slot)'
BY DEF Fine, Within

LEMMA FindFine ==
  ASSUME SavedTypeOK, NEW slot \in Slot, Fine(slot), NEW s \in Save, Find(s)
  PROVE  Fine(slot)'
<1>1. RowsOf(slot)' = RowsOf(slot)  BY DEF Find, RowsOf
<1>0. crossed \subseteq crossed'  BY DEF Find, Crosses
<1>2. CASE save[s].label = slot /\ RowsOf(slot) = {}
  <2>1. Cardinality(RowsOf(slot)') = 0  BY <1>1, <1>2, FS_EmptySet
  <2>2. SUFFICES ASSUME slot \notin crossed'
                 PROVE  Cardinality(Inserting(slot)') \in {0, 1}
    BY <1>1, <2>1 DEF Fine, Within
  <2>3. \A t \in Save : t # s => save'[t] = save[t]  BY DEF Find, SavedTypeOK
  <2>4. \A t \in Save : ~(save[t].label = slot /\ save[t].at \in {"update", "create"})
    BY <1>2, <2>2 DEF Find, Crosses
  <2>5. Inserting(slot)' \subseteq {s}  BY <2>3, <2>4 DEF Inserting
  <2>6. Inserting(slot)' = {} \/ Inserting(slot)' = {s}  BY <2>5
  <2>7. Cardinality({}) = 0 /\ Cardinality({s}) = 1  BY FS_EmptySet, FS_Singleton
  <2> QED BY <2>6, <2>7
<1>3. CASE ~(save[s].label = slot /\ RowsOf(slot) = {})
  <2>1. s \notin Inserting(slot)  BY DEF Find, Inserting
  <2>2. save'[s].label = save[s].label  BY DEF Find, SavedTypeOK, SaveRow
  <2>3. save[s].label = slot => save'[s].at = "update"
    BY <1>3 DEF Find, SavedTypeOK, SaveRow
  <2>4. s \notin Inserting(slot)'  BY <2>2, <2>3 DEF Inserting
  <2>5. \A t \in Save : t # s => save'[t] = save[t]  BY DEF Find, SavedTypeOK
  <2>6. Inserting(slot)' = Inserting(slot)  BY <2>1, <2>4, <2>5 DEF Inserting
  <2> QED BY <1>0, <1>1, <2>6, FineKept
<1> QED BY <1>2, <1>3

(* The row takes the place of the save that was about to insert it. *)
LEMMA CreateFine ==
  ASSUME SavedTypeOK, NEW slot \in Slot, Fine(slot), NEW s \in Save, Create(s)
  PROVE  Fine(slot)'
<1>1. PICK p \in Place : Unused(p) /\ label' = [label EXCEPT ![p] = save[s].label]
  BY DEF Create
<1>2. p \notin RowsOf(slot)  BY <1>1, SavedAssumption DEF Unused, Rows, RowsOf
<1>3. \A t \in Save : t # s => save'[t] = save[t]  BY DEF Create, SavedTypeOK
<1>4. s \notin Inserting(slot)'  BY DEF Create, Inserting, SavedTypeOK, SaveRow
<1>5. Inserting(slot)' = Inserting(slot) \ {s}  BY <1>3, <1>4 DEF Inserting
<1>6. CASE save[s].label = slot
  <2>1. RowsOf(slot)' = RowsOf(slot) \cup {p}  BY <1>1, <1>6 DEF RowsOf, SavedTypeOK
  <2>2. s \in Inserting(slot)  BY <1>6 DEF Create, Inserting
  <2>3. /\ IsFiniteSet(RowsOf(slot)')
        /\ Cardinality(RowsOf(slot)') = Cardinality(RowsOf(slot)) + 1
    BY <1>2, <2>1, FS_AddElement DEF Fine
  <2>4. Cardinality(Inserting(slot)') = Cardinality(Inserting(slot)) - 1
    BY <1>5, <2>2, InsertingIsFinite, FS_RemoveElement
  <2>5. Cardinality(RowsOf(slot)) \in Nat /\ Cardinality(Inserting(slot)) \in Nat
    BY InsertingIsFinite, FS_CardinalityType DEF Fine
  <2>6. crossed' = crossed  BY DEF Create
  <2> QED BY <2>3, <2>4, <2>5, <2>6 DEF Fine, Within
<1>7. CASE save[s].label # slot
  <2>1. RowsOf(slot)' = RowsOf(slot)  BY <1>1, <1>2, <1>7 DEF RowsOf, SavedTypeOK
  <2>2. Inserting(slot)' = Inserting(slot)  BY <1>5, <1>7 DEF Inserting
  <2>3. crossed' = crossed  BY DEF Create
  <2> QED BY <2>1, <2>2, <2>3, FineKept
<1> QED BY <1>6, <1>7

LEMMA RemoveFine ==
  ASSUME SavedTypeOK, NEW slot \in Slot, Fine(slot), NEW p \in Place, Remove(p)
  PROVE  Fine(slot)'
<1>1. RowsOf(slot)' \subseteq RowsOf(slot)
  BY SavedAssumption DEF Remove, RowsOf, SavedTypeOK
<1>2. Inserting(slot)' = Inserting(slot)  BY DEF Remove, Inserting
<1>3. /\ IsFiniteSet(RowsOf(slot)')
      /\ Cardinality(RowsOf(slot)') <= Cardinality(RowsOf(slot))
  BY <1>1, FS_Subset DEF Fine
<1>4. /\ Cardinality(RowsOf(slot)) \in Nat /\ Cardinality(RowsOf(slot)') \in Nat
      /\ Cardinality(Inserting(slot)) \in Nat
  BY <1>3, InsertingIsFinite, FS_CardinalityType DEF Fine
<1>5. crossed' = crossed  BY DEF Remove
<1> QED BY <1>2, <1>3, <1>4, <1>5 DEF Fine, Within

(* The other steps of a save neither begin nor end an insertion. *)
LEMMA SaveFine ==
  ASSUME SavedTypeOK, NEW slot \in Slot, Fine(slot), NEW s \in Save,
         TapSave(s) \/ Update(s) \/ SaveAnswered(s)
  PROVE  Fine(slot)'
<1>1. RowsOf(slot)' = RowsOf(slot)
  BY DEF TapSave, Update, SaveAnswered, RowsOf
<1>2. \A t \in Save : t # s => save'[t] = save[t]
  BY DEF TapSave, Update, SaveAnswered, SavedTypeOK
<1>3. save[s].at # "create"  BY DEF TapSave, Update, SaveAnswered, NoSave
<1>4. save'[s].at # "create"
  <2>1. save[s] \in SaveRow /\ save \in [Save -> SaveRow]  BY DEF SavedTypeOK
  <2>2. CASE TapSave(s)  BY <2>1, <2>2 DEF TapSave, NoSave
  <2>3. CASE Update(s)  BY <2>1, <2>3 DEF Update, NoSave, SaveRow
  <2>4. CASE SaveAnswered(s)  BY <2>1, <2>4 DEF SaveAnswered, NoSave
  <2> QED BY <2>2, <2>3, <2>4
<1>5. Inserting(slot)' = Inserting(slot)  BY <1>2, <1>3, <1>4 DEF Inserting
<1>6. crossed' = crossed  BY DEF TapSave, Update, SaveAnswered
<1> QED BY <1>1, <1>5, <1>6, FineKept

LEMMA SlotStep ==
  ASSUME SavedTypeOK, NEW slot \in Slot, Fine(slot), [PlacesSavedNext]_saved
  PROVE  Fine(slot)'
<1>1. CASE UNCHANGED <<label, save, crossed>>
  <2>1. RowsOf(slot)' = RowsOf(slot) /\ Inserting(slot)' = Inserting(slot)
    BY <1>1 DEF RowsOf, Inserting
  <2> QED BY <1>1, <2>1, FineKept
<1>2. ASSUME NEW s \in Save, TapSave(s) \/ Update(s) \/ SaveAnswered(s) PROVE Fine(slot)'
  BY <1>2, SaveFine
<1>3. ASSUME NEW s \in Save, Find(s) PROVE Fine(slot)'  BY <1>3, FindFine
<1>4. ASSUME NEW s \in Save, Create(s) PROVE Fine(slot)'  BY <1>4, CreateFine
<1>5. ASSUME NEW p \in Place, Remove(p) PROVE Fine(slot)'  BY <1>5, RemoveFine
<1>6. CASE OpenProfile \/ LeaveProfile \/ FetchPlaces \/ OpenDialog \/ CloseDialog
             \/ FillIn \/ SaveLost
  BY <1>1, <1>6 DEF OpenProfile, LeaveProfile, FetchPlaces, OpenDialog, CloseDialog,
                    FillIn, SaveLost
<1>7. ASSUME NEW p \in Place, TapRemove(p) PROVE Fine(slot)'  BY <1>1, <1>7 DEF TapRemove
<1>8. CASE UNCHANGED saved  BY <1>1, <1>8 DEF saved
<1> QED BY <1>2, <1>3, <1>4, <1>5, <1>6, <1>7, <1>8 DEF PlacesSavedNext

(* Home and Work hold one row each as long as no two saves of the slot were   *)
(* handled at once, for any number of saves, places and slots.                *)
(* Home and Work have one row each, those about to be inserted included, for  *)
(* any numbers of places, slots and saves, unless two saves of the slot were  *)
(* handled at once (customerMisc.routes.ts:60-77): its lookup is not part of  *)
(* its insert, and only another save in between makes that matter.            *)
THEOREM SlotsHold == Spec => []SlotsAreNotStacked
<1>1. SlotInv /\ [Next]_vars => SlotInv'
  <2> SUFFICES ASSUME SlotInv, [PlacesSavedNext]_saved PROVE SlotInv'  BY Steps
  <2>1. SavedTypeOK'  BY SavedTypeStep DEF SlotInv
  <2>2. ASSUME NEW slot \in Slot PROVE Fine(slot)'
    BY SlotStep DEF SlotInv, SlotsAreFinite, SlotsAreNotStacked, Fine, Within
  <2> QED BY <2>1, <2>2 DEF SlotInv, SlotsAreFinite, SlotsAreNotStacked, Fine, Within
<1>2. SlotInv => SlotsAreNotStacked  BY DEF SlotInv
<1>3. Init => SlotInv  BY SlotInit DEF Init
<1> QED BY <1>1, <1>2, <1>3, PTL DEF Spec

-----------------------------------------------------------------------------
(* The room *)

LinkRow == [up : BOOLEAN, room : BOOLEAN, joining : BOOLEAN, missed : BOOLEAN]
PageRow == [open : BOOLEAN, chatOpen : BOOLEAN, toasted : BOOLEAN]

(* A driver has a page only of a ride that is or was his, and one that he was *)
(* taken off does not become his again.                                      *)
RoomInv ==
  /\ link \in LinkRow /\ page \in PageRow
  /\ me \in Role /\ driver \in {"none", "his", "off"}
  /\ page.open => InCache(me)
  /\ driver = "none" \/ ride # "requested"
  /\ OpenPageIsInItsRoom

LEMMA RoomRows ==
  /\ NoPage \in PageRow /\ ~NoPage.open
  /\ [NoPage EXCEPT !.open = TRUE] \in PageRow
BY DEF PageRow, NoPage

Joins(l, b)   == [l EXCEPT !.joining = b, !.missed = FALSE]
Enters(l, b)  == [l EXCEPT !.joining = FALSE, !.room = b]
JoinMissed(l) == [l EXCEPT !.joining = FALSE, !.missed = TRUE]
Exits(l)      == [l EXCEPT !.room = FALSE]
Toasts(p, b)  == [p EXCEPT !.toasted = b]
Unfolds(p, b) == [p EXCEPT !.chatOpen = b]

LEMMA JoinsRow ==
  ASSUME NEW l \in LinkRow, NEW b \in BOOLEAN
  PROVE  Joins(l, b) \in LinkRow /\ (Joins(l, b).up => l.up) /\ (b => Joins(l, b).joining)
BY DEF LinkRow, Joins

LEMMA EntersRow ==
  ASSUME NEW l \in LinkRow, NEW b \in BOOLEAN
  PROVE  Enters(l, b) \in LinkRow /\ (b => Enters(l, b).room)
BY DEF LinkRow, Enters

LEMMA JoinMissedRow == \A l \in LinkRow : JoinMissed(l) \in LinkRow /\ JoinMissed(l).missed
BY DEF LinkRow, JoinMissed

LEMMA ExitsRow == \A l \in LinkRow : Exits(l) \in LinkRow
BY DEF LinkRow, Exits

LEMMA PageMoves ==
  ASSUME NEW p \in PageRow, NEW b \in BOOLEAN
  PROVE  /\ Toasts(p, b) \in PageRow /\ (Toasts(p, b).open => p.open)
         /\ Unfolds(p, b) \in PageRow /\ (Unfolds(p, b).open => p.open)
BY DEF PageRow, Toasts, Unfolds

LEMMA RoomStep ==
  ASSUME RoomInv,
         [ChannelNext \/ TakenOff \/ \E role \in Role : Advance(role)]_<<ridden, channel>>
  PROVE  RoomInv'
<1> DEFINE Hears(l, p) == l.up /\ p.open /\ Owns(me) => l.room \/ l.joining \/ l.missed
<1>0. /\ link \in LinkRow /\ page \in PageRow /\ me \in Role
      /\ driver \in {"none", "his", "off"} /\ (driver = "none" \/ ride # "requested")
      /\ (page.open => InCache(me)) /\ Hears(link, page)
      /\ page.open \in BOOLEAN /\ link.up \in BOOLEAN
      /\ link.room \in BOOLEAN /\ link.joining \in BOOLEAN
  BY DEF RoomInv, OpenPageIsInItsRoom, LinkRow, PageRow
<1>1. ASSUME UNCHANGED <<me, ride, driver>>, link' \in LinkRow, page' \in PageRow,
             page'.open => InCache(me), Hears(link', page')
      PROVE  RoomInv'
  BY <1>0, <1>1 DEF RoomInv, OpenPageIsInItsRoom, Owns, InCache
<1> HIDE DEF Hears
<1>2. CASE UNCHANGED <<link, page, me, ride, driver>>
  BY <1>0, <1>1, <1>2
<1>3. ASSUME UNCHANGED <<link, me, ride, driver>>, page' \in PageRow, page'.open => page.open
      PROVE  RoomInv'
  BY <1>0, <1>1, <1>3 DEF Hears
<1>4. CASE Reconnect
  <2>1. /\ link' = [up |-> TRUE, room |-> FALSE, joining |-> page.open, missed |-> FALSE]
        /\ UNCHANGED <<page, me, ride, driver>>
    BY <1>4 DEF Reconnect, Away
  <2>2. link' \in LinkRow /\ (page.open => link'.joining)  BY <1>0, <2>1 DEF LinkRow
  <2> QED BY <1>0, <1>1, <2>1, <2>2 DEF Hears
<1>5. CASE Drop
  <2>1. link' \in LinkRow /\ ~link'.up /\ UNCHANGED <<page, me, ride, driver>>
    BY <1>5 DEF Drop, Away, LinkRow
  <2> QED BY <1>0, <1>1, <2>1 DEF Hears
<1>6. CASE Joined
  <2>1. /\ link' = Enters(link, link.room \/ Owns(me)) /\ (link.room \/ Owns(me)) \in BOOLEAN
        /\ UNCHANGED <<page, me, ride, driver>>
    BY <1>0, <1>6 DEF Joined, Enters
  <2>2. link' \in LinkRow /\ (link.room \/ Owns(me) => link'.room)  BY <1>0, <2>1, EntersRow
  <2> QED BY <1>0, <1>1, <2>1, <2>2 DEF Hears
<1>7. CASE JoinFails
  <2>1. link' = JoinMissed(link) /\ UNCHANGED <<page, me, ride, driver>>
    BY <1>7 DEF JoinFails, JoinMissed
  <2>2. link' \in LinkRow /\ link'.missed  BY <1>0, <2>1, JoinMissedRow
  <2> QED BY <1>0, <1>1, <2>1, <2>2 DEF Hears
<1>8. CASE OpenPage
  <2>1. /\ link' = Joins(link, link.joining \/ link.up)
        /\ (link.joining \/ link.up) \in BOOLEAN
        /\ page' = [NoPage EXCEPT !.open = TRUE] /\ InCache(me) /\ UNCHANGED <<me, ride, driver>>
    BY <1>0, <1>8 DEF OpenPage, Joins
  <2>2. link' \in LinkRow /\ (link'.up => link.up) /\ (link.joining \/ link.up => link'.joining)
    BY <1>0, <2>1, JoinsRow
  <2>3. page' \in PageRow  BY <2>1, RoomRows
  <2> QED BY <1>1, <2>1, <2>2, <2>3 DEF Hears
<1>9. CASE LeavePage
  <2>1. link' = Exits(link) /\ page' = NoPage /\ UNCHANGED <<me, ride, driver>>
    BY <1>9 DEF LeavePage, Exits
  <2>2. link' \in LinkRow /\ page' \in PageRow /\ ~page'.open
    BY <1>0, <2>1, ExitsRow, RoomRows
  <2> QED BY <1>1, <2>1, <2>2 DEF Hears
<1>10. CASE Hear
  <2>1. /\ UNCHANGED <<link, me, ride, driver>>
        /\ \/ page' = page
           \/ page' = Toasts(page, page.toasted \/ (page.open /\ Head(wire).forRole = me))
    BY <1>10 DEF Hear, Toasts
  <2>2. (page.toasted \/ (page.open /\ Head(wire).forRole = me)) \in BOOLEAN  OBVIOUS
  <2>3. page' \in PageRow /\ (page'.open => page.open)  BY <1>0, <2>1, <2>2, PageMoves
  <2> QED BY <1>3, <2>1, <2>3
<1>11. CASE OpenChat
  <2>1. UNCHANGED <<link, me, ride, driver>> /\ page' = Unfolds(page, ~page.chatOpen)
    BY <1>11 DEF OpenChat, Unfolds
  <2>2. (~page.chatOpen) \in BOOLEAN  OBVIOUS
  <2>3. page' \in PageRow /\ (page'.open => page.open)  BY <1>0, <2>1, <2>2, PageMoves
  <2> QED BY <1>3, <2>1, <2>3
(* The accept makes the ride his when he has no page of it yet.               *)
<1>12. ASSUME NEW role \in Role, Advance(role) PROVE RoomInv'
  <2>1. /\ UNCHANGED <<link, page, me>> /\ ride' # "requested"
        /\ driver' = IF ride = "requested" /\ ride' = "committed" THEN "his" ELSE driver
    BY <1>12 DEF Advance
  <2>2. driver' \in {"none", "his", "off"} /\ (InCache(me) => InCache(me)')
    BY <1>0, <2>1 DEF InCache
  <2>3. page.open => (Owns(me)' => Owns(me))
    BY <1>0, <2>1 DEF Owns, InCache
  <2>4. OpenPageIsInItsRoom'
    BY <1>0, <2>1, <2>3 DEF OpenPageIsInItsRoom, Hears
  <2> QED BY <1>0, <2>1, <2>2, <2>4 DEF RoomInv
<1>13. CASE TakenOff
  <2>1. /\ UNCHANGED <<link, page, me, ride>> /\ driver' = "off" /\ driver = "his"
    BY <1>13 DEF TakenOff
  <2>2. (InCache(me) => InCache(me)') /\ (Owns(me)' => Owns(me))
    BY <2>1 DEF Owns, InCache
  <2>3. OpenPageIsInItsRoom'
    BY <1>0, <2>1, <2>2 DEF OpenPageIsInItsRoom, Hears
  <2> QED BY <1>0, <2>1, <2>2, <2>3 DEF RoomInv
<1>14. CASE \/ Refetch \/ HistoryRead \/ HistoryAnswered \/ HistoryFails \/ Send
            \/ PostMine \/ PostTheirs \/ UNCHANGED <<ridden, channel>>
            \/ \E role \in Role : Store(role)
  BY <1>2, <1>14 DEF Refetch, HistoryRead, HistoryAnswered, HistoryFails, Send, PostMine,
                     PostTheirs, Store, ridden, channel
<1> QED BY <1>4, <1>5, <1>6, <1>7, <1>8, <1>9, <1>10, <1>11, <1>12, <1>13, <1>14 DEF ChannelNext

(* A phone that shows a ride of its side's over a live connection hears it,   *)
(* or will once its join is handled, unless that join has failed, however     *)
(* often pages and connections were replaced and drivers taken off.           *)
THEOREM PagesAreHeard == Spec => []OpenPageIsInItsRoom
<1>1. Init => RoomInv
  <2> SUFFICES ASSUME Init PROVE RoomInv  OBVIOUS
  <2>1. page = NoPage /\ link \in LinkRow /\ me \in Role /\ driver = "none"
    BY DEF Init, ChannelInit, LinkRow, Away
  <2> QED BY <2>1, RoomRows DEF RoomInv, OpenPageIsInItsRoom
<1>2. RoomInv /\ [Next]_vars => RoomInv'  BY Steps, RoomStep
<1>3. RoomInv => OpenPageIsInItsRoom  BY DEF RoomInv
<1> QED BY <1>1, <1>2, <1>3, PTL DEF Spec

-----------------------------------------------------------------------------
(* Emergency alerts *)

CallRow == [role : SosRole,
            at : {"unmade", "asked", "creating", "telling", "answering", "gone"},
            alert : {"none", "recent", "old"}, told : BOOLEAN]

(* An alert of which the admins hear, as far as nothing failed. *)
Heard(c) == calls[c].alert # "none" /\ (faults = 0 => calls[c].told \/ calls[c].at = "telling")
SideHeard(role) == \E c \in SosCall : calls[c].role = role /\ Heard(c)

SosInv ==
  /\ calls \in [SosCall -> CallRow] /\ faults \in Nat
  /\ said \subseteq SosRole /\ waiting \in [SosRole -> SosCall \cup {NoCall}]
  /\ \A c \in SosCall : /\ calls[c].alert # "none" => Heard(c)
                        /\ calls[c].at \in {"unmade", "asked", "creating"} => calls[c].alert = "none"
                        /\ calls[c].at = "telling" => calls[c].alert # "none"
                        /\ calls[c].at = "answering" => SideHeard(calls[c].role)
  /\ \A role \in SosRole : waiting[role] # NoCall =>
       calls[waiting[role]].role = role /\ calls[waiting[role]].at # "unmade"
  /\ \A role \in said : SideHeard(role)

Stands(r, at)      == [r EXCEPT !.at = at]
Taps(r, role)      == [r EXCEPT !.role = role, !.at = "asked"]
Raises(r)          == [r EXCEPT !.at = "telling", !.alert = "recent"]
Tells(r, b)        == [r EXCEPT !.at = "answering", !.told = b]
Ages(r)            == [r EXCEPT !.alert = "old"]

LEMMA StandsRow ==
  ASSUME NEW r \in CallRow, NEW at \in {"asked", "creating", "telling", "answering", "gone"}
  PROVE  /\ Stands(r, at) \in CallRow /\ Stands(r, at).at = at
         /\ Stands(r, at).role = r.role /\ Stands(r, at).alert = r.alert
         /\ (r.told => Stands(r, at).told)
BY DEF CallRow, Stands

LEMMA TapsRow ==
  ASSUME NEW r \in CallRow, NEW role \in SosRole
  PROVE  /\ Taps(r, role) \in CallRow /\ Taps(r, role).at = "asked"
         /\ Taps(r, role).role = role /\ Taps(r, role).alert = r.alert
BY DEF CallRow, Taps

LEMMA RaisesRow ==
  ASSUME NEW r \in CallRow
  PROVE  /\ Raises(r) \in CallRow /\ Raises(r).at = "telling"
         /\ Raises(r).role = r.role /\ Raises(r).alert # "none"
BY DEF CallRow, Raises

LEMMA TellsRow ==
  ASSUME NEW r \in CallRow, NEW b \in BOOLEAN
  PROVE  /\ Tells(r, b) \in CallRow /\ Tells(r, b).at = "answering"
         /\ Tells(r, b).role = r.role /\ Tells(r, b).alert = r.alert
         /\ (b => Tells(r, b).told)
BY DEF CallRow, Tells

LEMMA AgesRow ==
  ASSUME NEW r \in CallRow
  PROVE  /\ Ages(r) \in CallRow /\ Ages(r).at = r.at
         /\ Ages(r).role = r.role /\ Ages(r).alert # "none"
         /\ (r.told => Ages(r).told)
BY DEF CallRow, Ages

(* What a step may do to a call and to the number of faults. *)
CallGoesOn(c) ==
  /\ calls[c].alert # "none" => calls'[c].alert # "none" /\ calls'[c].role = calls[c].role
  /\ Heard(c) => Heard(c)'
  /\ calls'[c].alert # "none" => Heard(c)'
  /\ calls'[c].at \in {"unmade", "asked", "creating"} => calls'[c].alert = "none"
  /\ calls'[c].at = "telling" => calls'[c].alert # "none"
  /\ calls'[c].at = "answering" => SideHeard(calls'[c].role) \/ Heard(c)'
  /\ calls[c].at # "unmade" => calls'[c].role = calls[c].role /\ calls'[c].at # "unmade"

SosGoesOn ==
  /\ calls' \in [SosCall -> CallRow] /\ faults' \in Nat
  /\ \A c \in SosCall : CallGoesOn(c)

LEMMA CallKept ==
  ASSUME SosInv, NEW c \in SosCall, calls'[c] = calls[c], faults' = 0 => faults = 0
  PROVE  CallGoesOn(c)
<1>1. /\ calls[c].alert # "none" => Heard(c)
      /\ calls[c].at \in {"unmade", "asked", "creating"} => calls[c].alert = "none"
      /\ calls[c].at = "telling" => calls[c].alert # "none"
      /\ calls[c].at = "answering" => SideHeard(calls[c].role)
  BY DEF SosInv
<1>2. Heard(c) => Heard(c)'  BY DEF Heard
<1> QED BY <1>1, <1>2 DEF CallGoesOn

(* One call moves to v and no fault comes. *)
LEMMA OneCallMoves ==
  ASSUME SosInv, NEW c \in SosCall, NEW v \in CallRow, calls' = [calls EXCEPT ![c] = v],
         faults' \in Nat, faults' = 0 => faults = 0, CallGoesOn(c)
  PROVE  SosGoesOn
<1>1. calls' \in [SosCall -> CallRow]  BY DEF SosInv
<1>2. \A d \in SosCall : d # c => calls'[d] = calls[d]  BY DEF SosInv
<1> QED BY <1>1, <1>2, CallKept DEF SosGoesOn

LEMMA CallsGoOn == SosInv /\ [SosNext]_sos => SosGoesOn
<1> SUFFICES ASSUME SosInv, [SosNext]_sos PROVE SosGoesOn  OBVIOUS
<1>0. /\ calls \in [SosCall -> CallRow] /\ faults \in Nat
      /\ \A c \in SosCall : /\ calls[c].alert # "none" => Heard(c)
                            /\ calls[c].at \in {"unmade", "asked", "creating"}
                                 => calls[c].alert = "none"
                            /\ calls[c].at = "telling" => calls[c].alert # "none"
                            /\ calls[c].at = "answering" => SideHeard(calls[c].role)
  BY DEF SosInv
<1>1. CASE UNCHANGED <<calls, faults>>  BY <1>0, <1>1, CallKept DEF SosGoesOn
<1>2. CASE SosRestart
  <2>1. faults' = faults + 1  BY <1>2 DEF SosRestart
  <2>2. \A c \in SosCall : calls'[c] = calls[c] \/ calls'[c] = Stands(calls[c], "gone")
    BY <1>0, <1>2 DEF SosRestart, Stands
  <2>3. \A c \in SosCall : calls[c] \in CallRow  BY <1>0
  <2>4. calls' \in [SosCall -> CallRow]
    <3>1. \A c \in SosCall : calls'[c] \in CallRow  BY <2>2, <2>3, StandsRow
    <3> QED BY <1>2, <3>1 DEF SosRestart
  <2>5. ASSUME NEW c \in SosCall PROVE CallGoesOn(c)
    <3>1. faults' \in Nat /\ faults' # 0  BY <1>0, <2>1
    <3>2. CASE calls'[c] = calls[c]  BY <3>1, <3>2, CallKept
    <3>3. CASE calls'[c] = Stands(calls[c], "gone")
      BY <2>3, <3>1, <3>3, StandsRow DEF CallGoesOn, Heard
    <3> QED BY <2>2, <3>2, <3>3
  <2> QED BY <1>0, <2>1, <2>4, <2>5 DEF SosGoesOn
<1>3. ASSUME NEW role \in SosRole, NEW c \in SosCall, Tap(role, c) PROVE SosGoesOn
  <2>1. calls' = [calls EXCEPT ![c] = Taps(calls[c], role)] /\ faults' = faults
    BY <1>3 DEF Tap, Taps
  <2>2. calls[c] \in CallRow /\ calls[c].at = "unmade"  BY <1>0, <1>3 DEF Tap, At
  <2>3. calls'[c] = Taps(calls[c], role)  BY <1>0, <2>1
  <2>4. CallGoesOn(c)  BY <1>0, <2>2, <2>3, TapsRow DEF CallGoesOn, Heard
  <2> QED BY <1>0, <2>1, <2>2, <2>4, TapsRow, OneCallMoves
<1>4. ASSUME NEW c \in SosCall, NEW at \in {"creating", "answering", "gone"},
             calls' = [calls EXCEPT ![c] = Stands(calls[c], at)], faults' = faults,
             calls[c].at \in {"asked", "answering"}, at = "answering" => SideHeard(calls[c].role),
             at = "creating" => calls[c].at = "asked"
      PROVE  SosGoesOn
  <2>1. calls[c] \in CallRow  BY <1>0
  <2>2. calls'[c] = Stands(calls[c], at)  BY <1>0, <1>4
  <2>3. CallGoesOn(c)  BY <1>0, <1>4, <2>1, <2>2, StandsRow DEF CallGoesOn, Heard
  <2> QED BY <1>0, <1>4, <2>1, <2>3, StandsRow, OneCallMoves
<1>5. ASSUME NEW c \in SosCall, Refuse(c) \/ FindNone(c) \/ SosAnswered(c) PROVE SosGoesOn
  BY <1>4, <1>5 DEF Refuse, FindNone, SosAnswered, At, Stands
<1>6. ASSUME NEW c \in SosCall, FindRecent(c) PROVE SosGoesOn
  <2>1. SideHeard(calls[c].role)
    BY <1>0, <1>6 DEF FindRecent, Recent, SideHeard
  <2> QED BY <1>4, <1>6, <2>1 DEF FindRecent, At, Stands
<1>7. ASSUME NEW c \in SosCall, CreateAlert(c) PROVE SosGoesOn
  <2>1. calls' = [calls EXCEPT ![c] = Raises(calls[c])] /\ faults' = faults
    BY <1>7 DEF CreateAlert, Raises
  <2>2. calls[c] \in CallRow /\ calls[c].at = "creating"  BY <1>0, <1>7 DEF CreateAlert, At
  <2>3. calls'[c] = Raises(calls[c])  BY <1>0, <2>1
  <2>4. CallGoesOn(c)  BY <1>0, <2>2, <2>3, RaisesRow DEF CallGoesOn, Heard
  <2> QED BY <1>0, <2>1, <2>2, <2>4, RaisesRow, OneCallMoves
<1>8. ASSUME NEW c \in SosCall, NotifyAllAdmins(c) PROVE SosGoesOn
  <2>1. PICK b \in BOOLEAN :
          /\ calls' = [calls EXCEPT ![c] = Tells(calls[c], b)]
          /\ faults' = IF b THEN faults ELSE faults + 1
    BY <1>8 DEF NotifyAllAdmins, Tells
  <2>2. calls[c] \in CallRow /\ calls[c].at = "telling"  BY <1>0, <1>8 DEF NotifyAllAdmins, At
  <2>3. calls'[c] = Tells(calls[c], b)  BY <1>0, <2>1
  <2>4. faults' \in Nat /\ (faults' = 0 => faults = 0 /\ b)  BY <1>0, <2>1
  <2>5. CallGoesOn(c)  BY <1>0, <2>2, <2>3, <2>4, TellsRow DEF CallGoesOn, Heard
  <2> QED BY <1>0, <2>1, <2>2, <2>4, <2>5, TellsRow, OneCallMoves
<1>9. ASSUME NEW c \in SosCall, Age(c) PROVE SosGoesOn
  <2>1. calls' = [calls EXCEPT ![c] = Ages(calls[c])] /\ faults' = faults
    BY <1>9 DEF Age, Ages
  <2>2. calls[c] \in CallRow /\ calls[c].alert # "none"  BY <1>0, <1>9 DEF Age
  <2>3. calls'[c] = Ages(calls[c])  BY <1>0, <2>1
  <2>4. Heard(c) /\ Heard(c)'  BY <1>0, <2>1, <2>2, <2>3, AgesRow DEF Heard
  <2>5. /\ calls'[c].at = calls[c].at /\ calls'[c].role = calls[c].role
        /\ calls'[c].alert # "none"
    BY <2>2, <2>3, AgesRow
  <2>6. CallGoesOn(c)  BY <1>0, <2>2, <2>4, <2>5 DEF CallGoesOn
  <2> QED BY <1>0, <2>1, <2>2, <2>6, AgesRow, OneCallMoves
<1>10. ASSUME NEW role \in SosRole, SosLost(role) PROVE SosGoesOn
  BY <1>1, <1>10 DEF SosLost
<1>11. CASE UNCHANGED sos  BY <1>1, <1>11 DEF sos
<1> QED BY <1>2, <1>3, <1>5, <1>6, <1>7, <1>8, <1>9, <1>10, <1>11 DEF SosNext, SosHandled

LEMMA WaitingSteps ==
  ASSUME SosInv, [SosNext]_sos
  PROVE  /\ waiting' \in [SosRole -> SosCall \cup {NoCall}]
         /\ \A role \in SosRole :
              \/ waiting'[role] \in {waiting[role], NoCall}
              \/ \E c \in SosCall : Tap(role, c) /\ waiting'[role] = c
<1>0. waiting \in [SosRole -> SosCall \cup {NoCall}]  BY DEF SosInv
<1>1. CASE UNCHANGED waiting  BY <1>0, <1>1
<1>2. ASSUME NEW r \in SosRole, NEW c \in SosCall, Tap(r, c)
      PROVE  /\ waiting' \in [SosRole -> SosCall \cup {NoCall}]
             /\ \A role \in SosRole :
                  \/ waiting'[role] = waiting[role]
                  \/ Tap(role, c) /\ waiting'[role] = c
  <2>1. waiting' = [waiting EXCEPT ![r] = c]  BY <1>2 DEF Tap
  <2> QED BY <1>0, <1>2, <2>1
<1>3. ASSUME NEW c \in SosCall, Ends(c)
      PROVE  /\ waiting' \in [SosRole -> SosCall \cup {NoCall}]
             /\ \A role \in SosRole : waiting'[role] \in {waiting[role], NoCall}
  BY <1>0, <1>3 DEF Ends
<1>4. CASE SosRestart  BY <1>4 DEF SosRestart
<1>5. ASSUME NEW r \in SosRole, SosLost(r)
      PROVE  /\ waiting' \in [SosRole -> SosCall \cup {NoCall}]
             /\ \A role \in SosRole : waiting'[role] \in {waiting[role], NoCall}
  BY <1>0, <1>5 DEF SosLost
<1>6. CASE \E c \in SosCall : Refuse(c) \/ SosAnswered(c)
  BY <1>3, <1>6 DEF Refuse, SosAnswered
<1>7. CASE \E c \in SosCall : FindRecent(c) \/ FindNone(c) \/ CreateAlert(c) \/ NotifyAllAdmins(c)
                               \/ Age(c)
  BY <1>1, <1>7 DEF FindRecent, FindNone, CreateAlert, NotifyAllAdmins, Age
<1>8. CASE \E r \in SosRole, c \in SosCall : Tap(r, c)  BY <1>2, <1>8
<1>9. CASE \E r \in SosRole : SosLost(r)  BY <1>5, <1>9
<1> QED BY <1>1, <1>4, <1>6, <1>7, <1>8, <1>9 DEF SosNext, SosHandled, sos

LEMMA SaidSteps ==
  ASSUME SosInv, [SosNext]_sos
  PROVE  /\ said' \subseteq SosRole
         /\ \A role \in said' : role \in said
              \/ \E c \in SosCall : waiting[role] = c /\ calls[c].at = "answering"
<1>0. said \subseteq SosRole  BY DEF SosInv
<1>1. CASE said' \subseteq said  BY <1>0, <1>1
<1>2. ASSUME NEW c \in SosCall, SosAnswered(c)
      PROVE  /\ said' = said \cup {role \in SosRole : waiting[role] = c}
             /\ calls[c].at = "answering"
  BY <1>2 DEF SosAnswered, At
<1>3. CASE \E c \in SosCall : SosAnswered(c)  BY <1>0, <1>2, <1>3
<1> QED BY <1>1, <1>3 DEF SosNext, SosHandled, sos, SosRestart, SosLost, Tap, Refuse, FindRecent,
                          FindNone, CreateAlert, NotifyAllAdmins, Age

LEMMA SosStep == SosInv /\ [SosNext]_sos => SosInv'
<1> SUFFICES ASSUME SosInv, [SosNext]_sos PROVE SosInv'  OBVIOUS
<1>0. /\ said \subseteq SosRole /\ waiting \in [SosRole -> SosCall \cup {NoCall}]
      /\ \A c \in SosCall : calls[c].at = "answering" => SideHeard(calls[c].role)
      /\ \A role \in SosRole : waiting[role] # NoCall =>
           calls[waiting[role]].role = role /\ calls[waiting[role]].at # "unmade"
      /\ \A role \in said : SideHeard(role)
      /\ NoCall \notin SosCall /\ calls \in [SosCall -> CallRow]
  BY CallAssumption DEF SosInv, NoCall
<1>1. SosGoesOn  BY CallsGoOn
<1>2. ASSUME NEW role, SideHeard(role) PROVE SideHeard(role)'
  <2>1. PICK c \in SosCall : calls[c].role = role /\ Heard(c)  BY <1>2 DEF SideHeard
  <2>2. calls[c].alert # "none"  BY <2>1 DEF Heard
  <2>3. calls'[c].role = role /\ Heard(c)'  BY <1>1, <2>1, <2>2 DEF SosGoesOn, CallGoesOn
  <2> QED BY <2>3 DEF SideHeard
<1>3. \A c \in SosCall : /\ calls'[c].alert # "none" => Heard(c)'
                         /\ calls'[c].at \in {"unmade", "asked", "creating"}
                              => calls'[c].alert = "none"
                         /\ calls'[c].at = "telling" => calls'[c].alert # "none"
  BY <1>1 DEF SosGoesOn, CallGoesOn
<1>4. ASSUME NEW c \in SosCall, calls'[c].at = "answering" PROVE SideHeard(calls[c].role)'
  <2>1. CASE SideHeard(calls'[c].role)
    <3>1. \E d \in SosCall : calls[d].role = calls'[c].role /\ Heard(d)  BY <2>1 DEF SideHeard
    <3>2. PICK d \in SosCall : calls[d].role = calls'[c].role /\ Heard(d)  BY <3>1
    <3>3. calls'[d].role = calls'[c].role /\ Heard(d)'
      BY <1>1, <3>2 DEF SosGoesOn, CallGoesOn, Heard
    <3> QED BY <3>3 DEF SideHeard
  <2>2. CASE Heard(c)'  BY <2>2 DEF SideHeard
  <2> QED BY <1>1, <1>4, <2>1, <2>2 DEF SosGoesOn, CallGoesOn
<1>5. ASSUME NEW role \in SosRole, waiting'[role] # NoCall
      PROVE  calls'[waiting'[role]].role = role /\ calls'[waiting'[role]].at # "unmade"
  <2>1. CASE waiting'[role] = waiting[role]
    <3>1. waiting[role] \in SosCall  BY <1>0, <1>5, <2>1
    <3>2. CallGoesOn(waiting[role])  BY <1>1, <3>1 DEF SosGoesOn
    <3> QED BY <1>0, <1>5, <2>1, <3>2 DEF CallGoesOn
  <2>2. ASSUME NEW c \in SosCall, Tap(role, c), waiting'[role] = c
        PROVE  calls'[waiting'[role]].role = role /\ calls'[waiting'[role]].at # "unmade"
    <3>1. calls' = [calls EXCEPT ![c] = Taps(calls[c], role)]  BY <2>2 DEF Tap, Taps
    <3>2. calls[c] \in CallRow /\ calls'[c] = Taps(calls[c], role)  BY <1>0, <3>1
    <3> QED BY <2>2, <3>2, TapsRow
  <2> QED BY <1>5, <2>1, <2>2, WaitingSteps
<1>6. ASSUME NEW role \in said' PROVE SideHeard(role)'
  <2>1. CASE role \in said  BY <1>0, <1>2, <2>1
  <2>2. ASSUME NEW c \in SosCall, waiting[role] = c, calls[c].at = "answering", role \in SosRole
        PROVE  SideHeard(role)
    BY <1>0, <2>2
  <2> QED BY <1>2, <1>6, <2>1, <2>2, SaidSteps
<1> QED BY <1>1, <1>3, <1>4, <1>5, <1>6, WaitingSteps, SaidSteps DEF SosInv, SosGoesOn

(* Whoever reads "Emergency alert sent" has an alert of its own, of which the *)
(* admins know or are about to know unless a notice failed or the server was  *)
(* restarted, however often either side taps and whatever answers are lost.   *)
THEOREM AlertsAreHeard == Spec => []SosIsHeard
<1>1. Init => SosInv
  <2> SUFFICES ASSUME Init PROVE SosInv  OBVIOUS
  <2>1. Unmade \in CallRow /\ Unmade.at = "unmade" /\ Unmade.alert = "none"
    BY DEF CallRow, Unmade, SosRole
  <2>2. \A c \in SosCall : calls[c] = Unmade  BY DEF Init, SosInit
  <2>3. calls \in [SosCall -> CallRow]  BY <2>1 DEF Init, SosInit
  <2> QED BY <2>1, <2>2, <2>3 DEF Init, SosInit, SosInv
<1>2. SosInv /\ [Next]_vars => SosInv'  BY Steps, SosStep
<1>3. SosInv => SosIsHeard  BY DEF SosInv, SosIsHeard, SideHeard, Heard
<1> QED BY <1>1, <1>2, <1>3, PTL DEF Spec

-----------------------------------------------------------------------------
(* Lists *)

TableRows == Seq({"open", "done"})
ScreenRow == [open : BOOLEAN, list : TableRows \cup {Nothing}, fetch : {"none", "asked", "read"},
              rows : TableRows, stale : BOOLEAN]
MarkRec == [all : BOOLEAN, rows : SUBSET Nat, written : BOOLEAN]

Shows(list) == \A i \in marked : i \in DOMAIN list /\ list[i] = "done"

(* A fetch that is still to be shown has read what was marked before, and a  *)
(* row once dealt with stays so.                                             *)
InboxInv ==
  /\ table \in TableRows /\ screen \in ScreenRow /\ marking \subseteq MarkRec
  /\ Len(screen.rows) <= Len(table)
  /\ screen.list # Nothing => Len(screen.list) <= Len(table)
  /\ \A mark \in marking : /\ mark.rows \subseteq DOMAIN table
                           /\ mark.written => \A i \in mark.rows : table[i] = "done"
  /\ marking # {} => screen.list # Nothing
  /\ marked # {} => screen.open /\ screen.list # Nothing
  /\ Shows(table)
  /\ screen.fetch = "read" => Shows(screen.rows)
  /\ MarkedIsShown

Opens(s)    == [s EXCEPT !.open = TRUE]
Quits(s)    == [s EXCEPT !.open = FALSE]
Asks(s)     == [s EXCEPT !.fetch = "asked", !.rows = <<>>]
Reads(s, t) == [s EXCEPT !.fetch = "read", !.rows = t]
Lists(s)    == [s EXCEPT !.list = s.rows, !.fetch = "none", !.rows = <<>>, !.stale = FALSE]
Misses(s)   == [s EXCEPT !.fetch = "none", !.rows = <<>>, !.stale = TRUE]
Stales(s)   == [s EXCEPT !.stale = TRUE]

Writes(mark, rows) == [mark EXCEPT !.rows = rows, !.written = TRUE]

LEMMA WritesRow ==
  ASSUME NEW mark \in MarkRec, NEW rows \in SUBSET Nat
  PROVE  Writes(mark, rows) \in MarkRec /\ Writes(mark, rows).rows = rows
BY DEF MarkRec, Writes

LEMMA NoRows == <<>> \in TableRows /\ Len(<<>>) = 0
BY DEF TableRows

LEMMA OpensRow ==
  ASSUME NEW s \in ScreenRow
  PROVE  /\ Opens(s) \in ScreenRow /\ Opens(s).open /\ Opens(s).list = s.list
         /\ Opens(s).fetch = s.fetch /\ Opens(s).rows = s.rows
BY DEF ScreenRow, Opens

LEMMA QuitsRow ==
  ASSUME NEW s \in ScreenRow
  PROVE  /\ Quits(s) \in ScreenRow /\ ~Quits(s).open /\ Quits(s).list = s.list
         /\ Quits(s).fetch = s.fetch /\ Quits(s).rows = s.rows
BY DEF ScreenRow, Quits

LEMMA AsksRow ==
  ASSUME NEW s \in ScreenRow
  PROVE  /\ Asks(s) \in ScreenRow /\ (s.open => Asks(s).open) /\ Asks(s).list = s.list
         /\ Asks(s).fetch = "asked" /\ Asks(s).rows = <<>>
BY NoRows DEF ScreenRow, Asks

LEMMA ReadsRow ==
  ASSUME NEW s \in ScreenRow, NEW t \in TableRows
  PROVE  /\ Reads(s, t) \in ScreenRow /\ (s.open => Reads(s, t).open)
         /\ Reads(s, t).list = s.list /\ Reads(s, t).fetch = "read" /\ Reads(s, t).rows = t
BY DEF ScreenRow, Reads

LEMMA ListsRow ==
  ASSUME NEW s \in ScreenRow
  PROVE  /\ Lists(s) \in ScreenRow /\ (s.open => Lists(s).open)
         /\ Lists(s).list = s.rows /\ Lists(s).fetch = "none" /\ Lists(s).rows = <<>>
BY NoRows DEF ScreenRow, Lists

LEMMA MissesRow ==
  ASSUME NEW s \in ScreenRow
  PROVE  /\ Misses(s) \in ScreenRow /\ (s.open => Misses(s).open) /\ Misses(s).list = s.list
         /\ Misses(s).fetch = "none" /\ Misses(s).rows = <<>> /\ Misses(s).stale
BY NoRows DEF ScreenRow, Misses

LEMMA StalesRow ==
  ASSUME NEW s \in ScreenRow
  PROVE  /\ Stales(s) \in ScreenRow /\ (s.open => Stales(s).open) /\ Stales(s).list = s.list
         /\ Stales(s).fetch = s.fetch /\ Stales(s).rows = s.rows /\ Stales(s).stale
BY DEF ScreenRow, Stales

(* The table only grows, and what is dealt with stays so. *)
Grows == /\ table' \in TableRows /\ Len(table) <= Len(table')
         /\ DOMAIN table \subseteq DOMAIN table'
         /\ \A i \in DOMAIN table : table[i] = "done" => table'[i] = "done"

LEMMA MarkedGrows ==
  ASSUME table \in TableRows, NEW rows, table' = Marked(rows)
  PROVE  Grows /\ \A i \in DOMAIN table : i \in rows => table'[i] = "done"
<1>1. table' = [i \in 1 .. Len(table) |-> IF i \in rows THEN "done" ELSE table[i]]
  BY DEF Marked, TableRows
<1>2. Len(table) \in Nat /\ \A i \in 1 .. Len(table) : table[i] \in {"open", "done"}
  BY DEF TableRows
<1>3. table' \in TableRows /\ Len(table') = Len(table)  BY <1>1, <1>2 DEF TableRows
<1>4. DOMAIN table = 1 .. Len(table) /\ DOMAIN table' = 1 .. Len(table)
  BY <1>1 DEF TableRows
<1> QED BY <1>1, <1>2, <1>3, <1>4 DEF Grows

LEMMA AppendGrows ==
  ASSUME table \in TableRows, table' = Append(table, "open")
  PROVE  Grows
<1>1. table' \in TableRows /\ Len(table') = Len(table) + 1 /\ Len(table) \in Nat
  BY DEF TableRows
<1>2. DOMAIN table = 1 .. Len(table) /\ DOMAIN table' = 1 .. Len(table')
  BY <1>1 DEF TableRows
<1>3. \A i \in DOMAIN table : table'[i] = table[i]  BY <1>2 DEF TableRows
<1> QED BY <1>1, <1>2, <1>3 DEF Grows

LEMMA TableStep == table \in TableRows /\ [InboxNext]_inbox => Grows
<1> SUFFICES ASSUME table \in TableRows, [InboxNext]_inbox PROVE Grows  OBVIOUS
<1>1. CASE UNCHANGED table
  <2>1. Len(table) \in Nat  BY DEF TableRows
  <2> QED BY <1>1, <2>1 DEF Grows
<1>2. CASE Arrives \/ StoreTicket  BY <1>2, AppendGrows DEF Arrives, StoreTicket
<1>3. CASE \E i \in 1 .. MaxRows : DealtWithElsewhere(i)
  BY <1>3, MarkedGrows DEF DealtWithElsewhere
<1>4. CASE \E mark \in marking : MarkWritten(mark)
  BY <1>4, MarkedGrows DEF MarkWritten
<1> QED BY <1>1, <1>2, <1>3, <1>4
        DEF InboxNext, inbox, OpenScreen, LeaveScreen, FetchAgain, FetchRead, FetchAnswered,
            FetchFails, SubmitTicket, TicketAnswered, TicketFails, MarkAll, Mark, MarkSucceeds,
            MarkFails

Carried(mark) == /\ mark.rows \subseteq DOMAIN table
                 /\ mark.written => \A i \in mark.rows : table[i] = "done"

LEMMA ShownStays ==
  ASSUME Grows, Shows(table), UNCHANGED marked
  PROVE  Shows(table)'
BY DEF Grows, Shows

(* The rest of InboxInv when the list on the screen is not touched. *)
LEMMA MarkingStep ==
  ASSUME InboxInv, Grows, UNCHANGED <<screen, marked>>, marking' \subseteq MarkRec,
         \A mark \in marking' : Carried(mark)', marking' # {} => screen.list # Nothing
  PROVE  InboxInv'
<1>1. /\ table \in TableRows /\ table' \in TableRows /\ Len(table) <= Len(table')
      /\ screen \in ScreenRow
  BY DEF InboxInv, Grows
<1>2. Len(table) \in Nat /\ Len(table') \in Nat /\ Len(screen.rows) \in Nat
  BY <1>1 DEF TableRows, ScreenRow
<1>3. screen.list # Nothing => Len(screen.list) \in Nat  BY <1>1 DEF TableRows, ScreenRow
<1>4. /\ Len(screen.rows) <= Len(table)
      /\ screen.list # Nothing => Len(screen.list) <= Len(table)
      /\ marked # {} => screen.open /\ screen.list # Nothing
      /\ Shows(table) /\ (screen.fetch = "read" => Shows(screen.rows)) /\ MarkedIsShown
  BY DEF InboxInv
<1>5. /\ Len(screen.rows) <= Len(table')
      /\ screen.list # Nothing => Len(screen.list) <= Len(table')
  BY <1>1, <1>2, <1>3, <1>4
<1>6. Shows(table)'  BY <1>4, ShownStays
<1>7. (screen.fetch = "read" => Shows(screen.rows))' /\ MarkedIsShown'
  BY <1>4 DEF Shows, MarkedIsShown
<1> QED BY <1>1, <1>4, <1>5, <1>6, <1>7 DEF InboxInv, Carried

(* The rest of InboxInv when the list on the screen moves to s. *)
LEMMA ScreenStep ==
  ASSUME InboxInv, UNCHANGED table, marking' \subseteq marking, screen' \in ScreenRow,
         \/ screen'.list = screen.list
         \/ screen'.list = screen.rows /\ screen.fetch = "read",
         screen'.rows \in {<<>>, screen.rows, table},
         marked' = {} \/ (marked' = marked /\ screen'.open),
         screen'.fetch = "read" => marked' = {} \/ Shows(screen'.rows),
         screen'.open /\ screen'.fetch = "none" /\ ~screen'.stale =>
           marked' = {} \/ Shows(screen'.list)
  PROVE  InboxInv'
<1>1. table \in TableRows /\ screen \in ScreenRow /\ <<>> \in TableRows /\ Len(<<>>) = 0
  BY NoRows DEF InboxInv
<1>2. Len(table) \in Nat /\ Len(screen.rows) \in Nat /\ Nothing \notin TableRows
  BY <1>1, RowsAssumption DEF TableRows, ScreenRow
<1>3. /\ Len(screen.rows) <= Len(table)
      /\ screen.list # Nothing => Len(screen.list) <= Len(table)
      /\ marking # {} => screen.list # Nothing
      /\ marked # {} => screen.open /\ screen.list # Nothing
      /\ Shows(table)
  BY DEF InboxInv
<1>4. Len(screen'.rows) <= Len(table')  BY <1>1, <1>2, <1>3
<1>5. screen.list # Nothing => screen'.list # Nothing
  BY <1>1, <1>2 DEF ScreenRow
<1>6. screen'.list # Nothing => Len(screen'.list) <= Len(table')  BY <1>3
<1>7. marking' # {} => screen'.list # Nothing  BY <1>3, <1>5
<1>8. marked' # {} => screen'.open /\ screen'.list # Nothing  BY <1>3, <1>5
<1>9. Shows(table)'  BY <1>3 DEF Shows
<1>10. (screen.fetch = "read" => Shows(screen.rows))'  BY DEF Shows
<1>11. MarkedIsShown'  BY DEF Shows, MarkedIsShown
<1> QED BY <1>1, <1>4, <1>6, <1>7, <1>8, <1>9, <1>10, <1>11 DEF InboxInv

LEMMA InboxStep == InboxInv /\ [InboxNext]_inbox => InboxInv'
<1> SUFFICES ASSUME InboxInv, [InboxNext]_inbox PROVE InboxInv'  OBVIOUS
<1>0. /\ table \in TableRows /\ screen \in ScreenRow /\ marking \subseteq MarkRec
      /\ \A mark \in marking : Carried(mark)
      /\ marking # {} => screen.list # Nothing
      /\ marked # {} => screen.open /\ screen.list # Nothing
      /\ Shows(table) /\ (screen.fetch = "read" => Shows(screen.rows))
      /\ screen.fetch \in {"none", "asked", "read"} /\ MarkedIsShown
  BY DEF InboxInv, Carried, ScreenRow
<1>g. Grows  BY <1>0, TableStep
<1>c. ASSUME NEW mark \in marking PROVE Carried(mark)'
  <2>1. mark \in MarkRec /\ Carried(mark)  BY <1>0
  <2> QED BY <1>g, <2>1 DEF Carried, Grows, MarkRec
<1>1. ASSUME UNCHANGED <<screen, marked>>, marking' \subseteq marking PROVE InboxInv'
  BY <1>0, <1>g, <1>c, <1>1, MarkingStep
<1>2. CASE OpenScreen
  <2>1. PICK s \in {screen, Asks(screen)} : screen' = Opens(s)
    BY <1>2 DEF OpenScreen, Asking, Asks, Opens
  <2>2. s \in ScreenRow /\ s.list = screen.list /\ s.rows \in {<<>>, screen.rows}
    BY <1>0, <2>1, AsksRow
  <2>3. marked' = {}  BY <1>0, <1>2 DEF OpenScreen
  <2> QED BY <1>2, <2>1, <2>2, <2>3, OpensRow, ScreenStep DEF OpenScreen
<1>3. CASE LeaveScreen
  <2>1. screen' = Quits(screen) /\ marked' = {} /\ UNCHANGED <<table, marking>>
    BY <1>3 DEF LeaveScreen, Quits
  <2> QED BY <1>0, <2>1, QuitsRow, ScreenStep
<1>4. ASSUME screen' = Asks(screen), screen.open, UNCHANGED <<table, marking, marked>>
      PROVE  InboxInv'
  BY <1>0, <1>4, AsksRow, ScreenStep
<1>5. CASE FetchAgain  BY <1>4, <1>5 DEF FetchAgain, Asking, Asks
<1>6. ASSUME NEW s \in {Reads(screen, table), Lists(screen), Misses(screen), Stales(screen)},
             screen' = s, s \in ScreenRow, screen.open => s.open,
             \/ s.list = screen.list
             \/ s.list = screen.rows /\ screen.fetch = "read",
             s.rows \in {<<>>, screen.rows, table}, UNCHANGED <<table, marking, marked>>,
             s.fetch = "read" => marked = {} \/ Shows(s.rows),
             s.open /\ s.fetch = "none" /\ ~s.stale => marked = {} \/ Shows(s.list)
      PROVE  InboxInv'
  <2>1. marked' = {} \/ (marked' = marked /\ screen'.open)  BY <1>0, <1>6
  <2> QED BY <1>6, <2>1, ScreenStep
<1>7. CASE FetchRead
  <2>1. screen' = Reads(screen, table) /\ UNCHANGED <<table, marking, marked>>
    BY <1>7 DEF FetchRead, Reads
  <2> QED BY <1>0, <1>6, <2>1, ReadsRow
<1>8. CASE FetchAnswered
  <2>1. /\ screen' = Lists(screen) /\ screen.fetch = "read"
        /\ UNCHANGED <<table, marking, marked>>
    BY <1>8 DEF FetchAnswered, Lists
  <2> QED BY <1>0, <1>6, <2>1, ListsRow
<1>9. CASE FetchFails
  <2>1. screen' = Misses(screen) /\ UNCHANGED <<table, marking, marked>>
    BY <1>9 DEF FetchFails, Misses
  <2> QED BY <1>0, <1>6, <2>1, MissesRow
<1>10. ASSUME screen' = Stales(screen), ~screen.open, UNCHANGED <<table, marking, marked>>
       PROVE  InboxInv'
  BY <1>0, <1>6, <1>10, StalesRow
<1>11. CASE TicketAnswered
  <2>1. screen' = Invalidated /\ UNCHANGED <<table, marking, marked>>
    BY <1>11 DEF TicketAnswered
  <2>2. \/ screen' = screen
        \/ ~screen.open /\ screen' = Stales(screen)
        \/ screen.open /\ screen' = Asks(screen)
    BY <2>1 DEF Invalidated, Stales, Asking, Asks
  <2> QED BY <1>1, <1>4, <1>10, <2>1, <2>2
<1>12. ASSUME NEW i \in 1 .. MaxRows, Mark(i) PROVE InboxInv'
  <2>1. /\ marking' = marking \cup {MarkRow(i)} /\ UNCHANGED <<screen, marked, table>>
        /\ screen.list # Nothing /\ i \in DOMAIN screen.list
    BY <1>12 DEF Mark
  <2>2. i \in DOMAIN table
    <3>1. Len(screen.list) <= Len(table) /\ screen.list \in TableRows
      BY <1>0, <2>1 DEF InboxInv, ScreenRow
    <3> QED BY <1>0, <2>1, <3>1 DEF TableRows
  <2>3. MarkRow(i) \in MarkRec /\ MarkRow(i).rows = {i} /\ ~MarkRow(i).written
    BY DEF MarkRow, MarkRec
  <2>4. Carried(MarkRow(i))'  BY <2>1, <2>2, <2>3 DEF Carried
  <2>5. \A mark \in marking' : Carried(mark)'  BY <1>c, <2>1, <2>4
  <2> QED BY <1>0, <1>g, <2>1, <2>3, <2>5, MarkingStep
<1>13. CASE MarkAll
  <2>1. /\ marking' = marking \cup {MarkAllRows} /\ UNCHANGED <<screen, marked, table>>
        /\ screen.list # Nothing
    BY <1>13 DEF MarkAll
  <2>2. MarkAllRows \in MarkRec /\ MarkAllRows.rows = {} /\ ~MarkAllRows.written
    BY DEF MarkAllRows, MarkRec
  <2>3. Carried(MarkAllRows)'  BY <2>1, <2>2 DEF Carried
  <2>4. \A mark \in marking' : Carried(mark)'  BY <1>c, <2>1, <2>3
  <2> QED BY <1>0, <1>g, <2>1, <2>2, <2>4, MarkingStep
<1>14. ASSUME NEW mark \in marking, MarkWritten(mark) PROVE InboxInv'
  <2>1. PICK rows : rows = IF mark.all THEN DOMAIN table ELSE mark.rows  OBVIOUS
  <2>2. PICK v : v = Writes(mark, rows)  OBVIOUS
  <2>3. /\ table' = Marked(rows) /\ marking' = (marking \ {mark}) \cup {v}
        /\ UNCHANGED <<screen, marked>>
    BY <1>14, <2>1, <2>2 DEF MarkWritten, Writes
  <2>4. mark \in MarkRec /\ Carried(mark)  BY <1>0
  <2>5. rows \subseteq DOMAIN table /\ DOMAIN table \subseteq Nat
    BY <1>0, <2>1, <2>4 DEF Carried, TableRows
  <2>6. v \in MarkRec /\ v.rows = rows  BY <2>2, <2>4, <2>5, WritesRow
  <2>7. \A i \in rows : table'[i] = "done"  BY <1>0, <2>3, <2>5, MarkedGrows
  <2>8. Carried(v)'  BY <1>g, <2>5, <2>6, <2>7 DEF Carried, Grows
  <2>9. \A m \in marking' : Carried(m)'  BY <1>c, <2>3, <2>8
  <2> QED BY <1>0, <1>g, <2>3, <2>6, <2>9, MarkingStep
<1>15. ASSUME NEW mark \in marking, MarkSucceeds(mark) PROVE InboxInv'
  <2>1. /\ mark.written /\ marking' = marking \ {mark} /\ UNCHANGED table
        /\ marked' = IF screen.open THEN marked \cup mark.rows ELSE marked
        /\ screen' = Invalidated
    BY <1>15 DEF MarkSucceeds
  <2>2. CASE ~screen.open
    <3>1. screen' = Stales(screen) /\ marked' = {}
      BY <1>0, <2>1, <2>2 DEF Invalidated, Stales
    <3> QED BY <1>0, <2>1, <3>1, StalesRow, ScreenStep
  <2>3. CASE screen.open
    <3>1. screen' = Asks(screen) /\ marked' = marked \cup mark.rows
      BY <1>0, <2>1, <2>3 DEF Invalidated, Asking, Asks
    <3>2. Carried(mark)  BY <1>0
    <3>3. Shows(table)'  BY <1>0, <2>1, <3>1, <3>2 DEF Shows, Carried
    <3>4. /\ screen' \in ScreenRow /\ screen'.open /\ screen'.list = screen.list
          /\ screen'.fetch = "asked" /\ screen'.rows = <<>>
      BY <1>0, <2>3, <3>1, AsksRow
    <3>5. Len(screen'.rows) <= Len(table')  BY <1>0, <3>4, NoRows DEF TableRows, Grows, InboxInv
    <3>6. screen'.list # Nothing => Len(screen'.list) <= Len(table')
      BY <2>1, <3>4 DEF InboxInv
    <3>7. MarkedIsShown' /\ (screen.fetch = "read" => Shows(screen.rows))'
      BY <3>4 DEF MarkedIsShown
    <3>8. \A m \in marking' : Carried(m)'  BY <1>c, <2>1
    <3> QED BY <1>0, <1>g, <2>1, <3>3, <3>4, <3>5, <3>6, <3>7, <3>8
            DEF InboxInv, Carried, Grows
  <2> QED BY <2>2, <2>3
<1>16. ASSUME NEW mark \in marking, MarkFails(mark) PROVE InboxInv'
  BY <1>1, <1>16 DEF MarkFails
<1>17. CASE \/ SubmitTicket \/ StoreTicket \/ TicketFails \/ Arrives \/ UNCHANGED inbox
            \/ \E i \in 1 .. MaxRows : DealtWithElsewhere(i)
  BY <1>1, <1>17 DEF SubmitTicket, StoreTicket, TicketFails, Arrives, DealtWithElsewhere, inbox
<1> QED BY <1>2, <1>3, <1>5, <1>7, <1>8, <1>9, <1>11, <1>12, <1>13, <1>14, <1>15, <1>16, <1>17
        DEF InboxNext

(* A row that its screen has marked is shown so as soon as nothing is being   *)
(* fetched, whatever was being fetched when it was marked.                    *)
THEOREM MarksAreShown == Spec => []MarkedIsShown
<1>1. Init => InboxInv
  <2> SUFFICES ASSUME Init PROVE InboxInv  OBVIOUS
  <2>1. table = <<>> /\ marking = {} /\ marked = {} /\ screen = Closed
    BY DEF Init, InboxInit
  <2>2. /\ Closed \in ScreenRow /\ Closed.rows = <<>> /\ Closed.list = Nothing
        /\ ~Closed.open /\ Closed.fetch = "none"
    BY NoRows DEF Closed, ScreenRow
  <2> QED BY <2>1, <2>2, NoRows DEF InboxInv, Shows, MarkedIsShown
<1>2. InboxInv /\ [Next]_vars => InboxInv'  BY Steps, InboxStep
<1>3. InboxInv => MarkedIsShown  BY DEF InboxInv
<1> QED BY <1>1, <1>2, <1>3, PTL DEF Spec

-----------------------------------------------------------------------------
(* Offers *)

RideRow == [Trip -> {"waiting", "offered", "lapsed", "arriving", "arrived", "gone"}]
AnswerRow == [at : {"idle", "sent", "withdraw", "answer"}, ride : BOOLEAN]
OverlayRow(trips) == [offer : trips, busy : SUBSET Kind, spent : BOOLEAN,
                      page : {"dashboard", "ride"}]
PollRow(trips) == [at : {"idle", "sent", "answer", "withdraw"}, trip : trips]

(* The rides that have been offered, and those that are past an acceptance.  *)
Seen == {t \in Trip : row[t] # "waiting"}
Learnt == Seen \cup {NoTrip}
Over == {t \in Trip : row[t] \in {"arrived", "gone"}}

(* What the phone and the sweep know of a ride came with an offer; a ride    *)
(* that has been refused will not be this driver's again.                    *)
OfferTypeOK ==
  /\ row \in RideRow
  /\ call \in [Kind -> [Trip -> AnswerRow]]
  /\ overlay \in OverlayRow(Learnt)
  /\ poll \in PollRow(Learnt) /\ (poll.at = "withdraw" => poll.trip \in Trip)
  /\ pushed \in Seq(Learnt)
  /\ sweeping \in Learnt

AskedFor == \A t \in Trip : call["accept"][t] # NoAnswer => t \in Seen
Refused == \A t \in Trip : call["accept"][t].at = "answer" => call["accept"][t].ride \/ t \in Over

OfferInv == OfferTypeOK /\ AskedFor /\ Refused /\ told \subseteq Over

LEMMA SeqOfMore ==
  ASSUME NEW S, NEW T, S \subseteq T, NEW s \in Seq(S)
  PROVE  s \in Seq(T)
<1>1. s \in [1 .. Len(s) -> S] /\ Len(s) \in Nat  OBVIOUS
<1>2. s \in [1 .. Len(s) -> T]  BY <1>1
<1> QED BY <1>1, <1>2

LEMMA OfferStart == OfferingInit => OfferInv
<1> SUFFICES ASSUME OfferingInit PROVE OfferInv  OBVIOUS
<1> USE DEF OfferingInit
<1>1. OfferTypeOK
  BY DEF OfferTypeOK, RideRow, AnswerRow, OverlayRow, PollRow, Learnt, NoPoll, NoAnswer
<1>2. \A t \in Trip : call["accept"][t] = NoAnswer  BY DEF Kind
<1>3. NoAnswer.at # "answer"  BY DEF NoAnswer
<1>4. AskedFor /\ Refused  BY <1>2, <1>3 DEF AskedFor, Refused
<1> QED BY <1>1, <1>4 DEF OfferInv

(* An answer is written for one request and for no other. *)
LEMMA OneAnswer ==
  ASSUME call \in [Kind -> [Trip -> AnswerRow]],
         NEW kind \in Kind, NEW t \in Trip, NEW answer \in AnswerRow,
         call' = [call EXCEPT ![kind][t] = answer]
  PROVE  /\ call' \in [Kind -> [Trip -> AnswerRow]]
         /\ \A k \in Kind, u \in Trip :
              call'[k][u] = IF k = kind /\ u = t THEN answer ELSE call[k][u]
<1>1. call[kind] \in [Trip -> AnswerRow]  OBVIOUS
<1>2. [call[kind] EXCEPT ![t] = answer] \in [Trip -> AnswerRow]  BY <1>1
<1>3. call' = [call EXCEPT ![kind] = [call[kind] EXCEPT ![t] = answer]]  OBVIOUS
<1>4. call' \in [Kind -> [Trip -> AnswerRow]]  BY <1>2, <1>3
<1> QED BY <1>1, <1>3, <1>4

(* No ride goes back: one that was offered is not waiting again, and one     *)
(* that is past its acceptance stays there.                                  *)
LEMMA RowsGoOn ==
  ASSUME OfferTypeOK, [OfferingNext]_offering
  PROVE  row' \in RideRow /\ Seen \subseteq Seen' /\ Over \subseteq Over'
<1>1. ASSUME NEW t \in Trip, NEW v \in {"offered", "lapsed", "arriving", "arrived", "gone"},
             row' = [row EXCEPT ![t] = v], row[t] \in {"arrived", "gone"} => v = "gone"
      PROVE  row' \in RideRow /\ Seen \subseteq Seen' /\ Over \subseteq Over'
  <2>1. row \in RideRow  BY DEF OfferTypeOK
  <2>2. row' \in RideRow  BY <1>1, <2>1 DEF RideRow
  <2>3. \A u \in Trip : row'[u] = IF u = t THEN v ELSE row[u]  BY <1>1, <2>1 DEF RideRow
  <2> QED BY <1>1, <2>2, <2>3 DEF Seen, Over
<1>2. ASSUME row' = row
      PROVE  row' \in RideRow /\ Seen \subseteq Seen' /\ Over \subseteq Over'
  BY <1>2 DEF OfferTypeOK, Seen, Over
<1>3. ASSUME NEW t \in Trip, OfferHandled(t)
      PROVE  row' \in RideRow /\ Seen \subseteq Seen' /\ Over \subseteq Over'
  <2>1. CASE Offer(t)  BY <1>1, <2>1 DEF Offer
  <2>2. CASE Lapse(t)  BY <1>1, <2>2 DEF Lapse
  <2>3. CASE SweepFinds(t)  BY <1>2, <2>3 DEF SweepFinds
  <2>4. CASE MovesOn(t)  BY <1>1, <2>4 DEF MovesOn
  <2>5. CASE AcceptHandled(t)
    BY <1>1, <1>2, <2>5 DEF AcceptHandled, Offered
  <2>6. CASE RejectFinds(t)  BY <1>2, <2>6 DEF RejectFinds
  <2>7. CASE RejectWithdraws(t)  BY <1>1, <2>7 DEF RejectWithdraws, Withdrawn
  <2> QED BY <1>3, <2>1, <2>2, <2>3, <2>4, <2>5, <2>6, <2>7 DEF OfferHandled
<1>4. ASSUME SweepWithdraws
      PROVE  row' \in RideRow /\ Seen \subseteq Seen' /\ Over \subseteq Over'
  <2>1. sweeping \in Trip  BY <1>4 DEF SweepWithdraws, OfferTypeOK, Learnt, Seen
  <2> QED BY <1>1, <1>4, <2>1 DEF SweepWithdraws, Withdrawn
<1>5. ASSUME PollWithdraws
      PROVE  row' \in RideRow /\ Seen \subseteq Seen' /\ Over \subseteq Over'
  <2>1. poll.trip \in Trip  BY <1>5 DEF PollWithdraws, OfferTypeOK
  <2> QED BY <1>1, <1>5, <2>1 DEF PollWithdraws, Withdrawn
<1>6. CASE \E t \in Trip : AcceptAnswered(t) \/ RejectAnswered(t)
  BY <1>2, <1>6 DEF AcceptAnswered, RejectAnswered
<1>7. CASE PollSent \/ PollFinds \/ PollAnswered \/ HearOffer
  BY <1>2, <1>7 DEF PollSent, PollFinds, PollAnswered, HearOffer
<1>8. CASE (\E kind \in Kind : AnswerTap(kind)) \/ CountdownEnds \/ OfferingLoses \/ RideKnown
  BY <1>2, <1>8 DEF AnswerTap, CountdownEnds, OfferingLoses, RideKnown
<1>9. CASE UNCHANGED offering  BY <1>2, <1>9 DEF offering
<1> QED BY <1>3, <1>4, <1>5, <1>6, <1>7, <1>8, <1>9 DEF OfferingNext

(* The cache holds what it was given by the poll, a push or an answer. *)
LEMMA OfferShown ==
  ASSUME NEW trips, NEW t \in trips, overlay \in OverlayRow(trips)
  PROVE  ShowOffer(t) \in OverlayRow(trips)
BY DEF ShowOffer, OverlayRow

LEMMA MoreToShow ==
  ASSUME NEW S, NEW T, S \subseteq T
  PROVE  OverlayRow(S) \subseteq OverlayRow(T) /\ PollRow(S) \subseteq PollRow(T)
BY DEF OverlayRow, PollRow

LEMMA OverlayStep ==
  ASSUME OfferTypeOK, [OfferingNext]_offering, Learnt \subseteq Learnt'
  PROVE  overlay' \in OverlayRow(Learnt')
<1>1. overlay \in OverlayRow(Learnt) /\ OverlayRow(Learnt) \subseteq OverlayRow(Learnt')
  BY MoreToShow DEF OfferTypeOK
<1> SUFFICES overlay' \in OverlayRow(Learnt)  BY <1>1
<1>2. NoTrip \in Learnt  BY DEF Learnt
<1>3. CASE PollAnswered
  <2>1. poll.trip \in Learnt  BY DEF OfferTypeOK, PollRow
  <2> QED BY <1>1, <1>3, <2>1, OfferShown DEF PollAnswered
<1>4. CASE HearOffer
  <2>1. Head(pushed) \in Learnt  BY <1>4 DEF HearOffer, OfferTypeOK
  <2>2. ShowOffer(Head(pushed)) \in OverlayRow(Learnt)  BY <1>1, <2>1, OfferShown
  <2> QED BY <1>1, <1>4, <2>2 DEF HearOffer
<1>5. CASE \E kind \in Kind : AnswerTap(kind)
  BY <1>1, <1>5 DEF AnswerTap, OverlayRow
<1>6. CASE CountdownEnds
  BY <1>1, <1>6 DEF CountdownEnds, OverlayRow, Kind
<1>7. ASSUME NEW t \in Trip, AcceptAnswered(t) PROVE overlay' \in OverlayRow(Learnt)
  <2>1. ShowOffer(NoTrip) \in OverlayRow(Learnt)  BY <1>1, <1>2, OfferShown
  <2> QED BY <1>7, <2>1 DEF AcceptAnswered, OverlayRow
<1>8. ASSUME NEW t \in Trip, RejectAnswered(t) PROVE overlay' \in OverlayRow(Learnt)
  BY <1>1, <1>2, <1>8, OfferShown DEF RejectAnswered
<1>9. CASE OfferingLoses
  BY <1>1, <1>9 DEF OfferingLoses, OverlayRow
<1>10. CASE RideKnown
  BY <1>1, <1>10 DEF RideKnown, OverlayRow
<1>11. CASE overlay' = overlay  BY <1>1, <1>11
<1> QED BY <1>3, <1>4, <1>5, <1>6, <1>7, <1>8, <1>9, <1>10, <1>11
  DEF OfferingNext, OfferHandled, offering, Offer, Lapse, SweepFinds, MovesOn, AcceptHandled,
      RejectFinds, RejectWithdraws, SweepWithdraws, PollSent, PollFinds, PollWithdraws

LEMMA PollStep ==
  ASSUME OfferTypeOK, [OfferingNext]_offering, Learnt \subseteq Learnt'
  PROVE  poll' \in PollRow(Learnt') /\ (poll'.at = "withdraw" => poll'.trip \in Trip)
<1>1. poll \in PollRow(Learnt) /\ (poll.at = "withdraw" => poll.trip \in Trip)
      /\ PollRow(Learnt) \subseteq PollRow(Learnt')
  BY MoreToShow DEF OfferTypeOK
<1> DEFINE Good == poll' \in PollRow(Learnt) /\ (poll'.at = "withdraw" => poll'.trip \in Trip)
<1> SUFFICES Good  BY <1>1
<1>2. NoTrip \in Learnt  BY DEF Learnt
<1>3. CASE PollSent  BY <1>2, <1>3 DEF PollSent, PollRow, NoPoll
<1>4. CASE PollFinds
  <2>1. \A t \in Trip : row[t] \in {"offered", "lapsed"} => t \in Learnt  BY DEF Learnt, Seen
  <2> QED BY <1>2, <1>4, <2>1 DEF PollFinds, PollRow
<1>5. CASE PollWithdraws  BY <1>2, <1>5 DEF PollWithdraws, PollRow
<1>6. CASE PollAnswered  BY <1>2, <1>6 DEF PollAnswered, PollRow, NoPoll
<1>7. CASE OfferingLoses  BY <1>1, <1>2, <1>7 DEF OfferingLoses, PollRow, NoPoll
<1>8. CASE poll' = poll  BY <1>1, <1>8
<1> QED BY <1>3, <1>4, <1>5, <1>6, <1>7, <1>8
  DEF OfferingNext, OfferHandled, offering, Offer, Lapse, SweepFinds, MovesOn, AcceptHandled,
      RejectFinds, RejectWithdraws, SweepWithdraws, HearOffer, AnswerTap, CountdownEnds,
      AcceptAnswered, RejectAnswered, RideKnown

LEMMA PushStep ==
  ASSUME OfferTypeOK, [OfferingNext]_offering, Learnt \subseteq Learnt', row' \in RideRow
  PROVE  pushed' \in Seq(Learnt') /\ sweeping' \in Learnt'
<1>1. pushed \in Seq(Learnt')  BY SeqOfMore DEF OfferTypeOK
<1>2. sweeping \in Learnt' /\ NoTrip \in Learnt'  BY DEF OfferTypeOK, Learnt
<1>3. ASSUME NEW t \in Trip, Offer(t) PROVE pushed' \in Seq(Learnt') /\ sweeping' \in Learnt'
  <2>1. t \in Learnt'  BY <1>3 DEF Offer, OfferTypeOK, RideRow, Learnt, Seen
  <2> QED BY <1>1, <1>2, <1>3, <2>1 DEF Offer
<1>4. ASSUME NEW t \in Trip, SweepFinds(t) PROVE pushed' \in Seq(Learnt') /\ sweeping' \in Learnt'
  <2>1. t \in Learnt  BY <1>4 DEF SweepFinds, Learnt, Seen
  <2> QED BY <1>1, <1>4, <2>1 DEF SweepFinds
<1>5. CASE SweepWithdraws  BY <1>1, <1>2, <1>5 DEF SweepWithdraws
<1>6. CASE HearOffer  BY <1>1, <1>2, <1>6 DEF HearOffer
<1>7. CASE UNCHANGED <<pushed, sweeping>>  BY <1>1, <1>2, <1>7
<1> QED BY <1>3, <1>4, <1>5, <1>6, <1>7
  DEF OfferingNext, OfferHandled, offering, Lapse, MovesOn, AcceptHandled,
      RejectFinds, RejectWithdraws, PollSent, PollFinds, PollWithdraws, PollAnswered,
      AnswerTap, CountdownEnds, AcceptAnswered, RejectAnswered, OfferingLoses, RideKnown

LEMMA CallsTyped ==
  ASSUME OfferTypeOK, [OfferingNext]_offering
  PROVE  call' \in [Kind -> [Trip -> AnswerRow]]
<1>1. call \in [Kind -> [Trip -> AnswerRow]]  BY DEF OfferTypeOK
<1>2. ASSUME NEW kind \in Kind, NEW t \in Trip,
             NEW at \in {"sent", "withdraw", "answer"},
             call' = [call EXCEPT ![kind][t] = [call[kind][t] EXCEPT !.at = at]]
      PROVE  call' \in [Kind -> [Trip -> AnswerRow]]
  <2>1. [call[kind][t] EXCEPT !.at = at] \in AnswerRow  BY <1>1 DEF AnswerRow
  <2> QED BY <1>1, <1>2, <2>1, OneAnswer
<1>3. NoAnswer \in AnswerRow  BY DEF NoAnswer, AnswerRow
<1>4. "accept" \in Kind /\ "reject" \in Kind  BY DEF Kind
<1>5. ASSUME NEW t \in Trip, OfferHandled(t)
      PROVE  call' \in [Kind -> [Trip -> AnswerRow]]
  <2>1. CASE AcceptHandled(t)
    <3>1. [at |-> "answer", ride |-> row'[t] = "arriving"] \in AnswerRow  BY DEF AnswerRow
    <3> QED BY <1>1, <1>4, <2>1, <3>1, OneAnswer DEF AcceptHandled
  <2>2. CASE RejectFinds(t)
    <3>1. call' = [call EXCEPT !["reject"][t] =
                     [call["reject"][t] EXCEPT !.at = IF Offered(t) THEN "withdraw" ELSE "answer"]]
      BY <2>2 DEF RejectFinds
    <3> QED BY <1>2, <1>4, <3>1
  <2>3. CASE RejectWithdraws(t)  BY <1>2, <1>4, <2>3 DEF RejectWithdraws
  <2>4. CASE UNCHANGED call  BY <1>1, <2>4
  <2> QED BY <1>5, <2>1, <2>2, <2>3, <2>4 DEF OfferHandled, Offer, Lapse, SweepFinds, MovesOn
<1>6. ASSUME NEW t \in Trip, AcceptAnswered(t)
      PROVE  call' \in [Kind -> [Trip -> AnswerRow]]
  BY <1>1, <1>3, <1>4, <1>6, OneAnswer DEF AcceptAnswered
<1>7. ASSUME NEW t \in Trip, RejectAnswered(t)
      PROVE  call' \in [Kind -> [Trip -> AnswerRow]]
  BY <1>1, <1>3, <1>4, <1>7, OneAnswer DEF RejectAnswered
<1>8. ASSUME NEW kind \in Kind, AnswerTap(kind)
      PROVE  call' \in [Kind -> [Trip -> AnswerRow]]
  BY <1>2, <1>8 DEF AnswerTap, Request
<1>9. CASE CountdownEnds  BY <1>1, <1>2, <1>4, <1>9 DEF CountdownEnds, Request
<1>10. CASE OfferingLoses  BY <1>1, <1>3, <1>10, OneAnswer DEF OfferingLoses
<1>11. CASE UNCHANGED call  BY <1>1, <1>11
<1> QED BY <1>5, <1>6, <1>7, <1>8, <1>9, <1>10, <1>11
  DEF OfferingNext, offering, SweepWithdraws, PollSent, PollFinds, PollWithdraws, PollAnswered,
      HearOffer, RideKnown

(* An accept that is under way was tapped on an offer; one that was answered *)
(* without the ride found it past its acceptance.                            *)
Answers(answer, seen, over) ==
  \A t \in Trip : /\ answer[t] # NoAnswer => t \in seen
                  /\ answer[t].at = "answer" => answer[t].ride \/ t \in over

LEMMA AcceptsStep ==
  ASSUME OfferInv, [OfferingNext]_offering,
         row' \in RideRow, Seen \subseteq Seen', Over \subseteq Over'
  PROVE  AskedFor' /\ Refused'
<1> DEFINE BothHold == Answers(call'["accept"], Seen', Over')
<1> SUFFICES BothHold  BY DEF Answers, AskedFor, Refused
<1> USE DEF OfferInv
<1>1. call \in [Kind -> [Trip -> AnswerRow]] /\ "accept" \in Kind /\ "reject" \in Kind
  BY DEF OfferTypeOK, Kind
<1>2. Answers(call["accept"], Seen', Over')  BY DEF Answers, AskedFor, Refused
<1>3. ASSUME NEW t \in Trip, NEW answer \in AnswerRow,
             call' = [call EXCEPT !["accept"][t] = answer],
             answer # NoAnswer => t \in Seen',
             answer.at = "answer" => answer.ride \/ t \in Over'
      PROVE  BothHold
  <2>1. \A u \in Trip : call'["accept"][u] = IF u = t THEN answer ELSE call["accept"][u]
    BY <1>1, <1>3, OneAnswer
  <2> QED BY <1>2, <1>3, <2>1 DEF Answers
<1>4. ASSUME NEW t \in Trip, NEW answer, call' = [call EXCEPT !["reject"][t] = answer]
      PROVE  BothHold
  <2>1. call'["accept"] = call["accept"]  BY <1>1, <1>4
  <2> QED BY <1>2, <2>1
<1>5. ASSUME UNCHANGED call PROVE BothHold  BY <1>2, <1>5
<1>6. NoAnswer \in AnswerRow /\ NoAnswer.at # "answer"  BY DEF NoAnswer, AnswerRow
<1>7. ASSUME NEW t \in Trip, AcceptHandled(t) PROVE BothHold
  <2> DEFINE answer == [at |-> "answer", ride |-> row'[t] = "arriving"]
  <2>1. answer \in AnswerRow  BY DEF AnswerRow
  <2>2. t \in Seen  BY <1>7 DEF AcceptHandled, AskedFor, NoAnswer
  <2>3. row'[t] = "arriving" \/ t \in Over'
    BY <1>7, <2>2 DEF AcceptHandled, Offered, OfferTypeOK, RideRow, Seen, Over
  <2>4. call' = [call EXCEPT !["accept"][t] = answer]  BY <1>7 DEF AcceptHandled
  <2>5. answer.ride = (row'[t] = "arriving")  OBVIOUS
  <2> HIDE DEF answer
  <2> QED BY <1>3, <2>1, <2>2, <2>3, <2>4, <2>5
<1>8. ASSUME NEW kind \in Kind, AnswerTap(kind) PROVE BothHold
  <2>1. PICK t \in Trip :
          OnScreen(t) /\ call' = [call EXCEPT ![kind][t] = [call[kind][t] EXCEPT !.at = "sent"]]
    BY <1>8 DEF AnswerTap, Request
  <2>2. CASE kind = "reject"  BY <1>4, <2>1, <2>2
  <2>3. CASE kind = "accept"
    <3>1. t \in Seen  BY <2>1 DEF OnScreen, OfferTypeOK, OverlayRow, Learnt
    <3>2. [call["accept"][t] EXCEPT !.at = "sent"] \in AnswerRow
          /\ [call["accept"][t] EXCEPT !.at = "sent"].at = "sent"  BY <1>1 DEF AnswerRow
    <3> QED BY <1>3, <2>1, <2>3, <3>1, <3>2
  <2> QED BY <2>2, <2>3 DEF Kind
<1>9. CASE CountdownEnds  BY <1>4, <1>5, <1>9 DEF CountdownEnds, Request
<1>10. CASE OfferingLoses
  <2>1. CASE UNCHANGED call  BY <1>5, <2>1
  <2>2. CASE \E kind \in Kind, t \in Trip : call' = [call EXCEPT ![kind][t] = NoAnswer]
    <3>1. PICK kind \in Kind, t \in Trip : call' = [call EXCEPT ![kind][t] = NoAnswer]
      BY <2>2
    <3> QED BY <1>3, <1>4, <1>6, <3>1 DEF Kind
  <2> QED BY <1>10, <2>1, <2>2 DEF OfferingLoses
<1>11. ASSUME NEW t \in Trip, AcceptAnswered(t) PROVE BothHold
  BY <1>3, <1>6, <1>11 DEF AcceptAnswered
<1>12. ASSUME NEW t \in Trip, RejectAnswered(t) PROVE BothHold
  BY <1>4, <1>12 DEF RejectAnswered
<1>13. ASSUME NEW t \in Trip, RejectFinds(t) \/ RejectWithdraws(t) PROVE BothHold
  <2>1. CASE RejectFinds(t)
    <3>1. call' = [call EXCEPT !["reject"][t] =
                     [call["reject"][t] EXCEPT !.at = IF Offered(t) THEN "withdraw" ELSE "answer"]]
      BY <2>1 DEF RejectFinds
    <3> QED BY <1>4, <3>1
  <2>2. CASE RejectWithdraws(t)
    <3>1. call' = [call EXCEPT !["reject"][t] = [call["reject"][t] EXCEPT !.at = "answer"]]
      BY <2>2 DEF RejectWithdraws
    <3> QED BY <1>4, <3>1
  <2> QED BY <1>13, <2>1, <2>2
<1> HIDE DEF BothHold
<1> QED BY <1>5, <1>7, <1>8, <1>9, <1>10, <1>11, <1>12, <1>13
  DEF OfferingNext, OfferHandled, offering, Offer, Lapse, SweepFinds, MovesOn,
      SweepWithdraws, PollSent, PollFinds, PollWithdraws, PollAnswered, HearOffer, RideKnown

LEMMA OfferStep ==
  ASSUME OfferInv, [OfferingNext]_offering
  PROVE  OfferInv'
<1> USE DEF OfferInv
<1>1. row' \in RideRow /\ Seen \subseteq Seen' /\ Over \subseteq Over'  BY RowsGoOn
<1>2. Learnt \subseteq Learnt'  BY <1>1 DEF Learnt
<1>3. OfferTypeOK'
  BY <1>1, <1>2, CallsTyped, OverlayStep, PollStep, PushStep DEF OfferTypeOK
<1>4. AskedFor' /\ Refused'  BY <1>1, AcceptsStep
<1>5. told' \subseteq Over'
  <2>1. ASSUME NEW t \in Trip, AcceptAnswered(t) PROVE told' \subseteq Over'
    BY <1>1, <2>1 DEF AcceptAnswered, Refused
  <2>2. CASE UNCHANGED told  BY <1>1, <2>2
  <2> QED BY <2>1, <2>2
    DEF OfferingNext, OfferHandled, offering, Offer, Lapse, SweepFinds, MovesOn, AcceptHandled,
        RejectFinds, RejectWithdraws, SweepWithdraws, PollSent, PollFinds, PollWithdraws,
        PollAnswered, HearOffer, AnswerTap, CountdownEnds, RejectAnswered, OfferingLoses, RideKnown
<1> QED BY <1>3, <1>4, <1>5

(* A driver who has read that a ride is no longer available is not on his    *)
(* way to it, however often he accepts, whichever answers are lost and       *)
(* whatever the sweep, the poll and the countdown do meanwhile               *)
(* (driverRide.routes.ts:186-227).                                           *)
THEOREM OffersRefused == Spec => []RefusalsAreTrue
<1>1. Init => OfferInv  BY OfferStart DEF Init
<1>2. OfferInv /\ [Next]_vars => OfferInv'  BY Steps, OfferStep
<1>3. OfferInv => RefusalsAreTrue  BY DEF OfferInv, Over, RefusalsAreTrue
<1> QED BY <1>1, <1>2, <1>3, PTL DEF Spec

-----------------------------------------------------------------------------
(* Ratings *)

Averages == {Average(column) : column \in [Finished -> Nat]}
RatingRow == [by : Side \cup {"none"}, trip : Finished \cup {NoRide}, stars : Nat,
              average : Averages \cup {0}, at : {"idle", "sent", "open", "closed"},
              passed : BOOLEAN]
FormRow == [trip : Finished \cup {NoRide}, waits : Rating \cup {NoRide}, saved : BOOLEAN]

(* A transaction that no commit has overtaken has computed the average of    *)
(* what it is about to leave behind, and the score of a side is that of what *)
(* has been committed unless the last commit had been overtaken.             *)
WithOwn(q) == [given[rating[q].by] EXCEPT ![rating[q].trip] = rating[q].stars]

RatingsInv ==
  /\ given \in [Side -> [Finished -> Nat]]
  /\ rating \in [Rating -> RatingRow]
  /\ after \in [Side -> FormRow]
  /\ \A q \in Rating : rating[q].at # "idle" => rating[q].by \in Side
  /\ \A q \in Rating : rating[q].at = "open" => rating[q].average \in Averages
  /\ \A q \in Rating : rating[q].at = "open" /\ ~rating[q].passed
                         => rating[q].average = Average(WithOwn(q))
  /\ score \in [Side -> Averages]
  /\ ScoresFollowRides

LEMMA NobodyRated ==
  ASSUME NEW column, \A t \in Finished : column[t] = 0
  PROVE  Average(column) = 50
<1>1. {t \in Finished : column[t] # 0} = {}  OBVIOUS
<1>2. Cardinality({}) = 0  BY FS_EmptySet
<1> QED BY <1>1, <1>2 DEF Average

LEMMA RatingsStart == RatingsInit => RatingsInv
<1> SUFFICES ASSUME RatingsInit PROVE RatingsInv  OBVIOUS
<1> USE DEF RatingsInit
<1>1. rating \in [Rating -> RatingRow]  BY DEF RatingRow, NoRating
<1>2. after \in [Side -> FormRow]  BY DEF FormRow, NoForm
<1>3. \A q \in Rating : rating[q].at = "idle"  BY DEF NoRating
<1>4. given \in [Side -> [Finished -> Nat]]  OBVIOUS
<1>5. \A side \in Side : Average(given[side]) = 50  BY NobodyRated
<1>6. score \in [Side -> Averages]  BY <1>4, <1>5 DEF Averages
<1>7. ScoresFollowRides  BY <1>5 DEF ScoresFollowRides
<1> QED BY <1>1, <1>2, <1>3, <1>4, <1>6, <1>7 DEF RatingsInv

LEMMA GivenTyped ==
  ASSUME given \in [Side -> [Finished -> Nat]], NEW side \in Side, NEW t, NEW n \in Nat
  PROVE  [given[side] EXCEPT ![t] = n] \in [Finished -> Nat]
OBVIOUS

LEMMA WithOwnTyped ==
  ASSUME RatingsInv, NEW q \in Rating, rating[q].at # "idle"
  PROVE  WithOwn(q) \in [Finished -> Nat]
<1>1. rating[q].by \in Side /\ rating[q].stars \in Nat  BY DEF RatingsInv, RatingRow
<1> QED BY <1>1, GivenTyped DEF RatingsInv, WithOwn

(* The requests that are not touched keep what they have read, as long as    *)
(* the rides they read do not change.                                        *)
Ready(r, column) ==
  /\ r.at # "idle" => r.by \in Side
  /\ r.at = "open" => r.average \in Averages
  /\ r.at = "open" /\ ~r.passed
       => r.average = Average([column[r.by] EXCEPT ![r.trip] = r.stars])

LEMMA ReadyMeans ==
  RatingsInv <=>
    /\ given \in [Side -> [Finished -> Nat]]
    /\ rating \in [Rating -> RatingRow]
    /\ after \in [Side -> FormRow]
    /\ \A q \in Rating : Ready(rating[q], given)
    /\ score \in [Side -> Averages]
    /\ ScoresFollowRides
BY DEF RatingsInv, Ready, WithOwn

LEMMA OneRating ==
  ASSUME RatingsInv, NEW q \in Rating, NEW r \in RatingRow, Ready(r, given),
         rating' = [rating EXCEPT ![q] = r], UNCHANGED <<given, score, torn>>,
         after' \in [Side -> FormRow]
  PROVE  RatingsInv'
<1>1. rating' \in [Rating -> RatingRow]  BY ReadyMeans
<1>2. \A p \in Rating : Ready(rating'[p], given')  BY ReadyMeans
<1>3. ScoresFollowRides'  BY ReadyMeans DEF ScoresFollowRides
<1>4. score' \in [Side -> Averages] /\ given' \in [Side -> [Finished -> Nat]]  BY ReadyMeans
<1> QED BY <1>1, <1>2, <1>3, <1>4 DEF RatingsInv, Ready, WithOwn

LEMMA FormsStep ==
  ASSUME RatingsInv, [RatingsNext]_rated
  PROVE  after' \in [Side -> FormRow]
<1>1. after \in [Side -> FormRow]  BY DEF RatingsInv
<1>2. NoForm \in FormRow  BY DEF NoForm, FormRow
<1>3. ASSUME NEW q \in Rating, RateAborts(q) PROVE after' \in [Side -> FormRow]
  BY <1>1, <1>3 DEF RateAborts, FormRow
<1>4. ASSUME NEW q \in Rating, RateAnswered(q) PROVE after' \in [Side -> FormRow]
  BY <1>1, <1>2, <1>4 DEF RateAnswered, Leave, FormRow
<1>5. ASSUME NEW side \in Side, GiveUpOn(side) PROVE after' \in [Side -> FormRow]
  BY <1>1, <1>5 DEF GiveUpOn, FormRow
<1>6. ASSUME NEW side \in Side, SkipRating(side) PROVE after' \in [Side -> FormRow]
  BY <1>1, <1>2, <1>6 DEF SkipRating, Leave
<1>7. ASSUME NEW side \in Side, NEW t \in Finished, TripOver(side, t)
      PROVE  after' \in [Side -> FormRow]
  BY <1>1, <1>7 DEF TripOver, FormRow
<1>8. ASSUME NEW side \in Side, NEW n \in Stars, NEW q \in Rating, SubmitRating(side, n, q)
      PROVE  after' \in [Side -> FormRow]
  BY <1>1, <1>8 DEF SubmitRating, FormRow
<1>9. CASE UNCHANGED after  BY <1>1, <1>9
<1> QED BY <1>3, <1>4, <1>5, <1>6, <1>7, <1>8, <1>9
  DEF RatingsNext, rated, RateOpen, RateClose

(* The commit: the ride carries the rating, the score is the average that    *)
(* was computed with it, and the other open transactions about the same side *)
(* are overtaken.                                                            *)
LEMMA RatingCommitted ==
  ASSUME RatingsInv, NEW q \in Rating, RateClose(q)
  PROVE  RatingsInv'
<1> DEFINE by == rating[q].by
<1>1. rating[q] \in RatingRow /\ rating[q].at = "open" /\ by \in Side
  BY DEF RateClose, RatingsInv
<1>2. given' = [given EXCEPT ![by] = WithOwn(q)]  BY DEF RateClose, WithOwn
<1>3. WithOwn(q) \in [Finished -> Nat]  BY <1>1, WithOwnTyped
<1>4. given' \in [Side -> [Finished -> Nat]]  BY <1>2, <1>3 DEF RatingsInv
<1>5. \A side \in Side : given'[side] = IF side = by THEN WithOwn(q) ELSE given[side]
  BY <1>2 DEF RatingsInv
<1>6. rating[q].average \in Averages /\ score \in [Side -> Averages]  BY <1>1 DEF RatingsInv
<1>7. score' = [score EXCEPT ![by] = rating[q].average]  BY DEF RateClose
<1>8. score' \in [Side -> Averages]  BY <1>6, <1>7
<1>9. ASSUME NEW side \in Side \ torn' PROVE score'[side] = Average(given'[side])
  <2>1. CASE side = by
    <3>1. ~rating[q].passed  BY <1>9, <2>1 DEF RateClose
    <3>2. rating[q].average = Average(WithOwn(q))  BY <1>1, <3>1 DEF RatingsInv
    <3> HIDE DEF by
    <3> QED BY <1>5, <1>6, <1>7, <2>1, <3>2
  <2>2. CASE side # by
    <3>1. side \notin torn  BY <1>9, <2>2 DEF RateClose
    <3>2. score[side] = Average(given[side])  BY <3>1 DEF RatingsInv, ScoresFollowRides
    <3> HIDE DEF by
    <3> QED BY <1>5, <1>6, <1>7, <2>2, <3>2
  <2> QED BY <2>1, <2>2
<1>10. ASSUME NEW p \in Rating PROVE rating'[p] \in RatingRow /\ Ready(rating'[p], given')
  <2>1. rating[p] \in RatingRow /\ Ready(rating[p], given)  BY ReadyMeans
  <2>2. CASE p = q
    <3>1. rating'[p] = [rating[q] EXCEPT !.at = "closed", !.average = 0, !.passed = FALSE]
      BY <2>2 DEF RateClose
    <3>2. rating'[p].at = "closed" /\ rating'[p].by = by  BY <1>1, <3>1 DEF RatingRow
    <3>3. rating'[p] \in RatingRow  BY <1>1, <3>1 DEF RatingRow
    <3> QED BY <1>1, <3>2, <3>3 DEF Ready
  <2>3. CASE p # q
    <3> DEFINE overtaken == rating[p].at = "open" /\ rating[p].by = by
    <3>1. rating'[p] = [rating[p] EXCEPT !.passed = rating[p].passed \/ overtaken]
      BY <2>3 DEF RateClose
    <3>2. rating'[p] \in RatingRow  BY <2>1, <3>1 DEF RatingRow
    <3>3. /\ rating'[p].at = rating[p].at /\ rating'[p].by = rating[p].by
          /\ rating'[p].trip = rating[p].trip /\ rating'[p].stars = rating[p].stars
          /\ rating'[p].average = rating[p].average
          /\ ~rating'[p].passed => ~rating[p].passed /\ ~overtaken
      BY <2>1, <3>1 DEF RatingRow
    <3>4. rating[p].at = "open" /\ ~overtaken => given'[rating[p].by] = given[rating[p].by]
      BY <1>5, <2>1 DEF Ready
    <3> HIDE DEF overtaken
    <3> QED BY <2>1, <3>2, <3>3, <3>4 DEF Ready
  <2> QED BY <2>2, <2>3
<1>11. rating' \in [Rating -> RatingRow]  BY <1>10 DEF RateClose
<1>12. after' \in [Side -> FormRow]  BY DEF RateClose, RatingsInv
<1> QED BY <1>4, <1>8, <1>9, <1>10, <1>11, <1>12
  DEF RatingsInv, Ready, WithOwn, ScoresFollowRides

LEMMA RatingsStep ==
  ASSUME RatingsInv, [RatingsNext]_rated
  PROVE  RatingsInv'
<1>1. after' \in [Side -> FormRow]  BY FormsStep
<1>2. \A q \in Rating : rating[q] \in RatingRow /\ Ready(rating[q], given)  BY ReadyMeans
<1>3. ASSUME NEW q \in Rating, RateOpen(q) PROVE RatingsInv'
  <2> DEFINE r == [rating[q] EXCEPT !.at = "open", !.average = Average(WithOwn(q))]
  <2>1. rating' = [rating EXCEPT ![q] = r]
    BY <1>2, <1>3 DEF RateOpen, WithOwn, RatingsInv
  <2>2. rating[q].at # "idle"  BY <1>3 DEF RateOpen
  <2>3. WithOwn(q) \in [Finished -> Nat]  BY <2>2, WithOwnTyped
  <2>4. Average(WithOwn(q)) \in Averages  BY <2>3 DEF Averages
  <2>5. r \in RatingRow  BY <1>2, <2>4 DEF RatingRow
  <2>6. r.by = rating[q].by /\ r.trip = rating[q].trip /\ r.stars = rating[q].stars
        /\ r.average = Average(WithOwn(q))
    BY <1>2 DEF RatingRow
  <2>7. Ready(r, given)  BY <1>2, <2>2, <2>4, <2>6 DEF Ready, WithOwn
  <2> HIDE DEF r
  <2> QED BY <1>1, <1>3, <2>1, <2>5, <2>7, OneRating DEF RateOpen
<1>4. ASSUME NEW q \in Rating, RateClose(q) PROVE RatingsInv'  BY <1>4, RatingCommitted
<1>5. NoRating \in RatingRow /\ Ready(NoRating, given)  BY DEF NoRating, RatingRow, Ready
<1>6. ASSUME NEW q \in Rating, RateAborts(q) PROVE RatingsInv'
  BY <1>1, <1>5, <1>6, OneRating DEF RateAborts
<1>7. ASSUME NEW q \in Rating, RateAnswered(q) PROVE RatingsInv'
  BY <1>1, <1>5, <1>7, OneRating DEF RateAnswered
<1>8. ASSUME NEW side \in Side, NEW n \in Stars, NEW q \in Rating, SubmitRating(side, n, q)
      PROVE  RatingsInv'
  <2> DEFINE r == [by |-> side, trip |-> after[side].trip, stars |-> n,
                   average |-> 0, at |-> "sent", passed |-> FALSE]
  <2>1. n \in Nat  BY StarsAssumption
  <2>2. after[side].trip \in Finished \cup {NoRide}  BY DEF RatingsInv, FormRow
  <2>3. r \in RatingRow  BY <2>1, <2>2 DEF RatingRow
  <2>4. Ready(r, given)  BY DEF Ready
  <2>5. rating' = [rating EXCEPT ![q] = r]  BY <1>8 DEF SubmitRating
  <2> HIDE DEF r
  <2> QED BY <1>1, <1>8, <2>3, <2>4, <2>5, OneRating DEF SubmitRating
<1>9. ASSUME UNCHANGED <<given, score, rating, torn>> PROVE RatingsInv'
  BY <1>1, <1>9 DEF RatingsInv, WithOwn, ScoresFollowRides
<1>10. ASSUME NEW side \in Side, GiveUpOn(side) \/ SkipRating(side) PROVE RatingsInv'
  BY <1>9, <1>10 DEF GiveUpOn, SkipRating
<1>11. ASSUME NEW side \in Side, NEW t \in Finished, TripOver(side, t) PROVE RatingsInv'
  BY <1>9, <1>11 DEF TripOver
<1>12. CASE UNCHANGED rated  BY <1>9, <1>12 DEF rated
<1> QED BY <1>3, <1>4, <1>6, <1>7, <1>8, <1>10, <1>11, <1>12 DEF RatingsNext

(* A driver's and a rider's score is the average of what their rides carry,  *)
(* for any rides, stars and requests, whatever is rated again, rolled back or *)
(* given up (driverRide.routes.ts:559-564, customerRide.routes.ts:321-324),   *)
(* except after a commit that another one about the same side had overtaken, *)
(* and then only until the next commit that none has.                        *)
THEOREM ScoresFollow == Spec => []ScoresFollowRides
<1>1. Init => RatingsInv  BY RatingsStart DEF Init
<1>2. RatingsInv /\ [Next]_vars => RatingsInv'  BY Steps, RatingsStep
<1>3. RatingsInv => ScoresFollowRides  BY DEF RatingsInv
<1> QED BY <1>1, <1>2, <1>3, PTL DEF Spec
=============================================================================
