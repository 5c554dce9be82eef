------------------------------- MODULE Inbox -------------------------------
(***************************************************************************)
(* The lists in which someone marks rows as dealt with: the customer's     *)
(* notifications (read), the support dialog of a customer or a driver and  *)
(* the admins' support page (resolved).  Each is a table read through a    *)
(* react-query cache that a mutation invalidates when it has succeeded.    *)
(* `view' is the list on one screen; what other screens and the server do  *)
(* to the table is the environment's.                                      *)
(***************************************************************************)
EXTENDS Naturals, Sequences

CONSTANTS MaxRows,   \* bound: rows of the table
          Nothing    \* undefined

ASSUME RowsAssumption == MaxRows \in Nat /\ Nothing \notin Seq({"open", "done"})

VARIABLES view,      \* "bell", "dialog" or "desk"
          table,     \* Notification or SupportTicket: each row unread/open or read/resolved
          screen,    \* whether the screen is open, what it lists, the fetch in flight
          marking,   \* the mutations in flight, and whether they have been carried out
          marked,    \* rows whose marking succeeded since the screen was opened
          ticket     \* the ticket being submitted: "none", "sent" or "stored"

inbox == <<view, table, screen, marking, marked, ticket>>

View == {"bell", "dialog", "desk"}
Closed == [open |-> FALSE, list |-> Nothing, fetch |-> "none", rows |-> <<>>, stale |-> FALSE]
Asking == [screen EXCEPT !.fetch = "asked", !.rows = <<>>]
MarkRow(i) == [all |-> FALSE, rows |-> {i}, written |-> FALSE]
MarkAllRows == [all |-> TRUE, rows |-> {}, written |-> FALSE]
Marked(rows) == [i \in DOMAIN table |-> IF i \in rows THEN "done" ELSE table[i]]

(* Mutation: a fetch in flight is taken for the one that is needed. *)
InvalidatedIfIdle ==
  CASE ~screen.open -> [screen EXCEPT !.stale = TRUE]
    [] screen.open /\ screen.fetch # "none" -> screen
    [] OTHER -> Asking

(* invalidateQueries: a list on the screen is fetched anew and the answer to  *)
(* an earlier fetch is dropped, except that a first fetch is left to finish;  *)
(* a list off the screen is stale.                                            *)
Invalidated ==
  CASE ~screen.open -> [screen EXCEPT !.stale = TRUE]
    [] screen.open /\ screen.list = Nothing /\ screen.fetch # "none" -> screen
    [] OTHER -> Asking

-----------------------------------------------------------------------------
(* The list *)

(* A list younger than staleTime that nothing has invalidated is not fetched. *)
OpenScreen ==
  /\ ~screen.open
  /\ \E fresh \in BOOLEAN :
       /\ fresh => screen.list # Nothing /\ ~screen.stale
       /\ screen' = IF fresh \/ screen.fetch # "none"
                      THEN [screen EXCEPT !.open = TRUE]
                      ELSE [Asking EXCEPT !.open = TRUE]
  /\ UNCHANGED <<view, table, marking, marked, ticket>>

LeaveScreen ==
  /\ screen.open
  /\ screen' = [screen EXCEPT !.open = FALSE]
  /\ marked' = {}
  /\ UNCHANGED <<view, table, marking, ticket>>

(* The window is focused and the list is stale. *)
FetchAgain ==
  /\ screen.open /\ screen.fetch = "none"
  /\ screen' = Asking
  /\ UNCHANGED <<view, table, marking, marked, ticket>>

FetchRead ==
  /\ screen.fetch = "asked"
  /\ screen' = [screen EXCEPT !.fetch = "read", !.rows = table]
  /\ UNCHANGED <<view, table, marking, marked, ticket>>

FetchAnswered ==
  /\ screen.fetch = "read"
  /\ screen' = [screen EXCEPT !.list = screen.rows, !.fetch = "none", !.rows = <<>>,
                               !.stale = FALSE]
  /\ UNCHANGED <<view, table, marking, marked, ticket>>

FetchFails ==
  /\ screen.fetch # "none"
  /\ screen' = [screen EXCEPT !.fetch = "none", !.rows = <<>>, !.stale = TRUE]
  /\ UNCHANGED <<view, table, marking, marked, ticket>>

-----------------------------------------------------------------------------
(* Marking *)

(* A notification is tapped, or "Resolve", which is disabled while pending.   *)
Mark(i) ==
  /\ screen.open /\ screen.list # Nothing /\ i \in DOMAIN screen.list /\ screen.list[i] = "open"
  /\ view = "bell" \/ (view = "desk" /\ marking = {})
  /\ marking' = marking \cup {MarkRow(i)}
  /\ UNCHANGED <<view, table, screen, marked, ticket>>

(* "Mark all read" *)
MarkAll ==
  /\ view = "bell" /\ screen.open /\ screen.list # Nothing /\ "open" \in {screen.list[i] : i \in DOMAIN screen.list}
  /\ \A mark \in marking : ~mark.all
  /\ marking' = marking \cup {MarkAllRows}
  /\ UNCHANGED <<view, table, screen, marked, ticket>>

(* updateMany, for all of this owner's rows or for the one. *)
MarkWritten(mark) ==
  /\ mark \in marking /\ ~mark.written
  /\ LET rows == IF mark.all THEN DOMAIN table ELSE mark.rows IN
       /\ table' = Marked(rows)
       /\ marking' = (marking \ {mark}) \cup {[mark EXCEPT !.rows = rows, !.written = TRUE]}
  /\ UNCHANGED <<view, screen, marked, ticket>>

MarkSucceeds(mark) ==
  /\ mark \in marking /\ mark.written
  /\ marking' = marking \ {mark}
  /\ marked' = IF screen.open THEN marked \cup mark.rows ELSE marked
  /\ screen' = Invalidated
  /\ UNCHANGED <<view, table, ticket>>

(* The request or its answer is lost: onSuccess does not run. *)
MarkFails(mark) ==
  /\ mark \in marking
  /\ marking' = marking \ {mark}
  /\ UNCHANGED <<view, table, screen, marked, ticket>>

-----------------------------------------------------------------------------
(* Rows of the table *)

(* notifyRideEvent, another ticket. *)
Arrives ==
  /\ Len(table) < MaxRows
  /\ table' = Append(table, "open")
  /\ UNCHANGED <<view, screen, marking, marked, ticket>>

(* Another device of the customer, or another admin. *)
DealtWithElsewhere(i) ==
  /\ i \in DOMAIN table /\ table[i] = "open"
  /\ table' = Marked({i})
  /\ UNCHANGED <<view, screen, marking, marked, ticket>>

(* The dialog empties its fields as soon as the ticket is sent. *)
SubmitTicket ==
  /\ view = "dialog" /\ screen.open /\ ticket = "none" /\ Len(table) < MaxRows
  /\ ticket' = "sent"
  /\ UNCHANGED <<view, table, screen, marking, marked>>

StoreTicket ==
  /\ ticket = "sent" /\ Len(table) < MaxRows
  /\ ticket' = "stored"
  /\ table' = Append(table, "open")
  /\ UNCHANGED <<view, screen, marking, marked>>

TicketAnswered ==
  /\ ticket = "stored"
  /\ ticket' = "none"
  /\ screen' = Invalidated
  /\ UNCHANGED <<view, table, marking, marked>>

(* What was typed is gone, with the ticket if it was not stored. *)
TicketFails ==
  /\ ticket # "none"
  /\ ticket' = "none"
  /\ UNCHANGED <<view, table, screen, marking, marked>>

-----------------------------------------------------------------------------
InboxInit ==
  /\ view \in View
  /\ table = <<>> /\ screen = Closed
  /\ marking = {} /\ marked = {} /\ ticket = "none"

InboxNext ==
  \/ OpenScreen \/ LeaveScreen
  \/ FetchAgain \/ FetchRead \/ FetchAnswered \/ FetchFails
  \/ SubmitTicket \/ StoreTicket \/ TicketAnswered \/ TicketFails
  \/ Arrives \/ MarkAll
  \/ \E i \in 1 .. MaxRows : Mark(i) \/ DealtWithElsewhere(i)
  \/ \E mark \in marking : MarkWritten(mark) \/ MarkSucceeds(mark) \/ MarkFails(mark)

(* As long as a screen stays open, a row it has marked with success is shown  *)
(* so once nothing is being fetched, although a fetch that read the row       *)
(* before may still be under way when the answer comes                        *)
(* (useNotifications.ts:14-28, useAdminSupport.ts:13-21).                     *)
MarkedIsShown ==
  screen.open /\ screen.fetch = "none" /\ ~screen.stale =>
    \A i \in marked : i \in DOMAIN screen.list /\ screen.list[i] = "done"
=============================================================================
