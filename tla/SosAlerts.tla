----------------------------- MODULE SosAlerts -----------------------------
(***************************************************************************)
(* The in-app emergency alert: POST .../rides/:id/sos of the customer's    *)
(* and of the driver's routes, which differ in the role they write and     *)
(* look for, and the button and sheet of both ride pages.  A call is one   *)
(* request and its handler; a phone that has lost the answer of one may    *)
(* make another while the first is still being handled.                    *)
(***************************************************************************)
EXTENDS RideChannel

CONSTANTS SosCall,     \* the requests there may be
          MaxFaults    \* bound: restarts, and notices to admins that fail

ASSUME FaultsAssumption == MaxFaults \in Nat
ASSUME CallAssumption == "none" \notin SosCall   \* NoCall is no request

VARIABLES calls,     \* the requests: their side, how far their handler is, their row
          waiting,   \* the request each side's sheet is waiting for
          said,      \* sides that have been told "Emergency alert sent"
          faults     \* restarts and failed notices

sos == <<calls, waiting, said, faults>>

SosRole == {"customer", "driver"}
SosActive == ride = "committed"               \* SOS_ACTIVE_STATUSES
Allowed(c) == SosActive /\ Owns(calls[c].role)
Unmade == [role |-> "customer", at |-> "unmade", alert |-> "none", told |-> FALSE]
NoCall == "none"

At(stage) == {c \in SosCall : calls[c].at = stage}
Ends(c) == waiting' = [role \in SosRole |-> IF waiting[role] = c THEN NoCall ELSE waiting[role]]

(* Mutation: the alerts of either side. *)
RecentOfAny(role) == {c \in SosCall : calls[c].alert = "recent"}

(* The alerts of this side of the last two minutes. *)
Recent(role) == {c \in SosCall : calls[c].role = role /\ calls[c].alert = "recent"}

-----------------------------------------------------------------------------
(* "Send alert", disabled while it is pending. *)
Tap(role, c) ==
  /\ InCache(role)
  /\ waiting[role] = NoCall /\ c \in At("unmade")
  /\ calls' = [calls EXCEPT ![c] = [@ EXCEPT !.role = role, !.at = "asked"]]
  /\ waiting' = [waiting EXCEPT ![role] = c]
  /\ said' = said \ {role}
  /\ UNCHANGED <<ride, driver, faults>>

(* 409 outside an active ride, 404 for a driver taken off it. *)
Refuse(c) ==
  /\ c \in At("asked") /\ ~Allowed(c)
  /\ calls' = [calls EXCEPT ![c].at = "gone"]
  /\ Ends(c)
  /\ UNCHANGED <<ride, driver, said, faults>>

(* A repeated tap is answered with the alert there is. *)
FindRecent(c) ==
  /\ c \in At("asked") /\ Allowed(c) /\ Recent(calls[c].role) # {}
  /\ calls' = [calls EXCEPT ![c].at = "answering"]
  /\ UNCHANGED <<ride, driver, waiting, said, faults>>

FindNone(c) ==
  /\ c \in At("asked") /\ Allowed(c) /\ Recent(calls[c].role) = {}
  /\ calls' = [calls EXCEPT ![c].at = "creating"]
  /\ UNCHANGED <<ride, driver, waiting, said, faults>>

CreateAlert(c) ==
  /\ c \in At("creating")
  /\ calls' = [calls EXCEPT ![c] = [@ EXCEPT !.at = "telling", !.alert = "recent"]]
  /\ UNCHANGED <<ride, driver, waiting, said, faults>>

(* notifyAllAdmins: a row for every admin (index.ts:49 sees to one), or none *)
(* and a line in the log.                                                     *)
NotifyAllAdmins(c) ==
  /\ c \in At("telling")
  /\ \E told \in BOOLEAN :
       /\ faults' = IF told THEN faults ELSE faults + 1
       /\ faults' <= MaxFaults
       /\ calls' = [calls EXCEPT ![c] = [@ EXCEPT !.at = "answering", !.told = told]]
  /\ UNCHANGED <<ride, driver, waiting, said>>

(* The sheet closes and the page says that the alert was sent. *)
SosAnswered(c) ==
  /\ c \in At("answering")
  /\ calls' = [calls EXCEPT ![c].at = "gone"]
  /\ said' = said \cup {role \in SosRole : waiting[role] = c}
  /\ Ends(c)
  /\ UNCHANGED <<ride, driver, faults>>

(* The phone's request fails on its way; the handler goes on. *)
SosLost(role) ==
  /\ waiting[role] # NoCall
  /\ waiting' = [waiting EXCEPT ![role] = NoCall]
  /\ UNCHANGED <<ride, driver, calls, said, faults>>

SosRestart ==
  /\ faults < MaxFaults /\ faults' = faults + 1
  /\ calls' = [c \in SosCall |-> IF calls[c].at = "unmade" THEN calls[c]
                                 ELSE [calls[c] EXCEPT !.at = "gone"]]
  /\ waiting' = [role \in SosRole |-> NoCall]
  /\ UNCHANGED <<ride, driver, said>>

(* SOS_DEDUPE_WINDOW_MS have passed since an alert. *)
Age(c) ==
  /\ calls[c].alert = "recent"
  /\ calls' = [calls EXCEPT ![c].alert = "old"]
  /\ UNCHANGED <<ride, driver, waiting, said, faults>>

-----------------------------------------------------------------------------
SosInit ==
  /\ calls = [c \in SosCall |-> Unmade]
  /\ waiting = [role \in SosRole |-> NoCall]
  /\ said = {} /\ faults = 0

SosHandled(c) ==
  \/ Refuse(c) \/ FindRecent(c) \/ FindNone(c) \/ CreateAlert(c) \/ SosAnswered(c) \/ Age(c)

SosNext ==
  \/ SosRestart
  \/ \E role \in SosRole : SosLost(role) \/ \E c \in SosCall : Tap(role, c)
  \/ \E c \in SosCall : SosHandled(c)

(* A side that reads "Emergency alert sent" has an alert of its own, whatever *)
(* the other side has raised, and unless a notice failed or the server was    *)
(* restarted the admins have been told of one, or are about to be             *)
(* (customerRide.routes.ts:434-437, driverRide.routes.ts:517-519).            *)
SosIsHeard ==
  \A role \in said :
    \E c \in SosCall :
      /\ calls[c].role = role /\ calls[c].alert # "none"
      /\ faults = 0 => calls[c].told \/ calls[c].at = "telling"
=============================================================================
