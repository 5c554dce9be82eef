----------------------------- MODULE Verification -----------------------------
(***************************************************************************)
(* How a driver comes to be verified: sign-up, which creates the driver    *)
(* and then its documents; uploads; the automatic verification that the    *)
(* polls of the driver's own pages carry out; the decisions of admins, two *)
(* statements each; and the pages that take a driver from one to the next. *)
(*                                                                         *)
(* No statement touches the rows of two drivers, so there is one driver.   *)
(***************************************************************************)
EXTENDS Naturals

CONSTANTS Doc,        \* KYC_DOC_DEFS
          Admin,      \* admin panels with the driver's page open
          MaxFaults   \* bound on requests that fail half way

ASSUME DocAssumption == Doc # {}
ASSUME FaultsAssumption == MaxFaults \in Nat

VARIABLES row,      \* the driver's row, NoDriver before sign-up
          docs,     \* status of each document, "none" when it has no row
          aged,     \* documents under review for more than AUTO_VERIFY_AFTER_MS
          req,      \* requests of the driver's app: sign-in and two polls
          adm,      \* decision of each admin that is being carried out
          view,     \* verification status each admin panel shows
          page,     \* where the driver's app is
          session,  \* the app holds tokens
          shown,    \* verification status in the app's cache
          list,     \* document list in the app's cache: what the KYC page sees in it
          faults

VARIABLES uploads,   \* (history) uploads of a document, by the last rejection
          approval,  \* (history) approvals, by the last rejection
          settled    \* (history) the last rejection ran undisturbed

app     == <<page, session, shown, list>>
history == <<uploads, approval, settled>>
vvars   == <<row, docs, aged, req, adm, view, app, faults, history>>

Verdict  == {"pending", "verified", "rejected"}
KycStatus == {"not_uploaded", "pending_review", "verified", "rejected"}
Age      == {"never", "before", "since"}   \* relative to the last rejection

NoDriver == [name |-> FALSE, verification |-> "none"]
NewDriver == [NoDriver EXCEPT !.verification = "pending"]
Idle     == [at |-> "idle", due |-> {}, all |-> FALSE]
Undecided == [op |-> "none", at |-> "idle"]
At(q, at) == req[q].at = at
Answered(q) == req' = [req EXCEPT ![q] = Idle]
Goes(q, at) == req' = [req EXCEPT ![q].at = at]

Quiet == \A q \in DOMAIN req : req[q] = Idle
Older(age) == IF age = "since" THEN "before" ELSE age
-----------------------------------------------------------------------------
(* The pages of the driver's app *)

(* The root page sends a driver where its row says, the OTP page likewise.   *)
Landing(d) ==
  IF ~d.name THEN "kyc"
  ELSE IF d.verification # "verified" THEN "pending" ELSE "dashboard"

Launch ==
  /\ page = "closed"
  /\ page' = IF session /\ row # NoDriver THEN Landing(row) ELSE "auth"
  /\ shown' = "none" /\ list' = "none"
  /\ UNCHANGED <<row, docs, aged, req, adm, view, session, faults, history>>

(* A request whose app is gone does on the server what it does for an open   *)
(* one, so an app is closed when it has none.                                *)
Close ==
  /\ page # "closed" /\ Quiet
  /\ page' = "closed"
  /\ UNCHANGED <<row, docs, aged, req, adm, view, session, shown, list, faults, history>>

(* From the profile, which like the dashboard is for drivers who are through. *)
LogOut ==
  /\ page = "dashboard" /\ Quiet
  /\ page' = "auth" /\ session' = FALSE
  /\ shown' = "none" /\ list' = "none"
  /\ UNCHANGED <<row, docs, aged, req, adm, view, faults, history>>

(* The KYC page lets a driver go on when no listed document is missing; an   *)
(* empty list has none missing.                                              *)
Listed == IF \E d \in Doc : docs[d] = "not_uploaded" THEN "missing" ELSE "all_uploaded"

Upload(d) ==
  /\ page = "kyc" /\ list # "none" /\ docs[d] # "none"
  /\ docs' = [docs EXCEPT ![d] = "pending_review"]
  /\ aged' = aged \ {d}
  /\ uploads' = [uploads EXCEPT ![d] = "since"]
  /\ UNCHANGED <<row, req, adm, view, app, faults, approval, settled>>

KycContinue ==
  /\ page = "kyc" /\ list = "all_uploaded"
  /\ page' = "vehicle"
  /\ UNCHANGED <<row, docs, aged, req, adm, view, session, shown, list, faults, history>>

SubmitVehicle ==
  /\ page = "vehicle"
  /\ row' = [row EXCEPT !.name = TRUE]
  /\ page' = "pending"
  /\ UNCHANGED <<docs, aged, req, adm, view, session, shown, list, faults, history>>

(* The pending page goes on by itself once it has seen "verified", and       *)
(* offers to resubmit once it has seen "rejected".                           *)
PendingContinue ==
  /\ page = "pending" /\ shown = "verified"
  /\ page' = "dashboard"
  /\ UNCHANGED <<row, docs, aged, req, adm, view, session, shown, list, faults, history>>

PendingResubmit ==
  /\ page = "pending" /\ shown = "rejected"
  /\ page' = "kyc"
  /\ UNCHANGED <<row, docs, aged, req, adm, view, session, shown, list, faults, history>>
-----------------------------------------------------------------------------
(* POST /driver/auth/otp/verify, the code being right.  A driver whom an     *)
(* admin has suspended, at any time, is refused.                             *)

SignIn ==
  /\ page = "auth" /\ At("login", "idle")
  /\ Goes("login", "find")
  /\ UNCHANGED <<row, docs, aged, adm, view, app, faults, history>>

SignedIn(isNewDriver, driver) ==
  /\ Answered("login")
  /\ session' = TRUE
  /\ page' = IF isNewDriver THEN "kyc" ELSE Landing(driver)
  /\ UNCHANGED <<shown, list>>

FindDriver ==
  /\ At("login", "find")
  /\ CASE row = NoDriver -> Goes("login", "create") /\ UNCHANGED app
       [] OTHER          -> SignedIn(FALSE, row) \/ (Answered("login") /\ UNCHANGED app)
  /\ UNCHANGED <<row, docs, aged, adm, view, faults, history>>

CreateDriver ==
  /\ At("login", "create")
  /\ row' = NewDriver
  /\ Goes("login", "docs")
  /\ UNCHANGED <<docs, aged, adm, view, app, faults, history>>

CreateDocs ==
  /\ At("login", "docs")
  /\ docs' = [d \in Doc |-> "not_uploaded"]
  /\ SignedIn(TRUE, NewDriver)
  /\ UNCHANGED <<row, aged, adm, view, faults, history>>
-----------------------------------------------------------------------------
(* GET /kyc ("kyc") and GET /verification-status ("status"), each of which   *)
(* begins with autoVerifyPendingDocs                                         *)

(* useKycDocuments fetches when a page mounts, after an upload, and again    *)
(* while a document is under review.                                         *)
PollKyc ==
  /\ page \in {"kyc", "pending", "dashboard"} /\ At("kyc", "idle")
  /\ Goes("kyc", "list")
  /\ UNCHANGED <<row, docs, aged, adm, view, app, faults, history>>

(* useVerificationStatus polls until it has seen "verified". *)
PollStatus ==
  /\ page = "pending" /\ shown # "verified" /\ At("status", "idle")
  /\ Goes("status", "list")
  /\ UNCHANGED <<row, docs, aged, adm, view, app, faults, history>>

Polls == {"kyc", "status"}

ToMark(q, due) ==
  req' = [req EXCEPT ![q] = [@ EXCEPT !.due = due,
                                      !.at = IF due = {} THEN "read" ELSE "mark"]]

ListDue(q) ==
  /\ At(q, "list")
  /\ ToMark(q, aged)
  /\ UNCHANGED <<row, docs, aged, adm, view, app, faults, history>>

(* The updates of Promise.all, by id and in any order. *)
MarkVerified(q, d) ==
  /\ At(q, "mark") /\ d \in req[q].due
  /\ docs' = [docs EXCEPT ![d] = "verified"]
  /\ aged' = aged \ {d}
  /\ ToMark(q, req[q].due \ {d})
  /\ UNCHANGED <<row, adm, view, app, faults, history>>

AnswerKyc ==
  /\ At("kyc", "read")
  /\ list' = Listed
  /\ Answered("kyc")
  /\ UNCHANGED <<row, docs, aged, adm, view, page, session, shown, faults, history>>

(* Mutation: without docs.length > 0, a driver without documents has them    *)
(* all verified.                                                             *)
AllVerifiedOrNone == \A d \in Doc : docs[d] \in {"verified", "none"}

AllVerified == \A d \in Doc : docs[d] = "verified"

ReadDocs ==
  /\ At("status", "read")
  /\ req' = [req EXCEPT !["status"] = [@ EXCEPT !.all = AllVerified, !.at = "driver"]]
  /\ UNCHANGED <<row, docs, aged, adm, view, app, faults, history>>

(* Mutation: only a pending driver is ever verified by its documents. *)
ReadPendingDriver ==
  /\ At("status", "driver")
  /\ IF req["status"].all /\ row.verification = "pending"
       THEN Goes("status", "update") /\ UNCHANGED shown
       ELSE Answered("status") /\ shown' = row.verification
  /\ UNCHANGED <<row, docs, aged, adm, view, page, session, list, faults, history>>

ReadDriver ==
  /\ At("status", "driver")
  /\ IF req["status"].all /\ row.verification \in {"pending", "rejected"}
       THEN Goes("status", "update") /\ UNCHANGED shown
       ELSE Answered("status") /\ shown' = row.verification
  /\ UNCHANGED <<row, docs, aged, adm, view, page, session, list, faults, history>>

UpdateDriver ==
  /\ At("status", "update")
  /\ row' = [row EXCEPT !.verification = "verified"]
  /\ shown' = "verified"
  /\ Answered("status")
  /\ UNCHANGED <<docs, aged, adm, view, page, session, list, faults, history>>

Ages(d) ==
  /\ docs[d] = "pending_review" /\ d \notin aged
  /\ aged' = aged \cup {d}
  /\ UNCHANGED <<row, docs, req, adm, view, app, faults, history>>

(* A request that fails is not repaired.  The polls come again. *)
RequestFails(q) ==
  /\ req[q] # Idle /\ faults < MaxFaults
  /\ Answered(q)
  /\ faults' = faults + 1
  /\ UNCHANGED <<row, docs, aged, adm, view, app, history>>
-----------------------------------------------------------------------------
(* The admin's page of the driver *)

OpenPanel(a) ==
  /\ adm[a] = Undecided /\ row # NoDriver
  /\ view' = [view EXCEPT ![a] = row.verification]
  /\ UNCHANGED <<row, docs, aged, req, adm, app, faults, history>>

(* The buttons a panel offers depend on the status it shows. *)
Offers(a, op) ==
  /\ adm[a] = Undecided
  /\ view[a] \in Verdict \ {IF op = "approve" THEN "verified" ELSE "rejected"}

Approve(a) ==
  /\ Offers(a, "approve")
  /\ row' = [row EXCEPT !.verification = "verified"]
  /\ adm' = [adm EXCEPT ![a] = [op |-> "approve", at |-> "docs"]]
  /\ approval' = "since"
  /\ UNCHANGED <<docs, aged, req, view, app, faults, uploads, settled>>

Reject(a) ==
  /\ Offers(a, "reject")
  /\ row' = [row EXCEPT !.verification = "rejected"]
  /\ adm' = [adm EXCEPT ![a] = [op |-> "reject", at |-> "docs"]]
  /\ uploads' = [d \in Doc |-> Older(uploads[d])]
  /\ approval' = Older(approval) /\ settled' = FALSE
  /\ UNCHANGED <<docs, aged, req, view, app, faults>>

Rewritten(from, to) ==
  LET hit == {d \in Doc : docs[d] \in from} IN
  /\ docs' = [d \in Doc |-> IF d \in hit THEN to ELSE docs[d]]
  /\ aged' = aged \ hit

ApproveDocs(a) ==
  /\ adm[a] = [op |-> "approve", at |-> "docs"]
  /\ Rewritten({"pending_review", "rejected"}, "verified")
  /\ adm' = [adm EXCEPT ![a] = Undecided]
  /\ view' = [view EXCEPT ![a] = "verified"]
  /\ UNCHANGED <<row, req, app, faults, history>>

(* Nothing else is under way, and nothing has changed the verdict since the  *)
(* first statement.                                                          *)
Undisturbed(a) ==
  /\ Quiet /\ \A b \in Admin \ {a} : adm[b] = Undecided
  /\ row.verification = "rejected"

(* Mutation: documents under review are left to the automatic verification. *)
RejectVerifiedDocs(a) ==
  /\ adm[a] = [op |-> "reject", at |-> "docs"]
  /\ Rewritten({"verified"}, "rejected")
  /\ adm' = [adm EXCEPT ![a] = Undecided]
  /\ view' = [view EXCEPT ![a] = "rejected"]
  /\ settled' = Undisturbed(a)
  /\ UNCHANGED <<row, req, app, faults, uploads, approval>>

RejectDocs(a) ==
  /\ adm[a] = [op |-> "reject", at |-> "docs"]
  /\ Rewritten({"verified", "pending_review"}, "rejected")
  /\ adm' = [adm EXCEPT ![a] = Undecided]
  /\ view' = [view EXCEPT ![a] = "rejected"]
  /\ settled' = Undisturbed(a)
  /\ UNCHANGED <<row, req, app, faults, uploads, approval>>

AdminFails(a) ==
  /\ adm[a] # Undecided /\ faults < MaxFaults
  /\ adm' = [adm EXCEPT ![a] = Undecided]
  /\ faults' = faults + 1
  /\ UNCHANGED <<row, docs, aged, req, view, app, history>>

-----------------------------------------------------------------------------
Init ==
  /\ row = NoDriver /\ docs = [d \in Doc |-> "none"] /\ aged = {}
  /\ req = [q \in Polls \cup {"login"} |-> Idle]
  /\ adm = [a \in Admin |-> Undecided] /\ view = [a \in Admin |-> "none"]
  /\ page = "auth" /\ session = FALSE /\ shown = "none" /\ list = "none"
  /\ faults = 0
  /\ uploads = [d \in Doc |-> "never"] /\ approval = "never" /\ settled = FALSE

Poll(q) ==
  ListDue(q) \/ \E d \in Doc : MarkVerified(q, d)

SignUp == FindDriver \/ CreateDriver \/ CreateDocs
GetKyc == Poll("kyc") \/ AnswerKyc
GetStatus == Poll("status") \/ ReadDocs \/ ReadDriver \/ UpdateDriver

Next ==
  \/ Launch \/ Close \/ LogOut \/ SignIn \/ SignUp
  \/ \E d \in Doc : Upload(d) \/ Ages(d)
  \/ KycContinue \/ SubmitVehicle \/ PendingContinue \/ PendingResubmit
  \/ PollKyc \/ PollStatus \/ GetKyc \/ GetStatus
  \/ \E q \in Polls \cup {"login"} : RequestFails(q)
  \/ \E a \in Admin : OpenPanel(a) \/ Approve(a) \/ Reject(a) \/ ApproveDocs(a)
                        \/ RejectDocs(a) \/ AdminFails(a)

Spec == Init /\ [][Next]_vvars

(* Handlers finish, the interval of useVerificationStatus goes on while the  *)
(* page is open, reviews come of age, and the timer of the pending page      *)
(* fires.  Nobody is obliged to do anything.                                 *)
FairSpec ==
  /\ Spec
  /\ WF_vvars(PollStatus) /\ WF_vvars(GetStatus) /\ WF_vvars(PendingContinue)
  /\ \A d \in Doc : WF_vvars(Ages(d))
-----------------------------------------------------------------------------
DriverRow == [name : BOOLEAN, verification : Verdict]
ReqRow    == [at : {"idle", "find", "create", "docs", "list", "mark", "read", "driver",
                    "update"},
              due : SUBSET Doc, all : BOOLEAN]
AdmRow    == {Undecided} \cup [op : {"approve", "reject"}, at : {"docs"}]

(* The driver's row, its documents and what each party has in flight or on   *)
(* its screen keep to what the handlers can produce; a document has a row    *)
(* only when its driver has one, and only a listed document is marked.       *)
TypeOK ==
  /\ row \in DriverRow \cup {NoDriver}
  /\ docs \in [Doc -> KycStatus] \/ docs = [d \in Doc |-> "none"]
  /\ aged \subseteq {d \in Doc : docs[d] = "pending_review"}
  /\ req \in [Polls \cup {"login"} -> ReqRow]
  /\ \A q \in Polls : /\ req[q].at \notin {"find", "create", "docs"}
                      /\ (req[q].at = "mark") = (req[q].due # {})
  /\ req["login"].at \in {"idle", "find", "create", "docs"}
  /\ adm \in [Admin -> AdmRow]
  /\ view \in [Admin -> Verdict \cup {"none"}]
  /\ page \in {"closed", "auth", "kyc", "vehicle", "pending", "dashboard"}
  /\ session \in BOOLEAN /\ shown \in Verdict \cup {"none"}
  /\ list \in {"none", "missing", "all_uploaded"}
  /\ faults \in 0..MaxFaults
  /\ uploads \in [Doc -> Age] /\ approval \in Age /\ settled \in BOOLEAN
  /\ row = NoDriver => docs = [d \in Doc |-> "none"]

(* Nobody drives unseen: a driver is verified only if every document has     *)
(* been uploaded at some time or an admin has approved, also when sign-up    *)
(* broke off before the documents were created.                              *)
VerifiedOnlyWhenSeen ==
  row.verification = "verified" =>
    approval # "never" \/ \A d \in Doc : uploads[d] # "never"

(* Once a rejection has run with nothing else under way, the automatic       *)
(* verification does not overturn it before every document is uploaded anew  *)
(* or an admin approves (the comment on verification-status).                *)
RejectionStands ==
  settled /\ approval # "since" /\ (\E d \in Doc : uploads[d] # "since")
    => row.verification = "rejected"

(* A driver who waits on the pending page with every document uploaded, and  *)
(* uploaded anew if rejected before, is let through unless a document is     *)
(* rejected or the driver leaves.                                            *)
UploadsAreAnswered ==
  (page = "pending" /\ \A d \in Doc : docs[d] \in {"pending_review", "verified"})
    ~> (page # "pending" \/ \E d \in Doc : docs[d] = "rejected")
=============================================================================
