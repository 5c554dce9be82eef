-------------------------- MODULE VerificationProofs --------------------------
(* No driver is verified unseen, and a rejection stands, for any documents,  *)
(* any admins and any number of failing requests.                            *)
EXTENDS Verification, TLAPS

-----------------------------------------------------------------------------
(* Types *)

(* Only sign-up meets a driver without a row, and only with a row does a     *)
(* document come under review.                                               *)
Founded ==
  /\ req["login"].at = "create" => row = NoDriver
  /\ req["login"].at = "docs" => row # NoDriver /\ \A d \in Doc : docs[d] = "none"
  /\ page \in {"kyc", "vehicle", "pending", "dashboard"} => row # NoDriver
  /\ \A a \in Admin : view[a] # "none" \/ adm[a] # Undecided => row # NoDriver
  /\ req["status"].at = "update" => row # NoDriver
  /\ \A q \in Polls : req[q].due # {} => docs \in [Doc -> KycStatus]

Typed == TypeOK /\ Founded

Named(r)       == [r EXCEPT !.name = TRUE]
Judged(r, v)   == [r EXCEPT !.verification = v]
Sent(r, at)    == [r EXCEPT !.at = at]
Listing(r, s)  == [r EXCEPT !.due = s, !.at = IF s = {} THEN "read" ELSE "mark"]
Checked(r, b)  == [r EXCEPT !.all = b, !.at = "driver"]

LEMMA Drivers ==
  /\ NoDriver.verification = "none" /\ NoDriver \notin DriverRow
  /\ NewDriver \in DriverRow /\ NewDriver.verification = "pending"
  /\ \A r \in DriverRow : r.verification \in Verdict /\ r # NoDriver
<1>1. NoDriver.verification = "none"  BY DEF NoDriver
<1>2. \A r \in DriverRow : r.verification \in Verdict  BY DEF DriverRow
<1>3. NewDriver \in DriverRow /\ NewDriver.verification = "pending"
  BY DEF DriverRow, NewDriver, NoDriver, Verdict
<1> QED BY <1>1, <1>2, <1>3 DEF Verdict

LEMMA NamedRow ==
  ASSUME NEW r \in DriverRow
  PROVE  Named(r) \in DriverRow /\ Named(r).verification = r.verification
BY DEF DriverRow, Named

LEMMA JudgedRow ==
  ASSUME NEW r \in DriverRow, NEW v \in Verdict
  PROVE  Judged(r, v) \in DriverRow /\ Judged(r, v).verification = v
BY DEF DriverRow, Judged

LEMMA IdleRow == Idle \in ReqRow /\ Idle.at = "idle" /\ Idle.due = {} /\ ~Idle.all
BY DEF ReqRow, Idle

LEMMA SentRow ==
  ASSUME NEW r \in ReqRow,
         NEW at \in {"find", "create", "docs", "list", "update"}
  PROVE  Sent(r, at) \in ReqRow /\ Sent(r, at).at = at /\ Sent(r, at).due = r.due
BY DEF ReqRow, Sent

LEMMA ListingRow ==
  ASSUME NEW r \in ReqRow, NEW s \in SUBSET Doc
  PROVE  /\ Listing(r, s) \in ReqRow /\ Listing(r, s).due = s
         /\ Listing(r, s).at = IF s = {} THEN "read" ELSE "mark"
BY DEF ReqRow, Listing

LEMMA CheckedRow ==
  ASSUME NEW r \in ReqRow, NEW b \in BOOLEAN
  PROVE  /\ Checked(r, b) \in ReqRow /\ Checked(r, b).due = r.due
         /\ Checked(r, b).at = "driver" /\ (Checked(r, b).all => b)
BY DEF ReqRow, Checked

Req == Polls \cup {"login"}

(* A request that moves on leaves the others where they are. *)
LEMMA OneMoves ==
  ASSUME req \in [Req -> ReqRow], NEW q \in Req, NEW v \in ReqRow, req' = [req EXCEPT ![q] = v]
  PROVE  /\ req' \in [Req -> ReqRow] /\ req'[q] = v
         /\ \A p \in Req : p # q => req'[p] = req[p]
OBVIOUS

(* Where each step of a request takes it. *)
Moves(q, at) == /\ req' \in [Req -> ReqRow]
                /\ req'[q].at = at /\ req'[q].due = req[q].due
                /\ \A p \in Req : p # q => req'[p] = req[p]

Answers(q) == /\ req' \in [Req -> ReqRow] /\ req'[q] = Idle
              /\ \A p \in Req : p # q => req'[p] = req[p]

LEMMA GoesMoves ==
  ASSUME req \in [Req -> ReqRow], NEW q \in Req,
         NEW at \in {"find", "create", "docs", "list", "update"}, Goes(q, at)
  PROVE  Moves(q, at)
<1>1. req' = [req EXCEPT ![q] = Sent(req[q], at)]  BY DEF Goes, Sent
<1>2. req[q] \in ReqRow  OBVIOUS
<1> QED BY <1>1, <1>2, SentRow, OneMoves DEF Moves

LEMMA AnsweredAnswers ==
  ASSUME req \in [Req -> ReqRow], NEW q \in Req, Answered(q)
  PROVE  Answers(q)
BY IdleRow, OneMoves DEF Answered, Answers

LEMMA ToMarkMoves ==
  ASSUME req \in [Req -> ReqRow], NEW q \in Req, NEW due \in SUBSET Doc, ToMark(q, due)
  PROVE  /\ req' \in [Req -> ReqRow] /\ req'[q].due = due
         /\ req'[q].at = IF due = {} THEN "read" ELSE "mark"
         /\ \A p \in Req : p # q => req'[p] = req[p]
<1>1. req' = [req EXCEPT ![q] = Listing(req[q], due)]  BY DEF ToMark, Listing
<1>2. req[q] \in ReqRow  OBVIOUS
<1> QED BY <1>1, <1>2, ListingRow, OneMoves

LEMMA ReadDocsMoves ==
  ASSUME req \in [Req -> ReqRow], ReadDocs
  PROVE  Moves("status", "driver") /\ (req'["status"].all => AllVerified)
<1>1. req' = [req EXCEPT !["status"] = Checked(req["status"], AllVerified)]
  BY DEF ReadDocs, Checked
<1>2. AllVerified \in BOOLEAN  BY DEF AllVerified
<1>3. "status" \in Req /\ req["status"] \in ReqRow  BY DEF Req, Polls
<1> QED BY <1>1, <1>2, <1>3, CheckedRow, OneMoves DEF Moves

LEMMA LandingPage ==
  ASSUME NEW r \in DriverRow
  PROVE  Landing(r) \in {"kyc", "pending", "dashboard"}
BY DEF Landing

LEMMA OlderAge == \A age \in Age : Older(age) \in Age /\ (Older(age) = "never" => age = "never")
BY DEF Age, Older

(* The tables, the decisions and the histories, apart from the requests and  *)
(* the pages.                                                                *)
RowsTyped ==
  /\ row \in DriverRow \cup {NoDriver}
  /\ docs \in [Doc -> KycStatus] \/ docs = [d \in Doc |-> "none"]
  /\ aged \subseteq {d \in Doc : docs[d] = "pending_review"}
  /\ row = NoDriver => docs = [d \in Doc |-> "none"]

ReqTyped ==
  /\ req \in [Req -> ReqRow]
  /\ \A q \in Polls : /\ req[q].at \notin {"find", "create", "docs"}
                      /\ (req[q].at = "mark") = (req[q].due # {})
  /\ req["login"].at \in {"idle", "find", "create", "docs"}

AdminTyped ==
  /\ adm \in [Admin -> AdmRow]
  /\ view \in [Admin -> Verdict \cup {"none"}]

AppTyped ==
  /\ page \in {"closed", "auth", "kyc", "vehicle", "pending", "dashboard"}
  /\ session \in BOOLEAN /\ shown \in Verdict \cup {"none"}
  /\ list \in {"none", "missing", "all_uploaded"}

HistoryTyped ==
  uploads \in [Doc -> Age] /\ approval \in Age /\ settled \in BOOLEAN

LEMMA Parts ==
  TypeOK <=> RowsTyped /\ ReqTyped /\ AdminTyped /\ AppTyped /\ HistoryTyped /\ faults \in 0..MaxFaults
BY DEF TypeOK, RowsTyped, ReqTyped, AdminTyped, AppTyped, HistoryTyped, Req

LEMMA PartsNext ==
  TypeOK' <=> RowsTyped' /\ ReqTyped' /\ AdminTyped' /\ AppTyped' /\ HistoryTyped' /\ faults' \in 0..MaxFaults
BY DEF TypeOK, RowsTyped, ReqTyped, AdminTyped, AppTyped, HistoryTyped, Req

LEMMA SameParts ==
  /\ TypeOK /\ UNCHANGED <<row, docs, aged>> => RowsTyped'
  /\ TypeOK /\ UNCHANGED req => ReqTyped'
  /\ TypeOK /\ UNCHANGED <<adm, view>> => AdminTyped'
  /\ TypeOK /\ UNCHANGED app => AppTyped'
  /\ TypeOK /\ UNCHANGED history => HistoryTyped'
  /\ TypeOK /\ UNCHANGED faults => faults' \in 0..MaxFaults
<1>1. TypeOK /\ UNCHANGED <<row, docs, aged>> => RowsTyped'  BY DEF TypeOK, RowsTyped
<1>2. TypeOK /\ UNCHANGED req => ReqTyped'  BY DEF TypeOK, ReqTyped, Req
<1>3. TypeOK /\ UNCHANGED <<adm, view>> => AdminTyped'  BY DEF TypeOK, AdminTyped
<1>4. TypeOK /\ UNCHANGED app => AppTyped'  BY DEF TypeOK, AppTyped, app
<1>5. TypeOK /\ UNCHANGED history => HistoryTyped'  BY DEF TypeOK, HistoryTyped, history
<1>6. TypeOK /\ UNCHANGED faults => faults' \in 0..MaxFaults  BY DEF TypeOK
<1> QED BY <1>1, <1>2, <1>3, <1>4, <1>5, <1>6

LEMMA TypedInit == Init => Typed
<1> SUFFICES ASSUME Init PROVE Typed  OBVIOUS
<1>1. req \in [Req -> ReqRow] /\ \A q \in Req : req[q] = Idle
  BY IdleRow DEF Init, Req
<1>2. adm \in [Admin -> AdmRow] /\ \A a \in Admin : adm[a] = Undecided
  BY DEF Init, AdmRow
<1>3. RowsTyped  BY DEF Init, RowsTyped
<1>4. ReqTyped  BY <1>1, IdleRow DEF ReqTyped, Req, Polls
<1>5. AdminTyped /\ AppTyped  BY <1>2 DEF Init, AdminTyped, AppTyped
<1>6. HistoryTyped
  <2>1. /\ uploads = [d \in Doc |-> "never"] /\ approval = "never" /\ settled = FALSE
        /\ "never" \in Age
    BY DEF Init, Age
  <2> QED BY <2>1 DEF HistoryTyped
<1>7. faults \in 0..MaxFaults  BY FaultsAssumption DEF Init
<1>8. Founded  BY <1>1, <1>2, IdleRow DEF Init, Founded, Req, Polls
<1> QED BY <1>3, <1>4, <1>5, <1>6, <1>7, <1>8, Parts DEF Typed

(* Every kind of step by name. *)
AppStep == Launch \/ Close \/ LogOut \/ KycContinue \/ PendingContinue \/ PendingResubmit
Asks == SignIn \/ PollKyc \/ PollStatus
AdminStep(a) == OpenPanel(a) \/ Approve(a) \/ Reject(a) \/ ApproveDocs(a) \/ RejectDocs(a)
                  \/ AdminFails(a)

LEMMA RowsStep == Typed /\ [Next]_vvars => RowsTyped'
<1> SUFFICES ASSUME Typed, [Next]_vvars PROVE RowsTyped'  OBVIOUS
<1>0. TypeOK /\ RowsTyped  BY Parts DEF Typed
<1>1. CASE UNCHANGED <<row, docs, aged>>  BY <1>0, <1>1, SameParts
<1>2. CASE SubmitVehicle
  <2>1. row \in DriverRow  BY <1>0, <1>2 DEF SubmitVehicle, Typed, Founded, RowsTyped
  <2>2. row' = Named(row) /\ UNCHANGED <<docs, aged>>  BY <1>2 DEF SubmitVehicle, Named
  <2> QED BY <1>0, <2>1, <2>2, NamedRow, Drivers DEF RowsTyped
<1>3. CASE CreateDriver
  <2>1. row' = NewDriver /\ UNCHANGED <<docs, aged>>  BY <1>3 DEF CreateDriver
  <2> QED BY <1>0, <2>1, Drivers DEF RowsTyped
<1>4. CASE CreateDocs
  <2>1. row \in DriverRow /\ aged = {}
    BY <1>0, <1>4 DEF CreateDocs, At, Typed, Founded, RowsTyped
  <2>2. docs' = [d \in Doc |-> "not_uploaded"] /\ UNCHANGED <<row, aged>>
    BY <1>4 DEF CreateDocs
  <2> QED BY <2>1, <2>2, Drivers DEF RowsTyped, KycStatus
<1>5. CASE UpdateDriver
  <2>1. row \in DriverRow  BY <1>0, <1>5 DEF UpdateDriver, At, Typed, Founded, RowsTyped
  <2>2. row' = Judged(row, "verified") /\ UNCHANGED <<docs, aged>>
    BY <1>5 DEF UpdateDriver, Judged
  <2> QED BY <1>0, <2>1, <2>2, JudgedRow, Drivers DEF RowsTyped, Verdict
<1>6. ASSUME NEW d \in Doc, Upload(d) PROVE RowsTyped'
  <2>1. docs \in [Doc -> KycStatus] /\ row # NoDriver
    BY <1>0, <1>6 DEF Upload, RowsTyped
  <2>2. docs' = [docs EXCEPT ![d] = "pending_review"] /\ aged' = aged \ {d} /\ row' = row
    BY <1>6 DEF Upload
  <2> QED BY <1>0, <2>1, <2>2 DEF RowsTyped, KycStatus
<1>7. ASSUME NEW d \in Doc, Ages(d) PROVE RowsTyped'
  BY <1>0, <1>7 DEF Ages, RowsTyped
<1>8. ASSUME NEW q \in Polls, NEW d \in Doc, MarkVerified(q, d) PROVE RowsTyped'
  <2>1. docs \in [Doc -> KycStatus]
    BY <1>8 DEF MarkVerified, At, Typed, Founded
  <2>2. docs' = [docs EXCEPT ![d] = "verified"] /\ aged' = aged \ {d} /\ row' = row
    BY <1>8 DEF MarkVerified
  <2>3. row # NoDriver  BY <1>0, <2>1 DEF RowsTyped, KycStatus
  <2> QED BY <1>0, <2>1, <2>2, <2>3 DEF RowsTyped, KycStatus
<1>9. ASSUME NEW a \in Admin, Approve(a) \/ Reject(a) PROVE RowsTyped'
  <2>1. row \in DriverRow
    BY <1>0, <1>9 DEF Approve, Reject, Offers, Verdict, Typed, Founded, RowsTyped
  <2>2. /\ row' = Judged(row, "verified") \/ row' = Judged(row, "rejected")
        /\ UNCHANGED <<docs, aged>>
    BY <1>9 DEF Approve, Reject, Judged
  <2> QED BY <1>0, <2>1, <2>2, JudgedRow, Drivers DEF RowsTyped, Verdict
<1>10. ASSUME NEW from \in SUBSET {"verified", "pending_review", "rejected"},
              NEW to \in {"verified", "rejected"},
              "pending_review" \in from, Rewritten(from, to), row' = row
       PROVE  RowsTyped'
  <2>1. CASE docs \in [Doc -> KycStatus]
    <3>1. docs' \in [Doc -> KycStatus] /\ row # NoDriver
      <4>1. row # NoDriver  BY <1>0, <2>1, DocAssumption DEF RowsTyped, KycStatus
      <4>2. to \in KycStatus  BY DEF KycStatus
      <4> QED BY <1>10, <2>1, <4>1, <4>2 DEF Rewritten
    <3>2. aged' = {}  BY <1>0, <1>10 DEF RowsTyped, Rewritten
    <3> QED BY <1>10, <3>1, <3>2, <1>0 DEF RowsTyped
  <2>2. CASE docs = [d \in Doc |-> "none"]
    <3>1. docs' = docs /\ aged' = {}  BY <1>0, <1>10, <2>2 DEF RowsTyped, Rewritten
    <3> QED BY <1>10, <2>2, <3>1, <1>0 DEF RowsTyped
  <2> QED BY <1>0, <2>1, <2>2 DEF RowsTyped
<1>11. ASSUME NEW a \in Admin, ApproveDocs(a) \/ RejectDocs(a) PROVE RowsTyped'
  BY <1>10, <1>11 DEF ApproveDocs, RejectDocs
<1>12. CASE \/ AppStep \/ Asks \/ FindDriver \/ ReadDocs \/ ReadDriver \/ AnswerKyc
            \/ UNCHANGED vvars
            \/ \E q \in Req : RequestFails(q) \/ ListDue(q)
            \/ \E a \in Admin : OpenPanel(a) \/ AdminFails(a)
  BY <1>1, <1>12
     DEF AppStep, Asks, Launch, Close, LogOut, KycContinue, PendingContinue, PendingResubmit,
         SignIn, PollKyc, PollStatus, FindDriver, ReadDocs, ReadDriver, AnswerKyc, RequestFails,
         ListDue, OpenPanel, AdminFails, vvars
<1> QED BY <1>2, <1>3, <1>4, <1>5, <1>6, <1>7, <1>8, <1>9, <1>11, <1>12
        DEF Next, SignUp, GetKyc, GetStatus, Poll, Polls, Req, AppStep, Asks

(* What a step does to the requests. *)
Mark(q) == \E due \in SUBSET Doc : ToMark(q, due)

LEMMA ReqSteps ==
  ASSUME Typed, [Next]_vvars
  PROVE  \/ UNCHANGED req
         \/ \E q \in Req : Answers(q)
         \/ \E q \in Polls : (Moves(q, "list") /\ At(q, "idle")) \/ (ListDue(q) /\ ToMark(q, aged))
              \/ \E d \in Doc : MarkVerified(q, d) /\ ToMark(q, req[q].due \ {d})
         \/ Moves("login", "find")
         \/ row = NoDriver /\ Moves("login", "create")
         \/ CreateDriver /\ Moves("login", "docs")
         \/ ReadDocs /\ Moves("status", "driver")
         \/ ReadDriver /\ Moves("status", "update")
<1>0. req \in [Req -> ReqRow] /\ "status" \in Req /\ "login" \in Req /\ "kyc" \in Req
  BY DEF Typed, TypeOK, Req, Polls
<1>g. \A q \in Req : Answered(q) => Answers(q)  BY <1>0, AnsweredAnswers
<1>1. CASE AppStep \/ UNCHANGED vvars \/ SubmitVehicle \/ (\E d \in Doc : Upload(d) \/ Ages(d))
            \/ \E a \in Admin : AdminStep(a)
  BY <1>1 DEF AppStep, Launch, Close, LogOut, KycContinue, PendingContinue, PendingResubmit,
              SubmitVehicle, Upload, Ages, AdminStep, OpenPanel, Approve, Reject, ApproveDocs,
              RejectDocs, AdminFails, vvars
<1>2. CASE SignIn  BY <1>0, <1>2, GoesMoves DEF SignIn
<1>3. CASE FindDriver  BY <1>0, <1>3, <1>g, GoesMoves DEF FindDriver, SignedIn
<1>4. CASE CreateDriver  BY <1>0, <1>4, GoesMoves DEF CreateDriver
<1>5. CASE CreateDocs  BY <1>0, <1>5, <1>g DEF CreateDocs, SignedIn
<1>6. CASE PollKyc \/ PollStatus  BY <1>0, <1>6, GoesMoves DEF PollKyc, PollStatus, Polls
<1>7. ASSUME NEW q \in Polls, ListDue(q) PROVE ToMark(q, aged)  BY <1>7 DEF ListDue
<1>8. ASSUME NEW q \in Polls, NEW d \in Doc, MarkVerified(q, d) PROVE ToMark(q, req[q].due \ {d})
  BY <1>8 DEF MarkVerified
<1>9. CASE ReadDocs  BY <1>0, <1>9, ReadDocsMoves
<1>10. CASE ReadDriver  BY <1>0, <1>10, <1>g, GoesMoves DEF ReadDriver
<1>11. CASE UpdateDriver \/ AnswerKyc \/ \E q \in Req : RequestFails(q)
  BY <1>0, <1>11, <1>g DEF UpdateDriver, AnswerKyc, RequestFails
<1> QED BY <1>1, <1>2, <1>3, <1>4, <1>5, <1>6, <1>7, <1>8, <1>9, <1>10, <1>11
        DEF Next, SignUp, GetKyc, GetStatus, Poll, Polls, Req, AppStep, AdminStep

(* The same, seen from a request. *)
LEMMA ReqEffects ==
  ASSUME Typed, [Next]_vvars, NEW q \in Req
  PROVE  \/ req'[q] = req[q] \/ req'[q] = Idle
         \/ /\ q \in Polls /\ req'[q].due = req[q].due
            /\ req'[q].at = "list" /\ req[q].at = "idle"
         \/ /\ q \in Polls /\ req'[q].at \in {"read", "mark"}
            /\ \/ req'[q].due = aged
               \/ \E d \in Doc : req'[q].due = req[q].due \ {d}
         \/ /\ q = "login" /\ req'[q].due = req[q].due
            /\ \/ req'[q].at = "find"
               \/ req'[q].at = "create" /\ row = NoDriver
               \/ req'[q].at = "docs" /\ CreateDriver
         \/ /\ q = "status" /\ req'[q].due = req[q].due
            /\ \/ req'[q].at = "driver" /\ ReadDocs
               \/ req'[q].at = "update" /\ ReadDriver
<1>0. /\ req \in [Req -> ReqRow] /\ aged \in SUBSET Doc /\ Polls \subseteq Req
      /\ \A p \in Req : \A d \in Doc : req[p].due \ {d} \in SUBSET Doc
  BY DEF Typed, TypeOK, Req, ReqRow
<1>1. CASE UNCHANGED req  BY <1>1
<1>2. ASSUME NEW p \in Req, Answers(p) PROVE req'[q] = req[q] \/ req'[q] = Idle
  BY <1>2 DEF Answers
<1>3. ASSUME NEW p \in Polls, NEW due \in SUBSET Doc, ToMark(p, due)
      PROVE  \/ req'[q] = req[q]
             \/ p = q /\ req'[q].due = due /\ req'[q].at \in {"read", "mark"}
  BY <1>0, <1>3, ToMarkMoves
<1>4. ASSUME NEW p \in Req, NEW at, Moves(p, at)
      PROVE  req'[q] = req[q] \/ (p = q /\ req'[q].at = at /\ req'[q].due = req[q].due)
  BY <1>4 DEF Moves
<1>5. CASE \E p \in Polls : Moves(p, "list") /\ At(p, "idle")
  BY <1>0, <1>4, <1>5 DEF At
<1>6. CASE \E p \in Polls : \/ ToMark(p, aged)
                            \/ \E d \in Doc : ToMark(p, req[p].due \ {d})
  BY <1>0, <1>3, <1>6
<1>7. CASE \/ Moves("login", "find")
           \/ row = NoDriver /\ Moves("login", "create")
           \/ CreateDriver /\ Moves("login", "docs")
  BY <1>4, <1>7 DEF Req
<1>8. CASE \/ ReadDocs /\ Moves("status", "driver")
           \/ ReadDriver /\ Moves("status", "update")
  BY <1>4, <1>8 DEF Req, Polls
<1>9. CASE \E p \in Req : Answers(p)  BY <1>2, <1>9
<1> QED BY <1>1, <1>5, <1>6, <1>7, <1>8, <1>9, ReqSteps

LEMMA ReqStep == Typed /\ [Next]_vvars => ReqTyped'
<1> SUFFICES ASSUME Typed, [Next]_vvars PROVE ReqTyped'  OBVIOUS
<1>0. TypeOK /\ ReqTyped /\ aged \in SUBSET Doc
  BY Parts DEF Typed, RowsTyped
<1>1. CASE UNCHANGED req  BY <1>0, <1>1, SameParts
<1>2. ASSUME NEW q \in Req, Answers(q) PROVE ReqTyped'
  BY <1>0, <1>2, IdleRow DEF ReqTyped, Answers, Req, Polls
<1>3. ASSUME NEW q \in Polls, Moves(q, "list"), At(q, "idle") PROVE ReqTyped'
  BY <1>0, <1>3 DEF ReqTyped, Moves, Req, Polls, At
<1>4. ASSUME NEW q \in Polls, NEW due \in SUBSET Doc, ToMark(q, due) PROVE ReqTyped'
  BY <1>0, <1>4, ToMarkMoves DEF ReqTyped, Req, Polls
<1>5. ASSUME NEW at \in {"find", "create", "docs"}, Moves("login", at) PROVE ReqTyped'
  BY <1>0, <1>5 DEF ReqTyped, Moves, Req, Polls
<1>6. CASE ReadDocs /\ Moves("status", "driver")
  BY <1>0, <1>6 DEF ReqTyped, Moves, Req, Polls, ReadDocs, At
<1>7. CASE ReadDriver /\ Moves("status", "update")
  BY <1>0, <1>7 DEF ReqTyped, Moves, Req, Polls, ReadDriver, At
<1>8. ASSUME NEW q \in Polls, NEW d \in Doc, ToMark(q, req[q].due \ {d}) PROVE ReqTyped'
  <2>1. req[q].due \ {d} \in SUBSET Doc  BY <1>0 DEF ReqTyped, Req, ReqRow
  <2> QED BY <2>1, <1>4, <1>8
<1> QED BY <1>0, <1>1, <1>2, <1>3, <1>4, <1>5, <1>6, <1>7, <1>8, ReqSteps

LEMMA AdminStepTyped == Typed /\ [Next]_vvars => AdminTyped'
<1> SUFFICES ASSUME Typed, [Next]_vvars PROVE AdminTyped'  OBVIOUS
<1>0. TypeOK /\ AdminTyped /\ RowsTyped  BY Parts DEF Typed
<1>1. CASE UNCHANGED <<adm, view>>  BY <1>0, <1>1, SameParts
<1>2. ASSUME NEW a \in Admin, AdminStep(a) PROVE AdminTyped'
  <2>1. row.verification \in Verdict \cup {"none"}  BY <1>0, Drivers DEF RowsTyped
  <2>2. /\ Undecided \in AdmRow /\ [op |-> "approve", at |-> "docs"] \in AdmRow
        /\ [op |-> "reject", at |-> "docs"] \in AdmRow
    BY DEF AdmRow
  <2>3. /\ adm' = adm \/ \E v \in AdmRow : adm' = [adm EXCEPT ![a] = v]
        /\ view' = view \/ \E v \in Verdict \cup {"none"} : view' = [view EXCEPT ![a] = v]
    BY <1>2, <2>1, <2>2 DEF AdminStep, OpenPanel, Approve, Reject, ApproveDocs, RejectDocs,
                            AdminFails, Verdict
  <2> QED BY <1>0, <2>3 DEF AdminTyped
<1>3. CASE ~\E a \in Admin : AdminStep(a)
  BY <1>1, <1>3
     DEF Next, AdminStep, vvars, Launch, Close, LogOut, SignIn, SignUp, FindDriver, CreateDriver,
         CreateDocs, Upload, Ages, KycContinue, SubmitVehicle, PendingContinue, PendingResubmit,
         PollKyc, PollStatus, GetKyc, GetStatus, Poll, ListDue, MarkVerified, AnswerKyc, ReadDocs,
         ReadDriver, UpdateDriver, RequestFails
<1> QED BY <1>2, <1>3

LEMMA AppStepTyped == Typed /\ [Next]_vvars => AppTyped'
<1> SUFFICES ASSUME Typed, [Next]_vvars PROVE AppTyped'  OBVIOUS
<1>0. TypeOK /\ AppTyped /\ RowsTyped  BY Parts DEF Typed
<1>1. CASE UNCHANGED app  BY <1>0, <1>1, SameParts
<1>2. CASE Launch
  <2>1. page' \in {"auth", "kyc", "pending", "dashboard"}
    BY <1>0, <1>2, LandingPage DEF Launch, RowsTyped
  <2> QED BY <1>0, <1>2, <2>1 DEF Launch, AppTyped
<1>3. CASE Close \/ LogOut \/ KycContinue \/ PendingContinue \/ PendingResubmit \/ SubmitVehicle
  BY <1>0, <1>3
     DEF AppTyped, Close, LogOut, KycContinue, PendingContinue, PendingResubmit, SubmitVehicle
<1>4. CASE FindDriver
  <2>1. CASE UNCHANGED app  BY <1>1, <2>1
  <2>2. CASE row # NoDriver /\ SignedIn(FALSE, row)
    BY <1>0, <2>2, LandingPage DEF RowsTyped, SignedIn, AppTyped
  <2> QED BY <1>4, <2>1, <2>2 DEF FindDriver
<1>5. CASE CreateDocs  BY <1>0, <1>5 DEF CreateDocs, SignedIn, AppTyped
<1>6. CASE AnswerKyc  BY <1>0, <1>6 DEF AnswerKyc, Listed, AppTyped
<1>7. CASE ReadDriver \/ UpdateDriver
  <2>1. row.verification \in Verdict \cup {"none"}  BY <1>0, Drivers DEF RowsTyped
  <2>2. UNCHANGED <<page, session, list>> /\ shown' \in {shown, row.verification, "verified"}
    BY <1>7 DEF ReadDriver, UpdateDriver
  <2> QED BY <1>0, <2>1, <2>2 DEF AppTyped, Verdict
<1>8. CASE \/ SignIn \/ PollKyc \/ PollStatus \/ CreateDriver \/ ReadDocs \/ UNCHANGED vvars
           \/ \E d \in Doc : Upload(d) \/ Ages(d)
           \/ \E q \in Polls : Poll(q)
           \/ \E q \in Req : RequestFails(q)
           \/ \E a \in Admin : AdminStep(a)
  BY <1>1, <1>8
     DEF SignIn, PollKyc, PollStatus, CreateDriver, ReadDocs, vvars, Upload, Ages, Poll, ListDue,
         MarkVerified, RequestFails, AdminStep, OpenPanel, Approve, Reject, ApproveDocs, RejectDocs,
         AdminFails
<1> QED BY <1>2, <1>3, <1>4, <1>5, <1>6, <1>7, <1>8
        DEF Next, SignUp, GetKyc, GetStatus, Polls, Req, AdminStep

(* What a step does to the histories. *)
LEMMA HistorySteps ==
  ASSUME [Next]_vvars
  PROVE  \/ UNCHANGED history
         \/ \E d \in Doc : Upload(d)
         \/ \E a \in Admin : Approve(a) \/ Reject(a) \/ RejectDocs(a)
BY DEF Next, vvars, Launch, Close, LogOut, SignIn, SignUp, FindDriver, CreateDriver, CreateDocs, Ages,
       KycContinue, SubmitVehicle, PendingContinue, PendingResubmit, PollKyc, PollStatus, GetKyc,
       GetStatus, Poll, ListDue, MarkVerified, AnswerKyc, ReadDocs, ReadDriver, UpdateDriver,
       RequestFails, OpenPanel, ApproveDocs, AdminFails

LEMMA HistoryStep == Typed /\ [Next]_vvars => HistoryTyped'
<1> SUFFICES ASSUME Typed, [Next]_vvars PROVE HistoryTyped'  OBVIOUS
<1>0. TypeOK /\ HistoryTyped  BY Parts DEF Typed
<1>1. CASE UNCHANGED history  BY <1>0, <1>1, SameParts
<1>2. ASSUME NEW d \in Doc, Upload(d) PROVE HistoryTyped'
  <2>1. /\ uploads' = [uploads EXCEPT ![d] = "since"] /\ UNCHANGED <<approval, settled>>
        /\ "since" \in Age
    BY <1>2 DEF Upload, Age
  <2> QED BY <1>0, <2>1 DEF HistoryTyped
<1>3. ASSUME NEW a \in Admin, Approve(a) PROVE HistoryTyped'
  <2>1. UNCHANGED <<uploads, settled>> /\ approval' = "since" /\ "since" \in Age
    BY <1>3 DEF Approve, Age
  <2> QED BY <1>0, <2>1 DEF HistoryTyped
<1>4. ASSUME NEW a \in Admin, Reject(a) PROVE HistoryTyped'
  <2>1. /\ uploads' = [d \in Doc |-> Older(uploads[d])] /\ approval' = Older(approval)
        /\ settled' = FALSE
    BY <1>4 DEF Reject
  <2> QED BY <1>0, <2>1, OlderAge DEF HistoryTyped
<1>5. ASSUME NEW a \in Admin, RejectDocs(a) PROVE HistoryTyped'
  <2>1. UNCHANGED <<uploads, approval>> /\ settled' \in BOOLEAN
    BY <1>5 DEF RejectDocs, Undisturbed
  <2> QED BY <1>0, <2>1 DEF HistoryTyped
<1> QED BY <1>1, <1>2, <1>3, <1>4, <1>5, HistorySteps

LEMMA FaultsStep == Typed /\ [Next]_vvars => faults' \in 0..MaxFaults
<1> SUFFICES ASSUME Typed, [Next]_vvars PROVE faults' \in 0..MaxFaults  OBVIOUS
<1>0. faults \in 0..MaxFaults  BY DEF Typed, TypeOK
<1>1. faults' = faults \/ (faults < MaxFaults /\ faults' = faults + 1)
  BY DEF Next, vvars, Launch, Close, LogOut, SignIn, SignUp, FindDriver, CreateDriver, CreateDocs,
         Ages, KycContinue, SubmitVehicle, PendingContinue, PendingResubmit, PollKyc, PollStatus,
         GetKyc, GetStatus, Poll, ListDue, MarkVerified, AnswerKyc, ReadDocs, ReadDriver,
         UpdateDriver, RequestFails, OpenPanel, ApproveDocs, AdminFails, Upload, Approve, Reject,
         RejectDocs
<1> QED BY <1>0, <1>1, FaultsAssumption

-----------------------------------------------------------------------------
(* Sign-up comes first *)

(* A driver's row is there to stay. *)
LEMMA RowStays == Typed /\ [Next]_vvars /\ row # NoDriver => row' # NoDriver
<1> SUFFICES ASSUME Typed, [Next]_vvars, row # NoDriver PROVE row' # NoDriver  OBVIOUS
<1>0. row \in DriverRow  BY DEF Typed, TypeOK
<1>1. \/ row' = row \/ row' = Named(row) \/ row' = NewDriver
      \/ row' = Judged(row, "verified") \/ row' = Judged(row, "rejected")
  BY DEF Next, vvars, Launch, Close, LogOut, SignIn, SignUp, FindDriver, CreateDriver, CreateDocs,
         Ages, KycContinue, SubmitVehicle, PendingContinue, PendingResubmit, PollKyc, PollStatus,
         GetKyc, GetStatus, Poll, ListDue, MarkVerified, AnswerKyc, ReadDocs, ReadDriver,
         UpdateDriver, RequestFails, OpenPanel, ApproveDocs, AdminFails, Upload, Approve, Reject,
         RejectDocs, Named, Judged
<1> QED BY <1>0, <1>1, Drivers, NamedRow, JudgedRow DEF Verdict

(* A row comes of sign-up alone. *)
LEMMA RowComes ==
  Typed /\ [Next]_vvars /\ row = NoDriver /\ row' # NoDriver => CreateDriver
<1> SUFFICES ASSUME Typed, [Next]_vvars, row = NoDriver, row' # NoDriver PROVE CreateDriver
  OBVIOUS
<1>1. /\ ~SubmitVehicle /\ ~UpdateDriver
      /\ \A a \in Admin : ~Approve(a) /\ ~Reject(a)
  BY DEF SubmitVehicle, UpdateDriver, At, Approve, Reject, Offers, Verdict, Typed, Founded
<1> QED BY <1>1
        DEF Next, vvars, Launch, Close, LogOut, SignIn, SignUp, FindDriver, CreateDocs, Ages,
            KycContinue, PendingContinue, PendingResubmit, PollKyc, PollStatus, GetKyc, GetStatus,
            Poll, ListDue, MarkVerified, AnswerKyc, ReadDocs, ReadDriver, RequestFails, OpenPanel,
            ApproveDocs, AdminFails, Upload, RejectDocs

(* So do documents, and they stay as well. *)
LEMMA DocsStay ==
  Typed /\ [Next]_vvars /\ docs \in [Doc -> KycStatus] => docs' \in [Doc -> KycStatus]
<1> SUFFICES ASSUME Typed, [Next]_vvars, docs \in [Doc -> KycStatus]
             PROVE  docs' \in [Doc -> KycStatus]  OBVIOUS
<1>1. CASE UNCHANGED docs  BY <1>1
<1>2. CASE CreateDocs  BY <1>2 DEF CreateDocs, KycStatus
<1>3. ASSUME NEW d \in Doc, Upload(d) PROVE docs' \in [Doc -> KycStatus]
  BY <1>3 DEF Upload, KycStatus
<1>4. ASSUME NEW q \in Polls, NEW d \in Doc, MarkVerified(q, d) PROVE docs' \in [Doc -> KycStatus]
  BY <1>4 DEF MarkVerified, KycStatus
<1>5. ASSUME NEW from, NEW to \in KycStatus, Rewritten(from, to) PROVE docs' \in [Doc -> KycStatus]
  BY <1>5 DEF Rewritten
<1>6. ASSUME NEW a \in Admin, ApproveDocs(a) \/ RejectDocs(a) PROVE docs' \in [Doc -> KycStatus]
  BY <1>5, <1>6 DEF ApproveDocs, RejectDocs, KycStatus
<1> QED BY <1>1, <1>2, <1>3, <1>4, <1>6
        DEF Next, vvars, Launch, Close, LogOut, SignIn, SignUp, FindDriver, CreateDriver, Ages,
            KycContinue, SubmitVehicle, PendingContinue, PendingResubmit, PollKyc, PollStatus,
            GetKyc, GetStatus, Poll, ListDue, AnswerKyc, ReadDocs, ReadDriver, UpdateDriver,
            RequestFails, OpenPanel, AdminFails, Approve, Reject, Polls

LEMMA DocsCome ==
  /\ Typed /\ [Next]_vvars /\ (\A d \in Doc : docs[d] = "none")
  => CreateDocs \/ \A d \in Doc : docs'[d] = "none"
<1> SUFFICES ASSUME Typed, [Next]_vvars, \A d \in Doc : docs[d] = "none", ~CreateDocs
             PROVE  \A d \in Doc : docs'[d] = "none"  OBVIOUS
<1>0. docs = [d \in Doc |-> "none"]  BY DocAssumption DEF Typed, TypeOK, KycStatus
<1>1. CASE UNCHANGED docs  BY <1>1
<1>2. ASSUME NEW a \in Admin, ApproveDocs(a) \/ RejectDocs(a)
      PROVE  \A d \in Doc : docs'[d] = "none"
  BY <1>0, <1>2 DEF ApproveDocs, RejectDocs, Rewritten
<1>3. /\ \A d \in Doc : ~Upload(d)
      /\ \A q \in Polls : \A d \in Doc : ~MarkVerified(q, d)
  BY <1>0, DocAssumption DEF Upload, MarkVerified, Typed, Founded, KycStatus
<1> QED BY <1>1, <1>2, <1>3
        DEF Next, vvars, Launch, Close, LogOut, SignIn, SignUp, FindDriver, CreateDriver, Ages,
            KycContinue, SubmitVehicle, PendingContinue, PendingResubmit, PollKyc, PollStatus,
            GetKyc, GetStatus, Poll, ListDue, AnswerKyc, ReadDocs, ReadDriver, UpdateDriver,
            RequestFails, OpenPanel, AdminFails, Approve, Reject, Polls

LEMMA FoundedStep == Typed /\ [Next]_vvars => Founded'
<1> SUFFICES ASSUME Typed, [Next]_vvars PROVE Founded'  OBVIOUS
<1>0. /\ "login" \in Req /\ "login" \notin Polls /\ "status" \in Polls /\ "status" \in Req /\ Polls \subseteq Req
      /\ TypeOK /\ Founded /\ req \in [Req -> ReqRow] /\ Idle.at = "idle" /\ Idle.due = {}
  BY IdleRow DEF Req, Polls, Typed, TypeOK
<1>1. req'["login"].at = "create" => row' = NoDriver
  <2> SUFFICES ASSUME req'["login"].at = "create", row' # NoDriver PROVE FALSE  OBVIOUS
  <2>1. CASE row = NoDriver
    <3>1. CreateDriver  BY <2>1, RowComes
    <3>2. Moves("login", "docs")  BY <1>0, <3>1, GoesMoves DEF CreateDriver
    <3> QED BY <3>2 DEF Moves
  <2>2. CASE row # NoDriver
    <3>1. req["login"].at # "create"  BY <1>0, <2>2 DEF Founded
    <3>2. req'["login"].at = "create" => row = NoDriver \/ req["login"].at = "create"
      BY <1>0, ReqEffects
    <3> QED BY <2>2, <3>1, <3>2
  <2> QED BY <2>1, <2>2
<1>2. req'["login"].at = "docs" => row' # NoDriver /\ \A d \in Doc : docs'[d] = "none"
  <2> SUFFICES ASSUME req'["login"].at = "docs"
               PROVE  row' # NoDriver /\ \A d \in Doc : docs'[d] = "none"  OBVIOUS
  <2>1. CASE CreateDriver
    <3>1. row = NoDriver /\ row' = NewDriver /\ docs' = docs
      BY <1>0, <2>1 DEF CreateDriver, At, Founded
    <3> QED BY <1>0, <3>1, Drivers DEF TypeOK
  <2>2. CASE ~CreateDriver
    <3>1. req["login"].at = "docs"
      BY <1>0, <2>2, ReqEffects
    <3>2. ~CreateDocs
      <4> SUFFICES ASSUME CreateDocs PROVE FALSE  OBVIOUS
      <4>1. Answers("login")  BY <1>0, AnsweredAnswers DEF CreateDocs, SignedIn
      <4> QED BY <1>0, <4>1 DEF Answers
    <3> QED BY <1>0, <3>1, <3>2, RowStays, DocsCome DEF Founded
  <2> QED BY <2>1, <2>2
<1>3. page' \in {"kyc", "vehicle", "pending", "dashboard"} => row' # NoDriver
  <2>1. CASE page \in {"kyc", "vehicle", "pending", "dashboard"}
    BY <1>0, <2>1, RowStays DEF Founded
  <2>2. CASE page' = page \/ row # NoDriver  BY <2>1, <2>2, RowStays
  <2>3. CASE Launch  BY <2>2, <2>3 DEF Launch
  <2>4. CASE CreateDocs  BY <1>0, <2>2, <2>4 DEF CreateDocs, At, Founded
  <2>5. CASE LogOut \/ Close  BY <2>5 DEF LogOut, Close
  <2>6. CASE FindDriver  BY <2>2, <2>6 DEF FindDriver, app
  <2> QED BY <2>1, <2>2, <2>3, <2>4, <2>5, <2>6
          DEF Next, vvars, app, SignIn, SignUp, CreateDriver, Ages, KycContinue, SubmitVehicle,
              PendingContinue, PendingResubmit, PollKyc, PollStatus, GetKyc, GetStatus, Poll,
              ListDue, MarkVerified, AnswerKyc, ReadDocs, ReadDriver, UpdateDriver, RequestFails,
              OpenPanel, ApproveDocs, AdminFails, Upload, Approve, Reject, RejectDocs
<1>4. ASSUME NEW a \in Admin PROVE view'[a] # "none" \/ adm'[a] # Undecided => row' # NoDriver
  <2>1. CASE row # NoDriver  BY <2>1, RowStays
  <2>2. CASE row = NoDriver
    <3>1. view[a] = "none" /\ adm[a] = Undecided  BY <1>0, <2>2 DEF Founded
    <3>2. \A b \in Admin : ~AdminStep(b)
      <4> SUFFICES ASSUME NEW b \in Admin, AdminStep(b) PROVE FALSE  OBVIOUS
      <4>1. view[b] = "none" /\ adm[b] = Undecided  BY <1>0, <2>2 DEF Founded
      <4> QED BY <2>2, <4>1 DEF AdminStep, OpenPanel, Approve, Reject, ApproveDocs, RejectDocs,
                                AdminFails, Offers, Verdict, Undecided
    <3>3. UNCHANGED <<adm, view>>
      BY <3>2
         DEF AdminStep, Next, vvars, Launch, Close, LogOut, SignIn, SignUp, FindDriver,
             CreateDriver, CreateDocs, Upload, Ages, KycContinue, SubmitVehicle, PendingContinue,
             PendingResubmit, PollKyc, PollStatus, GetKyc, GetStatus, Poll, ListDue,
             MarkVerified, AnswerKyc, ReadDocs, ReadDriver, UpdateDriver, RequestFails
    <3> QED BY <3>1, <3>3
  <2> QED BY <2>1, <2>2
<1>5. req'["status"].at = "update" => row' # NoDriver
  <2>1. req'["status"].at = "update" => req["status"].at = "update" \/ ReadDriver
    BY <1>0, ReqEffects
  <2>2. ReadDriver /\ req'["status"].at = "update" => row # NoDriver
    <3> SUFFICES ASSUME ReadDriver, req'["status"].at = "update" PROVE row # NoDriver  OBVIOUS
    <3>1. ~Answered("status")
      <4> SUFFICES ASSUME Answered("status") PROVE FALSE  OBVIOUS
      <4>1. Answers("status")  BY <1>0, AnsweredAnswers
      <4> QED BY <1>0, <4>1 DEF Answers
    <3> QED BY <3>1, Drivers DEF ReadDriver
  <2> QED BY <1>0, <2>1, <2>2, RowStays DEF Founded
<1>6. ASSUME NEW q \in Polls, req'[q].due # {} PROVE docs' \in [Doc -> KycStatus]
  <2>1. req[q].due # {} \/ aged # {}
    BY <1>0, <1>6, ReqEffects DEF TypeOK
  <2>2. docs \in [Doc -> KycStatus]
    BY <1>0, <2>1 DEF TypeOK, Founded
  <2> QED BY <2>2, DocsStay
<1> QED BY <1>1, <1>2, <1>3, <1>4, <1>5, <1>6 DEF Founded

LEMMA TypedAlways == Spec => []Typed
<1>1. Typed /\ [Next]_vvars => Typed'
  <2> SUFFICES ASSUME Typed, [Next]_vvars PROVE Typed'  OBVIOUS
  <2>1. TypeOK'
    BY RowsStep, ReqStep, AdminStepTyped, AppStepTyped, HistoryStep, FaultsStep, PartsNext
  <2> QED BY <2>1, FoundedStep DEF Typed
<1> QED BY <1>1, TypedInit, PTL DEF Spec

(* The types of the module, with the rows that come before what needs them.  *)
THEOREM TypeCorrect == Spec => []TypeOK
<1>1. Typed => TypeOK  BY DEF Typed
<1> QED BY <1>1, TypedAlways, PTL

-----------------------------------------------------------------------------
(* Nobody drives unseen *)

Seen == approval # "never" \/ \A d \in Doc : uploads[d] # "never"

(* What verifies a driver rests on uploads or on an approval. *)
SeenFirst ==
  /\ row.verification = "verified" => Seen
  /\ \A d \in Doc : docs[d] = "pending_review" => uploads[d] # "never"
  /\ \A d \in Doc : docs[d] = "verified" => Seen \/ uploads[d] # "never"
  /\ \A q \in Polls : \A d \in req[q].due : uploads[d] # "never"
  /\ \A a \in Admin : adm[a].op = "approve" => approval # "never"
  /\ req["status"].at = "update" => Seen
  /\ req["status"].at = "driver" /\ req["status"].all => Seen

LEMMA SeenStays ==
  ASSUME Typed, [Next]_vvars
  PROVE  /\ \A d \in Doc : uploads[d] # "never" => uploads'[d] # "never"
         /\ approval # "never" => approval' # "never"
         /\ Seen => Seen'
<1>0. uploads \in [Doc -> Age] /\ approval \in Age  BY DEF Typed, TypeOK
<1>1. \A d \in Doc : uploads[d] # "never" => uploads'[d] # "never"
  <2>1. \/ uploads' = uploads \/ \E d \in Doc : uploads' = [uploads EXCEPT ![d] = "since"]
        \/ uploads' = [d \in Doc |-> Older(uploads[d])]
    BY HistorySteps DEF history, Upload, Approve, Reject, RejectDocs
  <2> QED BY <1>0, <2>1, OlderAge
<1>2. approval # "never" => approval' # "never"
  <2>1. approval' \in {approval, "since", Older(approval)}
    BY HistorySteps DEF history, Upload, Approve, Reject, RejectDocs
  <2> QED BY <1>0, <2>1, OlderAge
<1>3. Seen => Seen'  BY <1>1, <1>2 DEF Seen
<1> QED BY <1>1, <1>2, <1>3

(* What a step does to a document. *)
LEMMA DocEffects ==
  ASSUME Typed, [Next]_vvars, NEW d \in Doc
  PROVE  \/ docs'[d] = docs[d]
         \/ docs'[d] \in {"not_uploaded", "rejected"}
         \/ docs'[d] = "pending_review" /\ Upload(d)
         \/ docs'[d] = "verified" /\ \E q \in Polls : MarkVerified(q, d)
         \/ docs'[d] = "verified" /\ \E a \in Admin : ApproveDocs(a)
<1>0. docs \in [Doc -> KycStatus] \/ docs = [e \in Doc |-> "none"]  BY DEF Typed, TypeOK
<1>1. CASE UNCHANGED docs  BY <1>1
<1>2. CASE CreateDocs  BY <1>2 DEF CreateDocs
<1>3. ASSUME NEW e \in Doc, Upload(e)
      PROVE  docs'[d] = docs[d] \/ (docs'[d] = "pending_review" /\ e = d)
  BY <1>0, <1>3 DEF Upload
<1>4. ASSUME NEW q \in Polls, NEW e \in Doc, MarkVerified(q, e)
      PROVE  docs'[d] = docs[d] \/ (docs'[d] = "verified" /\ e = d)
  BY <1>0, <1>4 DEF MarkVerified
<1>5. ASSUME NEW a \in Admin, ApproveDocs(a) PROVE docs'[d] \in {docs[d], "verified"}
  BY <1>0, <1>5 DEF ApproveDocs, Rewritten
<1>6. ASSUME NEW a \in Admin, RejectDocs(a) PROVE docs'[d] \in {docs[d], "rejected"}
  BY <1>0, <1>6 DEF RejectDocs, Rewritten
<1>7. \/ UNCHANGED docs \/ CreateDocs \/ \E e \in Doc : Upload(e)
      \/ \E q \in Polls : \E e \in Doc : MarkVerified(q, e)
      \/ \E a \in Admin : ApproveDocs(a) \/ RejectDocs(a)
  BY DEF Next, vvars, Launch, Close, LogOut, SignIn, SignUp, FindDriver, CreateDriver, Ages,
         KycContinue, SubmitVehicle, PendingContinue, PendingResubmit, PollKyc, PollStatus,
         GetKyc, GetStatus, Poll, ListDue, AnswerKyc, ReadDocs, ReadDriver, UpdateDriver,
         RequestFails, OpenPanel, AdminFails, Approve, Reject, Polls
<1>8. CASE \E e \in Doc : Upload(e)  BY <1>3, <1>8
<1>9. CASE \E q \in Polls : \E e \in Doc : MarkVerified(q, e)  BY <1>4, <1>9
<1>10. CASE \E a \in Admin : ApproveDocs(a) \/ RejectDocs(a)  BY <1>5, <1>6, <1>10
<1> QED BY <1>1, <1>2, <1>7, <1>8, <1>9, <1>10

(* What a step does to the driver's verdict. *)
LEMMA VerdictEffects ==
  ASSUME Typed, [Next]_vvars
  PROVE  \/ row'.verification = row.verification
         \/ row'.verification = "pending" /\ CreateDriver
         \/ row'.verification = "verified" /\ UpdateDriver
         \/ row'.verification = "verified" /\ \E a \in Admin : Approve(a)
         \/ row'.verification = "rejected" /\ \E a \in Admin : Reject(a)
<1>0. row # NoDriver => row \in DriverRow  BY DEF Typed, TypeOK
<1>1. \/ UNCHANGED row \/ SubmitVehicle \/ CreateDriver \/ UpdateDriver
      \/ \E a \in Admin : Approve(a) \/ Reject(a)
  BY DEF Next, vvars, Launch, Close, LogOut, SignIn, SignUp, FindDriver, CreateDocs,
         Ages, KycContinue, PendingContinue, PendingResubmit, PollKyc, PollStatus,
         GetKyc, GetStatus, Poll, ListDue, MarkVerified, AnswerKyc, ReadDocs, ReadDriver,
         RequestFails, OpenPanel, ApproveDocs, AdminFails, Upload, RejectDocs
<1>2. CASE UNCHANGED row  BY <1>2
<1>3. CASE CreateDriver  BY <1>3, Drivers DEF CreateDriver
<1>4. CASE SubmitVehicle
  <2>1. row \in DriverRow  BY <1>0, <1>4 DEF SubmitVehicle, Typed, Founded
  <2>2. row' = Named(row)  BY <1>4 DEF SubmitVehicle, Named
  <2> QED BY <2>1, <2>2, NamedRow
<1>5. CASE UpdateDriver
  <2>1. row \in DriverRow  BY <1>0, <1>5 DEF UpdateDriver, At, Typed, Founded
  <2>2. row' = Judged(row, "verified")  BY <1>5 DEF UpdateDriver, Judged
  <2> QED BY <1>5, <2>1, <2>2, JudgedRow DEF Verdict
<1>6. ASSUME NEW a \in Admin, Approve(a) \/ Reject(a) PROVE row \in DriverRow
  BY <1>0, <1>6 DEF Approve, Reject, Offers, Verdict, Typed, Founded
<1>7. ASSUME NEW a \in Admin, Approve(a) PROVE row'.verification = "verified"
  <2>1. row' = Judged(row, "verified")  BY <1>7 DEF Approve, Judged
  <2> QED BY <1>6, <1>7, <2>1, JudgedRow DEF Verdict
<1>8. ASSUME NEW a \in Admin, Reject(a) PROVE row'.verification = "rejected"
  <2>1. row' = Judged(row, "rejected")  BY <1>8 DEF Reject, Judged
  <2> QED BY <1>6, <1>8, <2>1, JudgedRow DEF Verdict
<1> QED BY <1>1, <1>2, <1>3, <1>4, <1>5, <1>7, <1>8

LEMMA SeenFirstInit == Init => SeenFirst
<1> SUFFICES ASSUME Init PROVE SeenFirst  OBVIOUS
<1>1. \A q \in Polls : req[q] = Idle  BY DEF Init
<1>2. /\ row.verification = "none" /\ \A d \in Doc : docs[d] = "none"
      /\ \A a \in Admin : adm[a] = Undecided
  BY Drivers DEF Init
<1> QED BY <1>1, <1>2, IdleRow DEF SeenFirst, Polls, Undecided

LEMMA SeenFirstStep == Typed /\ SeenFirst /\ [Next]_vvars => SeenFirst'
<1> SUFFICES ASSUME Typed, SeenFirst, [Next]_vvars PROVE SeenFirst'  OBVIOUS
<1>0. /\ "status" \in Req /\ "status" \in Polls /\ Polls \subseteq Req
      /\ req \in [Req -> ReqRow] /\ Idle.at = "idle" /\ Idle.due = {} /\ ~Idle.all
  BY IdleRow DEF Req, Polls, Typed, TypeOK
<1>1. row'.verification = "verified" => Seen'
  <2>1. CASE row.verification = "verified"  BY <2>1, SeenStays DEF SeenFirst
  <2>2. CASE UpdateDriver  BY <2>2, SeenStays DEF UpdateDriver, At, SeenFirst
  <2>3. ASSUME NEW a \in Admin, Approve(a) PROVE Seen'  BY <2>3 DEF Approve, Seen
  <2> QED BY <2>1, <2>2, <2>3, VerdictEffects
<1>2. ASSUME NEW d \in Doc, docs'[d] = "pending_review" PROVE uploads'[d] # "never"
  <2>1. CASE docs[d] = "pending_review"  BY <2>1, SeenStays DEF SeenFirst
  <2>2. CASE Upload(d)  BY <2>2 DEF Upload, Typed, TypeOK
  <2> QED BY <1>2, <2>1, <2>2, DocEffects
<1>3. ASSUME NEW d \in Doc, docs'[d] = "verified" PROVE Seen' \/ uploads'[d] # "never"
  <2>1. CASE docs[d] = "verified"  BY <2>1, SeenStays DEF SeenFirst
  <2>2. ASSUME NEW q \in Polls, MarkVerified(q, d) PROVE uploads'[d] # "never"
    BY <2>2, SeenStays DEF MarkVerified, SeenFirst
  <2>3. ASSUME NEW a \in Admin, ApproveDocs(a) PROVE Seen'
    <3>1. approval # "never"  BY <2>3 DEF ApproveDocs, SeenFirst
    <3> QED BY <3>1, SeenStays DEF Seen
  <2> QED BY <1>3, <2>1, <2>2, <2>3, DocEffects
<1>4. ASSUME NEW q \in Polls, NEW d \in req'[q].due PROVE uploads'[d] # "never"
  <2>1. d \in req[q].due \/ d \in aged  BY <1>0, <1>4, ReqEffects
  <2>2. d \in Doc  BY <1>0, <2>1 DEF Typed, TypeOK, ReqRow
  <2>3. uploads[d] # "never"  BY <2>1, <2>2 DEF SeenFirst, Typed, TypeOK
  <2> QED BY <2>2, <2>3, SeenStays
<1>5. ASSUME NEW a \in Admin, adm'[a].op = "approve" PROVE approval' # "never"
  <2>1. CASE adm[a].op = "approve"  BY <2>1, SeenStays DEF SeenFirst
  <2>2. CASE Approve(a)  BY <2>2 DEF Approve
  <2>3. adm'[a].op = "approve" => adm[a].op = "approve" \/ Approve(a)
    <3>1. adm \in [Admin -> AdmRow]  BY DEF Typed, TypeOK
    <3>2. \/ UNCHANGED adm \/ \E b \in Admin : \/ Approve(b)
                                              \/ adm' = [adm EXCEPT ![b] = Undecided]
                                              \/ adm' = [adm EXCEPT ![b] = [op |-> "reject",
                                                                            at |-> "docs"]]
      BY DEF Next, vvars, Launch, Close, LogOut, SignIn, SignUp, FindDriver, CreateDriver,
             CreateDocs, Upload, Ages, KycContinue, SubmitVehicle, PendingContinue,
             PendingResubmit, PollKyc, PollStatus, GetKyc, GetStatus, Poll, ListDue,
             MarkVerified, AnswerKyc, ReadDocs, ReadDriver, UpdateDriver, RequestFails,
             OpenPanel, Reject, ApproveDocs, RejectDocs, AdminFails
    <3>3. ASSUME NEW b \in Admin, Approve(b), b # a PROVE adm'[a] = adm[a]
      BY <3>1, <3>3 DEF Approve
    <3> QED BY <3>1, <3>2, <3>3 DEF Undecided
  <2> QED BY <1>5, <2>1, <2>2, <2>3
<1>6. req'["status"].at = "update" => Seen'
  <2>1. CASE req["status"].at = "update"  BY <2>1, SeenStays DEF SeenFirst
  <2>2. CASE ReadDriver /\ req'["status"] # Idle
    <3>1. req["status"].at = "driver" /\ req["status"].all
      BY <1>0, <2>2 DEF ReadDriver, At, Answered
    <3> QED BY <3>1, SeenStays DEF SeenFirst
  <2> QED BY <1>0, <2>1, <2>2, ReqEffects
<1>7. req'["status"].at = "driver" /\ req'["status"].all => Seen'
  <2>1. CASE req'["status"] = req["status"]  BY <2>1, SeenStays DEF SeenFirst
  <2>2. CASE ReadDocs
    <3>1. req'["status"].all => AllVerified  BY <1>0, <2>2, ReadDocsMoves
    <3>2. AllVerified => Seen  BY DEF AllVerified, SeenFirst, Seen
    <3> QED BY <3>1, <3>2, SeenStays
  <2> QED BY <1>0, <2>1, <2>2, ReqEffects
<1> QED BY <1>1, <1>2, <1>3, <1>4, <1>5, <1>6, <1>7 DEF SeenFirst

(* Nobody is verified unseen, whatever request fails and whatever admins and *)
(* polls do at the same time.                                                *)
THEOREM NobodyDrivesUnseen == Spec => []VerifiedOnlyWhenSeen
<1>1. SeenFirst => VerifiedOnlyWhenSeen  BY DEF SeenFirst, VerifiedOnlyWhenSeen, Seen
<1> QED BY <1>1, SeenFirstInit, SeenFirstStep, TypedAlways, PTL DEF Spec

-----------------------------------------------------------------------------
(* A rejection stands *)

Anew == \A d \in Doc : uploads[d] = "since"

(* While a rejection stands, nothing from before it is left that could       *)
(* overturn it.                                                              *)
RejectedAnew ==
  settled /\ approval # "since" =>
    /\ row # NoDriver
    /\ row.verification = "rejected" \/ Anew
    /\ \A d \in Doc : docs[d] \in {"pending_review", "verified"} => uploads[d] = "since"
    /\ \A q \in Polls : \A d \in req[q].due : uploads[d] = "since"
    /\ \A a \in Admin : adm[a] = Undecided
    /\ req["status"].at = "update" => Anew
    /\ req["status"].at = "driver" /\ req["status"].all => Anew

StandingRejection == settled /\ approval # "since"

LEMMA RejectedAnewInit == Init => RejectedAnew
BY DEF Init, RejectedAnew

(* A rejection comes to stand with its second statement alone. *)
LEMMA Settles ==
  ASSUME Typed, [Next]_vvars, StandingRejection'
  PROVE  \/ StandingRejection /\ UNCHANGED <<approval, settled>>
         \/ \E a \in Admin : RejectDocs(a) /\ Undisturbed(a)
<1>1. CASE UNCHANGED history  BY <1>1 DEF StandingRejection, history
<1>2. ASSUME NEW d \in Doc, Upload(d) PROVE UNCHANGED <<approval, settled>>
  BY <1>2 DEF Upload
<1>3. ASSUME NEW a \in Admin, RejectDocs(a) PROVE Undisturbed(a)
  BY <1>3 DEF RejectDocs, StandingRejection
<1>4. \A a \in Admin : ~Approve(a) /\ ~Reject(a)
  BY DEF Approve, Reject, StandingRejection
<1> QED BY <1>1, <1>2, <1>3, <1>4, HistorySteps DEF StandingRejection

LEMMA RejectedAnewStep == Typed /\ RejectedAnew /\ [Next]_vvars => RejectedAnew'
<1> SUFFICES ASSUME Typed, RejectedAnew, [Next]_vvars, StandingRejection'
             PROVE  /\ row' # NoDriver
                    /\ row'.verification = "rejected" \/ Anew'
                    /\ \A d \in Doc : docs'[d] \in {"pending_review", "verified"}
                                        => uploads'[d] = "since"
                    /\ \A q \in Polls : \A d \in req'[q].due : uploads'[d] = "since"
                    /\ \A a \in Admin : adm'[a] = Undecided
                    /\ req'["status"].at = "update" => Anew'
                    /\ req'["status"].at = "driver" /\ req'["status"].all => Anew'
  BY DEF RejectedAnew, StandingRejection
<1>0. /\ "status" \in Req /\ "status" \in Polls /\ Polls \subseteq Req
      /\ req \in [Req -> ReqRow] /\ Idle.at = "idle" /\ Idle.due = {} /\ ~Idle.all
      /\ uploads \in [Doc -> Age] /\ adm \in [Admin -> AdmRow]
  BY IdleRow DEF Req, Polls, Typed, TypeOK
<1>1. ASSUME NEW a \in Admin, RejectDocs(a), Undisturbed(a)
      PROVE  /\ row' # NoDriver /\ row'.verification = "rejected"
             /\ \A d \in Doc : docs'[d] \notin {"pending_review", "verified"}
             /\ \A q \in Req : req'[q] = Idle
             /\ \A b \in Admin : adm'[b] = Undecided
  <2>1. row' = row /\ row.verification = "rejected" /\ row # NoDriver
    BY <1>1, Drivers DEF RejectDocs, Undisturbed
  <2>2. \A d \in Doc : docs'[d] \notin {"pending_review", "verified"}
    BY <1>1 DEF RejectDocs, Rewritten
  <2>3. \A q \in Req : req'[q] = Idle  BY <1>0, <1>1 DEF RejectDocs, Undisturbed, Quiet
  <2>4. \A b \in Admin : adm'[b] = Undecided  BY <1>0, <1>1 DEF RejectDocs, Undisturbed
  <2> QED BY <2>1, <2>2, <2>3, <2>4
<1>2. CASE \E a \in Admin : RejectDocs(a) /\ Undisturbed(a)
  BY <1>0, <1>1, <1>2
<1>3. CASE StandingRejection /\ UNCHANGED <<approval, settled>>
  <2>0. /\ row # NoDriver
        /\ row.verification = "rejected" \/ Anew
        /\ \A d \in Doc : docs[d] \in {"pending_review", "verified"} => uploads[d] = "since"
        /\ \A q \in Polls : \A d \in req[q].due : uploads[d] = "since"
        /\ \A a \in Admin : adm[a] = Undecided
        /\ req["status"].at = "update" => Anew
        /\ req["status"].at = "driver" /\ req["status"].all => Anew
    BY <1>3 DEF RejectedAnew, StandingRejection
  <2>1. \A a \in Admin : ~Approve(a) /\ ~Reject(a) /\ ~ApproveDocs(a) /\ ~RejectDocs(a)
                           /\ ~AdminFails(a)
    <3>1. \A a \in Admin : ~Approve(a) /\ ~Reject(a)
      BY <1>3 DEF Approve, Reject, StandingRejection
    <3>2. Undecided.op = "none"  BY DEF Undecided
    <3> QED BY <2>0, <3>1, <3>2 DEF ApproveDocs, RejectDocs, AdminFails
  <2>2. \A d \in Doc : uploads[d] = "since" => uploads'[d] = "since"
    BY <1>0, <2>1, HistorySteps DEF history, Upload
  <2>3. Anew => Anew'  BY <2>2 DEF Anew
  <2>4. row' # NoDriver  BY <2>0, RowStays
  <2>5. row'.verification = "rejected" \/ Anew'
    <3>1. CASE UpdateDriver  BY <2>0, <2>3, <3>1 DEF UpdateDriver, At
    <3>2. ~CreateDriver  BY <2>0 DEF CreateDriver, At, Typed, Founded
    <3> QED BY <2>0, <2>1, <2>3, <3>1, <3>2, VerdictEffects
  <2>6. ASSUME NEW d \in Doc, docs'[d] \in {"pending_review", "verified"}
        PROVE  uploads'[d] = "since"
    <3>1. CASE docs'[d] = docs[d]  BY <2>0, <2>2, <2>6, <3>1
    <3>2. CASE Upload(d)  BY <1>0, <3>2 DEF Upload
    <3>3. ASSUME NEW q \in Polls, MarkVerified(q, d) PROVE uploads'[d] = "since"
      BY <2>0, <2>2, <3>3 DEF MarkVerified
    <3> QED BY <2>1, <2>6, <3>1, <3>2, <3>3, DocEffects
  <2>7. ASSUME NEW q \in Polls, NEW d \in req'[q].due PROVE uploads'[d] = "since"
    <3>1. d \in req[q].due \/ d \in aged  BY <1>0, <2>7, ReqEffects
    <3>2. d \in Doc  BY <1>0, <3>1 DEF Typed, TypeOK, ReqRow
    <3>3. uploads[d] = "since"  BY <2>0, <3>1, <3>2 DEF Typed, TypeOK
    <3> QED BY <2>2, <3>2, <3>3
  <2>8. \A a \in Admin : adm'[a] = Undecided
    <3>1. UNCHANGED adm
      BY <2>1
         DEF Next, vvars, Launch, Close, LogOut, SignIn, SignUp, FindDriver, CreateDriver,
             CreateDocs, Upload, Ages, KycContinue, SubmitVehicle, PendingContinue,
             PendingResubmit, PollKyc, PollStatus, GetKyc, GetStatus, Poll, ListDue,
             MarkVerified, AnswerKyc, ReadDocs, ReadDriver, UpdateDriver, RequestFails,
             OpenPanel
    <3> QED BY <2>0, <3>1
  <2>9. req'["status"].at = "update" => Anew'
    <3>1. CASE req["status"].at = "update"  BY <2>0, <2>3, <3>1
    <3>2. CASE ReadDriver /\ req'["status"] # Idle
      <4>1. req["status"].at = "driver" /\ req["status"].all
        BY <1>0, <3>2 DEF ReadDriver, At, Answered
      <4> QED BY <2>0, <2>3, <4>1
    <3> QED BY <1>0, <3>1, <3>2, ReqEffects
  <2>10. req'["status"].at = "driver" /\ req'["status"].all => Anew'
    <3>1. CASE req'["status"] = req["status"]  BY <2>0, <2>3, <3>1
    <3>2. CASE ReadDocs
      <4>1. req'["status"].all => AllVerified  BY <1>0, <3>2, ReadDocsMoves
      <4>2. AllVerified => Anew  BY <2>0 DEF AllVerified, Anew
      <4> QED BY <2>3, <4>1, <4>2
    <3> QED BY <1>0, <3>1, <3>2, ReqEffects
  <2> QED BY <2>4, <2>5, <2>6, <2>7, <2>8, <2>9, <2>10
<1> QED BY <1>2, <1>3, Settles

(* What a rejection takes back stays taken back: neither a poll that was on  *)
(* its way nor any later one restores the driver before every document has   *)
(* come anew or an admin has approved.                                       *)
THEOREM RejectionsStand == Spec => []RejectionStands
<1>1. RejectedAnew => RejectionStands  BY DEF RejectedAnew, RejectionStands, Anew
<1> QED BY <1>1, RejectedAnewInit, RejectedAnewStep, TypedAlways, PTL DEF Spec
=============================================================================
