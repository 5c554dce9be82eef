------------------------------ MODULE Sessions ------------------------------
(***************************************************************************)
(* One user's sessions: sign-in by one-time code, refresh tokens that are  *)
(* rotated when they are used, and the tabs of a browser that share one    *)
(* stored pair of tokens.  A tab shares a refresh among the calls that     *)
(* need it; nothing does so between tabs.                                  *)
(*                                                                         *)
(* Every token is random, so its name tells nothing: a name that nobody    *)
(* holds any more is given to the next token.                              *)
(***************************************************************************)
EXTENDS Naturals, FiniteSets

CONSTANTS Tab, Call,
          Token,        \* names of refresh tokens
          Code,         \* codes a challenge may have
          NoToken,      \* null
          MaxFaults     \* bound on faults

ASSUME TokenAssumption == NoToken \notin Token /\ MaxFaults \in Nat

(* The browser holds a token, and so may the refresh and the form of each    *)
(* tab: one name more is always free.                                        *)
ASSUME EnoughNames ==
  /\ IsFiniteSet(Tab) /\ IsFiniteSet(Token)
  /\ Cardinality(Token) > 1 + 2 * Cardinality(Tab)

VARIABLES session,    \* table Session: the state of each token
          challenge,  \* table OtpChallenge: codes of the challenges that are open
          user,       \* row of the user: none, without a name, with one
          store,      \* localStorage: the access and the refresh token
          page,       \* where each tab is
          call,       \* API calls of the tabs
          refresh,    \* refreshInFlight of each tab, and its request
          form,       \* the login or logout a tab has submitted
          faults

VARIABLES exchanged,  \* (history) exchanges of each token
          passed      \* (history) per code, verifications since the last challenge

history == <<exchanged, passed>>
svars == <<session, challenge, user, store, page, call, refresh, form, faults, history>>

Maybe == Token \cup {NoToken}

NoStore   == [access |-> "none", refresh |-> NoToken]
NoCall    == [tab |-> "none", access |-> "none", retry |-> FALSE, waits |-> FALSE,
              launch |-> FALSE, alive |-> FALSE]
NoRefresh == [at |-> "idle", token |-> NoToken]
NoForm    == [at |-> "idle", token |-> NoToken, code |-> "none"]

Idle(c)    == call[c] = NoCall
Live(t)    == t # NoToken /\ session[t] = "live"
Quiet(t)   == refresh[t] = NoRefresh /\ form[t] = NoForm
Waiting(t) == {c \in Call : call[c].tab = t /\ call[c].waits}

(* Tokens that the browser or an answer on its way to it holds, and a name   *)
(* for a new one.                                                            *)
Held  == {store.refresh} \cup {refresh[t].token : t \in Tab}
           \cup {form[t].token : t \in Tab}
Fresh == CHOOSE n \in Token : n \notin Held

(* The row of a new token, for which another may be spent. *)
Issue(n, spent) ==
  /\ session' = [session EXCEPT ![n] = "live"]
  /\ exchanged' = [m \in Token |-> IF m = n THEN 0
                                   ELSE exchanged[m] + (IF m = spent THEN 1 ELSE 0)]

Rows == <<session, challenge, user, faults, history>>

(* A step of the browser, after which the rows of the tokens that nobody     *)
(* holds any more are forgotten.                                             *)
Forget ==
  LET lost == Token \ Held' IN
  /\ session'   = [n \in Token |-> IF n \in lost THEN "free" ELSE session[n]]
  /\ exchanged' = [n \in Token |-> IF n \in lost THEN 0 ELSE exchanged[n]]
  /\ UNCHANGED <<challenge, user, faults, passed>>
-----------------------------------------------------------------------------
(* apiClient: a call, its 401, the refresh it waits for, its one retry *)

(* A call leaves with the access token of this moment.  Launching the app is *)
(* the call of the root page, /me, which is not made without a token.        *)
Launch(t, c) ==
  /\ page[t] = "closed" /\ Quiet(t) /\ Idle(c)
  /\ IF store.access = "none"
       THEN page' = [page EXCEPT ![t] = "auth"] /\ UNCHANGED call
       ELSE /\ page' = [page EXCEPT ![t] = "root"]
            /\ call' = [call EXCEPT ![c] =
                 [NoCall EXCEPT !.tab = t, !.access = store.access, !.launch = TRUE,
                                !.alive = Live(store.refresh)]]
  /\ UNCHANGED <<Rows, store, refresh, form>>

Send(t, c) ==
  /\ page[t] \in {"app", "profile"} /\ Idle(c)
  /\ call' = [call EXCEPT ![c] = [NoCall EXCEPT !.tab = t, !.access = store.access]]
  /\ UNCHANGED <<Rows, store, page, refresh, form>>

(* Where a user who is signed in belongs. *)
Home == IF user' = "named" THEN "app" ELSE "profile"

(* The root page goes on when its call ends. *)
Landing(cs, where) ==
  page' = [t \in Tab |->
             IF \E c \in cs : call[c].tab = t /\ call[c].launch THEN where ELSE page[t]]

Accepted(c) ==
  /\ ~Idle(c) /\ ~call[c].waits /\ call[c].access = "valid"
  /\ call' = [call EXCEPT ![c] = NoCall]
  /\ UNCHANGED <<Rows, store, refresh, form>>
  /\ Landing({c}, Home)

(* Mutation: a 401 clears the tokens at once. *)
DeniedAtOnce(c) ==
  /\ ~Idle(c) /\ ~call[c].waits /\ call[c].access # "valid"
  /\ store' = NoStore
  /\ call' = [call EXCEPT ![c] = NoCall]
  /\ Landing({c}, "auth")
  /\ UNCHANGED <<refresh, form>> /\ Forget

(* 401: wait for this tab's refresh, and start it unless there is one.      *)
(* Without a refresh token, or on the retry, the tokens are cleared.        *)
Denied(c) ==
  LET t == call[c].tab IN
  /\ ~Idle(c) /\ ~call[c].waits /\ call[c].access # "valid"
  /\ IF call[c].retry \/ store.refresh = NoToken
       THEN /\ store' = NoStore
            /\ call' = [call EXCEPT ![c] = NoCall]
            /\ Landing({c}, "auth")
            /\ UNCHANGED refresh
       ELSE /\ call' = [call EXCEPT ![c].waits = TRUE]
            /\ refresh' = IF refresh[t] = NoRefresh
                            THEN [refresh EXCEPT ![t] = [at |-> "sent", token |-> store.refresh]]
                            ELSE refresh
            /\ UNCHANGED <<store, page>>
  /\ UNCHANGED <<form>> /\ Forget

(* Mutation: a call that has been retried is retried again. *)
RetryOn(cs) ==
  call' = [c \in Call |-> IF c \in cs
                            THEN [call[c] EXCEPT !.waits = FALSE, !.access = "valid"]
                            ELSE call[c]]

RetryOnce(cs) ==
  call' = [c \in Call |-> IF c \in cs
                            THEN [call[c] EXCEPT !.waits = FALSE, !.access = "valid",
                                                 !.retry = TRUE]
                            ELSE call[c]]

(* Mutation: setToken instead of setTokens. *)
RefreshStoresAccess(t) ==
  /\ page[t] # "closed" /\ refresh[t].at = "issued"
  /\ store' = [store EXCEPT !.access = "valid"]
  /\ RetryOnce(Waiting(t))
  /\ refresh' = [refresh EXCEPT ![t] = NoRefresh]
  /\ UNCHANGED <<page, form>> /\ Forget

(* The answer of the refresh resumes every call that waits for it. *)
RefreshSucceeds(t) ==
  /\ page[t] # "closed" /\ refresh[t].at = "issued"
  /\ store' = [access |-> "valid", refresh |-> refresh[t].token]
  /\ RetryOnce(Waiting(t))
  /\ refresh' = [refresh EXCEPT ![t] = NoRefresh]
  /\ UNCHANGED <<page, form>> /\ Forget

RefreshFails(t) ==
  /\ page[t] # "closed" /\ refresh[t].at = "failed"
  /\ store' = IF Waiting(t) = {} THEN store ELSE NoStore
  /\ call' = [c \in Call |-> IF c \in Waiting(t) THEN NoCall ELSE call[c]]
  /\ Landing(Waiting(t), "auth")
  /\ refresh' = [refresh EXCEPT ![t] = NoRefresh]
  /\ UNCHANGED <<form>> /\ Forget

(* A closed tab is not there to hear. *)
RefreshUnheard(t) ==
  /\ page[t] = "closed" /\ refresh[t].at \in {"issued", "failed"}
  /\ refresh' = [refresh EXCEPT ![t] = NoRefresh]
  /\ UNCHANGED <<store, page, call, form>> /\ Forget

FormUnheard(t) ==
  /\ page[t] = "closed" /\ form[t].at \in {"issued", "revoked", "refused"}
  /\ form' = [form EXCEPT ![t] = NoForm]
  /\ UNCHANGED <<store, page, call, refresh>> /\ Forget

-----------------------------------------------------------------------------
(* POST /auth/refresh: rotateRefreshToken, in three statements *)

(* Mutation: revokedAt is not looked at. *)
RotateFindAny(t) ==
  /\ refresh[t].at = "sent"
  /\ refresh' = [refresh EXCEPT ![t].at = IF session[refresh[t].token] = "expired"
                                                THEN "failed" ELSE "found"]
  /\ UNCHANGED <<Rows, store, page, call, form>>

RotateFind(t) ==
  /\ refresh[t].at = "sent"
  /\ refresh' = [refresh EXCEPT ![t].at = IF Live(refresh[t].token) THEN "found" ELSE "failed"]
  /\ UNCHANGED <<Rows, store, page, call, form>>

RotateRevoke(t) ==
  /\ refresh[t].at = "found"
  /\ session' = [session EXCEPT ![refresh[t].token] = "revoked"]
  /\ refresh' = [refresh EXCEPT ![t].at = "revoked"]
  /\ UNCHANGED <<challenge, user, faults, history, store, page, call, form>>

RotateIssue(t) ==
  /\ refresh[t].at = "revoked"
  /\ Issue(Fresh, refresh[t].token)
  /\ refresh' = [refresh EXCEPT ![t] = [at |-> "issued", token |-> Fresh]]
  /\ UNCHANGED <<challenge, user, faults, passed, store, page, call, form>>

-----------------------------------------------------------------------------
(* Sign-in and sign-out *)

(* POST /otp/request, on the way to the page that asks for the code. *)
AskForCode(t, code) ==
  /\ page[t] \in {"auth", "otp"}
  /\ page' = [page EXCEPT ![t] = "otp"]
  /\ challenge' = challenge \cup {code}
  /\ passed' = [passed EXCEPT ![code] = 0]
  /\ UNCHANGED <<session, user, store, call, refresh, form, faults, exchanged>>

Submit(t, code) ==
  /\ page[t] = "otp" /\ form[t] = NoForm
  /\ form' = [form EXCEPT ![t] = [NoForm EXCEPT !.at = "code", !.code = code]]
  /\ UNCHANGED <<Rows, store, page, call, refresh>>

(* Mutation: findFirst, then an update by id, which another verification may  *)
(* have made in between.                                                     *)
VerifyFind(t) ==
  LET code == form[t].code IN
  /\ \/ /\ form[t].at = "code"
        /\ form' = [form EXCEPT ![t].at = IF code \in challenge THEN "checked" ELSE "refused"]
        /\ UNCHANGED <<challenge, passed>>
     \/ /\ form[t].at = "checked"
        /\ challenge' = challenge \ {code}
        /\ passed' = [passed EXCEPT ![code] = @ + 1]
        /\ form' = [form EXCEPT ![t].at = "verified"]
  /\ UNCHANGED <<session, user, store, page, call, refresh, faults, exchanged>>

(* POST /otp/verify: one UPDATE consumes every challenge with this code. *)
Verify(t) ==
  LET code == form[t].code
      ok   == code \in challenge IN
  /\ form[t].at = "code"
  /\ challenge' = challenge \ {code}
  /\ passed' = IF ok THEN [passed EXCEPT ![code] = @ + 1] ELSE passed
  /\ form' = [form EXCEPT ![t].at = IF ok THEN "verified" ELSE "refused"]
  /\ UNCHANGED <<session, user, store, page, call, refresh, faults, exchanged>>

(* The user's row is created unless it is there and, unless the account is   *)
(* suspended, a session follows.                                             *)
LogIn(t) ==
  /\ form[t].at = "verified"
  /\ user' = IF user = "none" THEN "unnamed" ELSE user
  /\ \/ /\ Issue(Fresh, NoToken)
        /\ form' = [form EXCEPT ![t].at = "issued", ![t].token = Fresh]
     \/ form' = [form EXCEPT ![t].at = "refused"] /\ UNCHANGED <<session, exchanged>>
  /\ UNCHANGED <<challenge, passed, store, page, call, refresh, faults>>

LoggedIn(t) ==
  /\ page[t] # "closed" /\ form[t].at = "issued"
  /\ store' = [access |-> "valid", refresh |-> form[t].token]
  /\ form' = [form EXCEPT ![t] = NoForm]
  /\ UNCHANGED <<call, refresh>> /\ Forget
  /\ page' = [page EXCEPT ![t] = Home]

(* POST /profile, of a call that is not denied. *)
SaveProfile(t) ==
  /\ page[t] = "profile" /\ store.access = "valid"
  /\ user' = "named"
  /\ page' = [page EXCEPT ![t] = "app"]
  /\ UNCHANGED <<session, challenge, faults, history, store, call, refresh, form>>

LoginRefused(t) ==
  /\ page[t] # "closed" /\ form[t].at = "refused"
  /\ form' = [form EXCEPT ![t] = NoForm]
  /\ UNCHANGED <<store, page, call, refresh>> /\ Forget

(* logout(): revoke the stored token if there is one, then clear. *)
LogOut(t) ==
  /\ page[t] = "app" /\ form[t] = NoForm
  /\ form' = [form EXCEPT ![t] =
       [NoForm EXCEPT !.at = IF store.refresh = NoToken THEN "revoked" ELSE "logout",
                      !.token = store.refresh]]
  /\ UNCHANGED <<Rows, store, page, call, refresh>>

Revoke(t) ==
  /\ form[t].at = "logout"
  /\ session' = IF Live(form[t].token) THEN [session EXCEPT ![form[t].token] = "revoked"]
                                       ELSE session
  /\ form' = [form EXCEPT ![t].at = "revoked"]
  /\ UNCHANGED <<challenge, user, store, page, call, refresh, faults, history>>

LoggedOut(t) ==
  /\ page[t] # "closed" /\ form[t].at = "revoked"
  /\ store' = NoStore
  /\ page' = [page EXCEPT ![t] = "auth"]
  /\ form' = [form EXCEPT ![t] = NoForm]
  /\ UNCHANGED <<call, refresh>> /\ Forget

-----------------------------------------------------------------------------
(* Time and faults *)

(* 15 minutes pass.  A call that carries a token just refreshed ends before. *)
AccessExpires ==
  /\ store.access = "valid" /\ \A c \in Call : ~call[c].retry
  /\ store' = [store EXCEPT !.access = "expired"]
  /\ call' = [c \in Call |-> IF call[c].access = "valid"
                               THEN [call[c] EXCEPT !.access = "expired"] ELSE call[c]]
  /\ UNCHANGED <<Rows, page, refresh, form>>

(* 5 minutes pass. *)
ChallengeExpires(code) ==
  /\ code \in challenge
  /\ challenge' = challenge \ {code}
  /\ UNCHANGED <<session, user, faults, history, store, page, call, refresh, form>>

(* 30 days pass since the stored token was issued, and nobody is there. *)
SessionExpires ==
  /\ Live(store.refresh) /\ store.access = "expired"
  /\ \A t \in Tab : Quiet(t)
  /\ \A c \in Call : Idle(c)
  /\ session' = [session EXCEPT ![store.refresh] = "expired"]
  /\ UNCHANGED <<challenge, user, history, store, page, call, refresh, form, faults>>

Faulty == faults < MaxFaults /\ faults' = faults + 1

(* The server stops, a statement throws or the connection breaks: the caller *)
(* gets an error for an answer, whatever has been done.                      *)
RefreshLost(t) ==
  /\ Faulty /\ refresh[t].at \in {"sent", "found", "revoked", "issued"}
  /\ refresh' = [refresh EXCEPT ![t].at = "failed"]
  /\ UNCHANGED <<session, challenge, user, history, store, page, call, form>>

FormLost(t) ==
  /\ Faulty /\ form[t].at \in {"code", "verified", "issued", "logout"}
  /\ form' = [form EXCEPT ![t].at = IF @ = "logout" THEN "revoked" ELSE "refused"]
  /\ UNCHANGED <<session, challenge, user, history, store, page, call, refresh>>

CallLost(c) ==
  /\ Faulty /\ ~Idle(c) /\ ~call[c].waits
  /\ call' = [call EXCEPT ![c] = NoCall]
  /\ Landing({c}, "auth")
  /\ UNCHANGED <<session, challenge, user, history, store, refresh, form>>

(* The tab is closed, which is a fault while it refreshes or signs in or     *)
(* out: what it has asked of the server goes on, and nobody hears of it.     *)
Close(t) ==
  /\ page[t] # "closed"
  /\ IF Quiet(t) THEN UNCHANGED faults ELSE Faulty
  /\ page' = [page EXCEPT ![t] = "closed"]
  /\ call' = [c \in Call |-> IF call[c].tab = t THEN NoCall ELSE call[c]]
  /\ UNCHANGED <<session, challenge, user, history, store, refresh, form>>

-----------------------------------------------------------------------------
Init ==
  /\ session   = [n \in Token |-> "free"]
  /\ challenge = {}
  /\ user      = "none"
  /\ store     = NoStore
  /\ page      = [t \in Tab |-> "closed"]
  /\ call      = [c \in Call |-> NoCall]
  /\ refresh   = [t \in Tab |-> NoRefresh]
  /\ form      = [t \in Tab |-> NoForm]
  /\ faults    = 0
  /\ exchanged = [n \in Token |-> 0]
  /\ passed    = [code \in Code |-> 0]

Refreshing(t) == \/ RotateFind(t) \/ RotateRevoke(t) \/ RotateIssue(t)
                 \/ RefreshSucceeds(t) \/ RefreshFails(t) \/ RefreshUnheard(t)

Submitted(t) == \/ Verify(t) \/ LogIn(t) \/ Revoke(t)
                \/ LoggedIn(t) \/ LoginRefused(t) \/ LoggedOut(t) \/ FormUnheard(t)

Answer(c) == Accepted(c) \/ Denied(c)

User == \E t \in Tab :
  \/ \E c \in Call : Launch(t, c) \/ Send(t, c)
  \/ \E code \in Code : AskForCode(t, code) \/ Submit(t, code)
  \/ SaveProfile(t) \/ LogOut(t)

Fault == \/ \E t \in Tab : RefreshLost(t) \/ FormLost(t) \/ Close(t)
         \/ \E c \in Call : CallLost(c)

Next == \/ \E t \in Tab : Refreshing(t) \/ Submitted(t)
        \/ \E c \in Call : Answer(c)
        \/ \E code \in Code : ChallengeExpires(code)
        \/ User \/ Fault \/ AccessExpires \/ SessionExpires

Spec == Init /\ [][Next]_svars

(* The server answers what it is asked, and the browser runs its callbacks. *)
FairSpec == /\ Spec
            /\ \A t \in Tab : WF_svars(Refreshing(t)) /\ WF_svars(Submitted(t))
            /\ \A c \in Call : WF_svars(Answer(c))

-----------------------------------------------------------------------------
(* Properties *)

CallRow    == [tab : Tab \cup {"none"}, access : {"none", "valid", "expired"},
               retry : BOOLEAN, waits : BOOLEAN, launch : BOOLEAN, alive : BOOLEAN]
RefreshRow == [at : {"idle", "sent", "found", "revoked", "issued", "failed"}, token : Maybe]
FormRow    == [at : {"idle", "code", "verified", "issued", "refused", "logout", "revoked"},
               token : Maybe, code : Code \cup {"none"}]

(* Type correctness *)
TypeOK ==
  /\ session \in [Token -> {"free", "live", "revoked", "expired"}]
  /\ challenge \subseteq Code
  /\ user \in {"none", "unnamed", "named"}
  /\ store \in [access : {"none", "valid", "expired"}, refresh : Maybe]
  /\ page \in [Tab -> {"closed", "root", "auth", "otp", "profile", "app"}]
  /\ call \in [Call -> CallRow]
  /\ refresh \in [Tab -> RefreshRow]
  /\ form \in [Tab -> FormRow]
  /\ faults \in 0 .. MaxFaults
  /\ exchanged \in [Token -> Nat] /\ passed \in [Code -> Nat]

(* refreshToken.ts:29-31: a refresh token is single-use.  It is, as long as  *)
(* the tabs of the user do not refresh at the same time.                     *)
SingleUse == \A n \in Token : exchanged[n] <= 1

(* otp.ts:23-25: two concurrent verify requests with one code never both     *)
(* pass: a challenge, or several with one code, let in one of them.          *)
OneSignInPerChallenge ==
  \A code \in Code : passed[code] + (IF code \in challenge THEN 1 ELSE 0) <= 1

(* When nothing is under way, the browser does not sit on a token that the   *)
(* server has revoked, unless an answer was lost.                            *)
StoredTokenIsGood ==
  (faults = 0 /\ \A t \in Tab : Quiet(t)) =>
     (store.refresh # NoToken => session[store.refresh] # "revoked")

(* A restart of the app with a live session ends on the app, not back at the *)
(* phone number (customer/app/page.tsx:7-10), unless an answer was lost.     *)
LaunchKeepsSession ==
  [][\A c \in Call :
       (call[c].launch /\ call[c].alive /\ call'[c] = NoCall /\ faults' = 0)
         => page'[call[c].tab] \in {"app", "profile", "closed"}]_svars

(* No request hangs or is retried for ever (apiClient.ts:17), and every      *)
(* refresh makes room for the next one.                                      *)
CallsSettle ==
  /\ \A c \in Call : ~Idle(c) ~> Idle(c)
  /\ \A t \in Tab : refresh[t] # NoRefresh ~> refresh[t] = NoRefresh
=============================================================================
