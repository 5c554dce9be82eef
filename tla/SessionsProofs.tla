---------------------------- MODULE SessionsProofs ----------------------------
(* Tokens and codes are used once, the stored token is good, and a launch    *)
(* keeps its session, for any numbers of tabs, calls, tokens, codes and      *)
(* faults.  Where the tabs have to take turns the theorems say so.           *)
EXTENDS Sessions, FiniteSetTheorems, TLAPS

(* What is in flight names the tab, token and code it is about. *)
Named ==
  /\ \A t \in Tab : refresh[t].at # "idle" => refresh[t].token \in Token
  /\ \A t \in Tab : form[t].at \in {"logout", "issued"} => form[t].token \in Token
  /\ \A t \in Tab : form[t].at = "code" => form[t].code \in Code
  /\ \A c \in Call : ~Idle(c) => call[c].tab \in Tab /\ page[call[c].tab] # "closed"

Typed == TypeOK /\ Named

-----------------------------------------------------------------------------
(* There is a name for a new token: what is held are at most the stored      *)
(* token and two more for every tab.                                         *)
LEMMA TokensOf ==
  ASSUME NEW f \in [Tab -> Maybe]
  PROVE  LET S == {f[t] : t \in Tab} IN
           IsFiniteSet(S) /\ Cardinality(S) \in Nat /\ Cardinality(S) <= Cardinality(Tab)
<1> DEFINE S == {f[t] : t \in Tab}
<1>1. f \in Surjection(Tab, S)  BY DEF Surjection
<1>2. IsFiniteSet(Tab)  BY EnoughNames
<1>3. IsFiniteSet(S) /\ Cardinality(S) <= Cardinality(Tab)  BY <1>1, <1>2, FS_Surjection
<1> QED BY <1>3, FS_CardinalityType

LEMMA FreshIsFree == TypeOK => Fresh \in Token \ Held
<1> SUFFICES ASSUME TypeOK PROVE \E n \in Token : n \notin Held
  BY DEF Fresh
<1> DEFINE inRefresh == [t \in Tab |-> refresh[t].token]
           inForm    == [t \in Tab |-> form[t].token]
           R == {inRefresh[t] : t \in Tab}
           F == {inForm[t] : t \in Tab}
<1>1. inRefresh \in [Tab -> Maybe] /\ inForm \in [Tab -> Maybe]
  BY DEF TypeOK, RefreshRow, FormRow
<1> HIDE DEF inRefresh, inForm
<1>2. /\ IsFiniteSet(R) /\ Cardinality(R) \in Nat /\ Cardinality(R) <= Cardinality(Tab)
      /\ IsFiniteSet(F) /\ Cardinality(F) \in Nat /\ Cardinality(F) <= Cardinality(Tab)
  BY <1>1, TokensOf
<1> HIDE DEF R, F
<1>3. /\ IsFiniteSet(R \cup F) /\ Cardinality(R \cup F) \in Nat
      /\ Cardinality(R \cup F) <= Cardinality(R) + Cardinality(F)
  <2>1. /\ IsFiniteSet(R \cup F)
        /\ Cardinality(R \cup F) = Cardinality(R) + Cardinality(F) - Cardinality(R \cap F)
    BY <1>2, FS_Union
  <2>2. IsFiniteSet(R \cap F)  BY <1>2, FS_Intersection
  <2>3. Cardinality(R \cap F) \in Nat /\ Cardinality(R \cup F) \in Nat
    BY <2>1, <2>2, FS_CardinalityType
  <2> QED BY <1>2, <2>1, <2>3
<1>4. /\ IsFiniteSet((R \cup F) \cup {store.refresh})
      /\ Cardinality((R \cup F) \cup {store.refresh}) <= Cardinality(R \cup F) + 1
  BY <1>3, FS_AddElement
<1>5. Held = (R \cup F) \cup {store.refresh}
  BY DEF Held, R, F, inRefresh, inForm
<1>6. IsFiniteSet(Held) /\ Cardinality(Held) <= 1 + 2 * Cardinality(Tab)
  <2>1. Cardinality(Tab) \in Nat /\ Cardinality((R \cup F) \cup {store.refresh}) \in Nat
    BY <1>4, EnoughNames, FS_CardinalityType
  <2> QED BY <1>2, <1>3, <1>4, <1>5, <2>1
<1>7. ASSUME Token \subseteq Held PROVE FALSE
  <2>1. Cardinality(Token) <= Cardinality(Held)  BY <1>6, <1>7, FS_Subset
  <2>2. /\ Cardinality(Tab) \in Nat /\ Cardinality(Token) \in Nat
        /\ Cardinality(Held) \in Nat
    BY <1>6, EnoughNames, FS_CardinalityType
  <2> QED BY <1>6, <2>1, <2>2, EnoughNames
<1> QED BY <1>7

-----------------------------------------------------------------------------
(* Types *)

LEMMA TypedInit == Init => Typed
BY TokenAssumption
   DEF Init, Typed, TypeOK, Named, NoStore, NoCall, NoRefresh, NoForm, Maybe, CallRow,
       RefreshRow, FormRow, Idle

LEMMA ForgetTyped ==
  ASSUME TypeOK, Forget
  PROVE  /\ session' \in [Token -> {"free", "live", "revoked", "expired"}]
         /\ exchanged' \in [Token -> Nat]
         /\ challenge' \subseteq Code /\ user' \in {"none", "unnamed", "named"}
         /\ faults' \in 0 .. MaxFaults /\ passed' \in [Code -> Nat]
BY DEF TypeOK, Forget

LEMMA IssueTyped ==
  ASSUME TypeOK, NEW spent, Issue(Fresh, spent)
  PROVE  /\ session' \in [Token -> {"free", "live", "revoked", "expired"}]
         /\ exchanged' \in [Token -> Nat]
<1>1. session' \in [Token -> {"free", "live", "revoked", "expired"}]  BY DEF TypeOK, Issue
<1>2. exchanged' = [m \in Token |-> IF m = Fresh THEN 0
                                   ELSE exchanged[m] + (IF m = spent THEN 1 ELSE 0)]
  BY DEF Issue
<1>3. ASSUME NEW m \in Token PROVE exchanged'[m] \in Nat
  <2>1. exchanged[m] \in Nat  BY DEF TypeOK
  <2>2. CASE m = Fresh  BY <1>2, <2>2
  <2>3. CASE m # Fresh /\ m = spent  BY <1>2, <2>1, <2>3
  <2>4. CASE m # Fresh /\ m # spent  BY <1>2, <2>1, <2>4
  <2> QED BY <2>2, <2>3, <2>4
<1>4. exchanged' \in [Token -> Nat]
  <2> DEFINE f(m) == IF m = Fresh THEN 0 ELSE exchanged[m] + (IF m = spent THEN 1 ELSE 0)
  <2>1. exchanged' = [m \in Token |-> f(m)]  BY <1>2
  <2>2. \A m \in Token : f(m) \in Nat
    <3> SUFFICES ASSUME NEW m \in Token PROVE f(m) \in Nat  OBVIOUS
    <3>1. exchanged'[m] = f(m)  BY <2>1
    <3> QED BY <1>3, <3>1
  <2> HIDE DEF f
  <2> QED BY <2>1, <2>2
<1> QED BY <1>1, <1>4

LEMMA LandingTyped ==
  ASSUME TypeOK, NEW cs, NEW where \in {"root", "auth", "otp", "profile", "app"},
         Landing(cs, where)
  PROVE  /\ page' \in [Tab -> {"closed", "root", "auth", "otp", "profile", "app"}]
         /\ \A t \in Tab : page[t] # "closed" => page'[t] # "closed"
BY DEF TypeOK, Landing

LEMMA CallRowsTyped ==
  /\ \A row \in CallRow :
       /\ [row EXCEPT !.waits = TRUE] \in CallRow
       /\ [row EXCEPT !.access = "expired"] \in CallRow
       /\ [row EXCEPT !.waits = FALSE, !.access = "valid", !.retry = TRUE] \in CallRow
  /\ \A t \in Tab, alive \in BOOLEAN, access \in {"none", "valid", "expired"} :
       [NoCall EXCEPT !.tab = t, !.access = access, !.launch = TRUE, !.alive = alive]
         \in CallRow
BY DEF CallRow, NoCall

LEMMA CallsTyped ==
  ASSUME Typed, NEW t \in Tab, NEW c \in Call, Launch(t, c) \/ Send(t, c)
  PROVE  Typed'
<1>1. store.access \in {"none", "valid", "expired"}  BY DEF Typed, TypeOK
<1>2. CASE Launch(t, c)
  <2>1. /\ call' \in [Call -> CallRow]
        /\ \A d \in Call : call'[d] = call[d] \/ (call'[d].tab = t /\ page'[t] = "root")
    <3> DEFINE row == [NoCall EXCEPT !.tab = t, !.access = store.access, !.launch = TRUE,
                                     !.alive = Live(store.refresh)]
    <3>1. Live(store.refresh) \in BOOLEAN  BY DEF Live
    <3>2. row \in CallRow  BY <1>1, <3>1, CallRowsTyped
    <3>3. row.tab = t  BY DEF NoCall
    <3>4. \/ UNCHANGED call
          \/ call' = [call EXCEPT ![c] = row] /\ page' = [page EXCEPT ![t] = "root"]
      BY <1>2 DEF Launch
    <3> HIDE DEF row
    <3> QED BY <3>2, <3>3, <3>4 DEF Typed, TypeOK
  <2>2. /\ page' \in [Tab -> {"closed", "root", "auth", "otp", "profile", "app"}]
        /\ page'[t] # "closed" /\ \A s \in Tab \ {t} : page'[s] = page[s]
    BY <1>2 DEF Launch, Typed, TypeOK
  <2> QED BY <1>2, <2>1, <2>2 DEF Launch, Rows, history, Typed, TypeOK, Named, Idle
<1>3. CASE Send(t, c)
  BY <1>1, <1>3 DEF Send, Rows, history, Typed, TypeOK, Named, CallRow, NoCall, Idle
<1> QED BY <1>2, <1>3

LEMMA AnswersTyped ==
  ASSUME Typed, NEW c \in Call, Accepted(c) \/ Denied(c) \/ CallLost(c)
  PROVE  Typed'
<1> USE DEF Typed
<1>0. NoCall \in CallRow /\ Idle(c)' = (call'[c] = NoCall)  BY DEF NoCall, CallRow, Idle
<1>1. CASE Accepted(c)
  <2>1. Home \in {"app", "profile"}  BY DEF Home
  <2>2. Landing({c}, Home)  BY <1>1 DEF Accepted
  <2> QED BY <1>0, <1>1, <2>1, <2>2, LandingTyped DEF Accepted, Rows, history, TypeOK, Named, Idle
<1>2. CASE CallLost(c)
  <2>1. Landing({c}, "auth")  BY <1>2 DEF CallLost
  <2> QED BY <1>0, <1>2, <2>1, LandingTyped, TokenAssumption
          DEF CallLost, Faulty, history, TypeOK, Named, Idle
<1>3. CASE Denied(c)
  <2>1. Forget  BY <1>3 DEF Denied
  <2>2. CASE call[c].retry \/ store.refresh = NoToken
    <3>1. Landing({c}, "auth")  BY <1>3, <2>2 DEF Denied
    <3> QED BY <1>0, <1>3, <2>1, <2>2, <3>1, LandingTyped, ForgetTyped
            DEF Denied, TypeOK, Named, NoStore, Maybe, Idle
  <2>3. CASE ~(call[c].retry \/ store.refresh = NoToken)
    <3>1. store.refresh \in Token  BY <2>3 DEF TypeOK, Maybe
    <3>2. /\ call' = [call EXCEPT ![c].waits = TRUE]
          /\ call[c] \in CallRow /\ call \in [Call -> CallRow]
          /\ call' \in [Call -> CallRow]
      <4>1. call' = [call EXCEPT ![c].waits = TRUE]  BY <1>3, <2>3 DEF Denied
      <4>2. call \in [Call -> CallRow] /\ [call[c] EXCEPT !.waits = TRUE] \in CallRow
        BY CallRowsTyped DEF TypeOK
      <4> QED BY <4>1, <4>2
    <3>3. /\ refresh' \in [Tab -> RefreshRow]
          /\ \A t \in Tab : refresh'[t].at # "idle" => refresh'[t].token \in Token
      BY <1>3, <2>3, <3>1 DEF Denied, TypeOK, Named, RefreshRow, Maybe
    <3>4. \A d \in Call : ~Idle(d)' => ~Idle(d) /\ call'[d].tab = call[d].tab
      <4> SUFFICES ASSUME NEW d \in Call, ~Idle(d)'
                   PROVE  ~Idle(d) /\ call'[d].tab = call[d].tab
        OBVIOUS
      <4>1. CASE d = c  BY <1>3, <3>2, <4>1 DEF Denied, Idle, CallRow
      <4>2. CASE d # c  BY <3>2, <4>2 DEF Idle
      <4> QED BY <4>1, <4>2
    <3> QED BY <1>3, <2>1, <2>3, <3>2, <3>3, <3>4, ForgetTyped DEF Denied, TypeOK, Named
  <2> QED BY <2>2, <2>3
<1> QED BY <1>1, <1>2, <1>3

LEMMA RefreshTyped ==
  ASSUME Typed, NEW t \in Tab, Refreshing(t) \/ RefreshLost(t)
  PROVE  Typed'
<1> USE DEF Typed
<1>0. refresh[t] \in RefreshRow /\ NoRefresh \in RefreshRow /\ NoRefresh.at = "idle"
  BY DEF TypeOK, NoRefresh, RefreshRow, Maybe
<1>1. CASE RotateFind(t)
  BY <1>0, <1>1 DEF RotateFind, Rows, history, TypeOK, Named, RefreshRow, Idle
<1>2. CASE RotateRevoke(t)
  BY <1>0, <1>2 DEF RotateRevoke, history, TypeOK, Named, RefreshRow, Idle
<1>3. CASE RotateIssue(t)
  BY <1>0, <1>3, IssueTyped, FreshIsFree
     DEF RotateIssue, TypeOK, Named, RefreshRow, Idle, Maybe
<1>4. CASE RefreshSucceeds(t)
  <2>1. Forget /\ RetryOnce(Waiting(t))  BY <1>4 DEF RefreshSucceeds
  <2>2. /\ call' \in [Call -> CallRow]
        /\ \A d \in Call : ~Idle(d)' => ~Idle(d) /\ call'[d].tab = call[d].tab
    <3>1. ASSUME NEW d \in Call
          PROVE  /\ call'[d] \in CallRow
                 /\ call'[d] = NoCall \/ (~Idle(d) /\ call'[d].tab = call[d].tab)
      <4>1. call[d] \in CallRow  BY DEF TypeOK
      <4>2. CASE d \in Waiting(t)
        <5>1. call'[d] = [call[d] EXCEPT !.waits = FALSE, !.access = "valid", !.retry = TRUE]
          BY <2>1, <4>2 DEF RetryOnce
        <5>2. ~Idle(d)  BY <4>2 DEF Waiting, Idle, NoCall
        <5>3. call'[d] \in CallRow  BY <4>1, <5>1, CallRowsTyped
        <5>4. call'[d].tab = call[d].tab  BY <4>1, <5>1 DEF CallRow
        <5> QED BY <5>2, <5>3, <5>4
      <4>3. CASE d \notin Waiting(t)  BY <2>1, <4>1, <4>3 DEF RetryOnce, Idle
      <4> QED BY <4>2, <4>3
    <3> QED BY <2>1, <3>1 DEF RetryOnce, Idle
  <2>3. /\ refresh' \in [Tab -> RefreshRow]
        /\ \A s \in Tab : refresh'[s].at # "idle" => refresh'[s].token \in Token
    BY <1>0, <1>4 DEF RefreshSucceeds, TypeOK, Named
  <2>4. store' \in [access : {"none", "valid", "expired"}, refresh : Maybe]
    BY <1>0, <1>4 DEF RefreshSucceeds, RefreshRow
  <2> QED BY <1>4, <2>1, <2>2, <2>3, <2>4, ForgetTyped DEF RefreshSucceeds, TypeOK, Named
<1>5. CASE RefreshFails(t)
  <2>1. Forget /\ Landing(Waiting(t), "auth")  BY <1>5 DEF RefreshFails
  <2>2. /\ call' \in [Call -> CallRow]
        /\ \A d \in Call : ~Idle(d)' => ~Idle(d) /\ call'[d].tab = call[d].tab
    BY <1>5 DEF RefreshFails, TypeOK, CallRow, Idle, NoCall
  <2>3. /\ refresh' \in [Tab -> RefreshRow]
        /\ \A s \in Tab : refresh'[s].at # "idle" => refresh'[s].token \in Token
    BY <1>0, <1>5 DEF RefreshFails, TypeOK, Named
  <2>4. store' \in [access : {"none", "valid", "expired"}, refresh : Maybe]
    BY <1>5 DEF RefreshFails, NoStore, TypeOK, Maybe
  <2> QED BY <1>5, <2>1, <2>2, <2>3, <2>4, ForgetTyped, LandingTyped
          DEF RefreshFails, TypeOK, Named
<1>6. CASE RefreshUnheard(t)
  <2>1. Forget  BY <1>6 DEF RefreshUnheard
  <2> QED BY <1>0, <1>6, <2>1, ForgetTyped DEF RefreshUnheard, TypeOK, Named, Idle
<1>7. CASE RefreshLost(t)
  BY <1>0, <1>7, TokenAssumption
     DEF RefreshLost, Faulty, history, TypeOK, Named, RefreshRow, Idle
<1> QED BY <1>1, <1>2, <1>3, <1>4, <1>5, <1>6, <1>7 DEF Refreshing

LEMMA FormTyped ==
  ASSUME Typed, NEW t \in Tab, Submitted(t) \/ FormLost(t)
  PROVE  Typed'
<1> USE DEF Typed
<1>0. form[t] \in FormRow /\ NoForm \in FormRow /\ NoForm.at = "idle"
  BY DEF TypeOK, NoForm, FormRow, Maybe
<1>1. CASE Verify(t)
  BY <1>0, <1>1, SMTT(40) DEF Verify, TypeOK, Named, FormRow, Idle
<1>2. CASE LogIn(t)
  <2>1. /\ session' \in [Token -> {"free", "live", "revoked", "expired"}]
        /\ exchanged' \in [Token -> Nat]
    BY <1>2, IssueTyped DEF LogIn, TypeOK
  <2>2. /\ form' \in [Tab -> FormRow]
        /\ \A s \in Tab \ {t} : form'[s] = form[s]
        /\ form'[t].at \in {"logout", "issued"} => form'[t].token \in Token
        /\ form'[t].at # "code"
    BY <1>0, <1>2, FreshIsFree DEF LogIn, TypeOK, FormRow, Maybe
  <2> QED BY <1>2, <2>1, <2>2 DEF LogIn, TypeOK, Named, Idle
<1>3. CASE Revoke(t)
  BY <1>0, <1>3 DEF Revoke, history, TypeOK, Named, FormRow, Idle, Live
<1>4. CASE LoggedIn(t)
  <2>1. Forget /\ Home \in {"app", "profile"}  BY <1>4 DEF LoggedIn, Home
  <2> QED BY <1>0, <1>4, <2>1, ForgetTyped DEF LoggedIn, TypeOK, Named, FormRow, Idle
<1>5. CASE LoginRefused(t)
  <2>1. Forget  BY <1>5 DEF LoginRefused
  <2> QED BY <1>0, <1>5, <2>1, ForgetTyped DEF LoginRefused, TypeOK, Named, Idle
<1>6. CASE LoggedOut(t)
  <2>1. Forget /\ NoStore \in [access : {"none", "valid", "expired"}, refresh : Maybe]
    BY <1>6 DEF LoggedOut, NoStore, Maybe
  <2> QED BY <1>0, <1>6, <2>1, ForgetTyped DEF LoggedOut, TypeOK, Named, Idle
<1>7. CASE FormUnheard(t)
  <2>1. Forget  BY <1>7 DEF FormUnheard
  <2> QED BY <1>0, <1>7, <2>1, ForgetTyped DEF FormUnheard, TypeOK, Named, Idle
<1>8. CASE FormLost(t)
  BY <1>0, <1>8, TokenAssumption, SMTT(40) DEF FormLost, Faulty, history, TypeOK, Named, FormRow, Idle
<1> QED BY <1>1, <1>2, <1>3, <1>4, <1>5, <1>6, <1>7, <1>8 DEF Submitted

LEMMA UserTyped ==
  ASSUME Typed, NEW t \in Tab,
         \/ SaveProfile(t) \/ LogOut(t) \/ Close(t)
         \/ \E code \in Code : AskForCode(t, code) \/ Submit(t, code)
  PROVE  Typed'
<1> USE DEF Typed
<1>1. ASSUME NEW code \in Code, AskForCode(t, code) PROVE Typed'
  BY <1>1 DEF AskForCode, TypeOK, Named, Idle
<1>2. ASSUME NEW code \in Code, Submit(t, code) PROVE Typed'
  BY <1>2, ZenonT(40) DEF Submit, Rows, history, TypeOK, Named, Idle, NoForm, FormRow, Maybe
<1>3. CASE SaveProfile(t)  BY <1>3 DEF SaveProfile, history, TypeOK, Named, Idle
<1>4. CASE LogOut(t)
  BY <1>4 DEF LogOut, Rows, history, TypeOK, Named, Idle, NoForm, FormRow, Maybe
<1>5. CASE Close(t)
  <2>1. faults' \in 0 .. MaxFaults  BY <1>5, TokenAssumption DEF Close, Faulty, TypeOK
  <2>2. /\ call' \in [Call -> CallRow]
        /\ \A d \in Call : ~Idle(d)' => ~Idle(d) /\ call'[d] = call[d] /\ call[d].tab # t
    BY <1>5 DEF Close, TypeOK, CallRow, Idle, NoCall
  <2>3. \A s \in Tab \ {t} : page'[s] = page[s]  BY <1>5 DEF Close, TypeOK
  <2> QED BY <1>5, <2>1, <2>2, <2>3 DEF Close, history, TypeOK, Named
<1> QED BY <1>1, <1>2, <1>3, <1>4, <1>5

LEMMA TimeTyped ==
  ASSUME Typed,
         AccessExpires \/ SessionExpires \/ \E code \in Code : ChallengeExpires(code)
  PROVE  Typed'
<1> USE DEF Typed
<1>1. CASE AccessExpires
  <2>1. /\ call' \in [Call -> CallRow]
        /\ \A d \in Call : ~Idle(d)' => ~Idle(d) /\ call'[d].tab = call[d].tab
    <3>1. ASSUME NEW d \in Call
          PROVE  /\ call'[d] \in CallRow
                 /\ call'[d] = NoCall \/ (~Idle(d) /\ call'[d].tab = call[d].tab)
      <4>1. call[d] \in CallRow  BY DEF TypeOK
      <4>2. CASE call[d].access = "valid"
        <5>1. call'[d] = [call[d] EXCEPT !.access = "expired"]
          BY <1>1, <4>2 DEF AccessExpires
        <5>2. ~Idle(d)  BY <4>2 DEF Idle, NoCall
        <5>3. call'[d] \in CallRow  BY <4>1, <5>1, CallRowsTyped
        <5>4. call'[d].tab = call[d].tab  BY <4>1, <5>1 DEF CallRow
        <5> QED BY <5>2, <5>3, <5>4
      <4>3. CASE call[d].access # "valid"  BY <1>1, <4>1, <4>3 DEF AccessExpires, Idle
      <4> QED BY <4>2, <4>3
    <3> QED BY <1>1, <3>1 DEF AccessExpires, Idle
  <2> QED BY <1>1, <2>1 DEF AccessExpires, Rows, history, TypeOK, Named
<1>2. CASE SessionExpires  BY <1>2 DEF SessionExpires, history, TypeOK, Named, Idle, Live
<1>3. ASSUME NEW code \in Code, ChallengeExpires(code) PROVE Typed'
  BY <1>3 DEF ChallengeExpires, history, TypeOK, Named, Idle
<1> QED BY <1>1, <1>2, <1>3

LEMMA TypedStep == Typed /\ [Next]_svars => Typed'
<1> SUFFICES ASSUME Typed, [Next]_svars PROVE Typed'  OBVIOUS
<1>1. CASE UNCHANGED svars
  BY <1>1 DEF svars, history, Typed, TypeOK, Named, Idle
<1>2. CASE Next
  BY <1>2, CallsTyped, AnswersTyped, RefreshTyped, FormTyped, UserTyped, TimeTyped
     DEF Next, Answer, User, Fault
<1> QED BY <1>1, <1>2

(* Every table, page and request keeps its type, and there is always a name   *)
(* left for the next token.                                                   *)
THEOREM TypeCorrect == Spec => []TypeOK
<1>1. Typed => TypeOK  BY DEF Typed
<1> QED BY TypedInit, TypedStep, <1>1, PTL DEF Spec

LEMMA TypedAlways == Spec => []Typed
BY TypedInit, TypedStep, PTL DEF Spec

-----------------------------------------------------------------------------
(* Codes *)

LEMMA CodesMove ==
  ASSUME [Next]_svars
  PROVE  \/ UNCHANGED <<challenge, passed>>
         \/ \E t \in Tab, code \in Code : AskForCode(t, code)
         \/ \E t \in Tab : Verify(t)
         \/ \E code \in Code : ChallengeExpires(code)
BY DEF Next, Refreshing, Submitted, Answer, User, Fault, svars, Launch, Send, Accepted, Denied,
       RefreshSucceeds, RefreshFails, RefreshUnheard, FormUnheard, RotateFind, RotateRevoke,
       RotateIssue, Submit, LogIn, LoggedIn, SaveProfile, LoginRefused, LogOut, Revoke,
       LoggedOut, AccessExpires, SessionExpires, RefreshLost, FormLost, CallLost, Close,
       Forget, Rows, history

(* A code lets in one sign-in per challenge, whatever tabs present it at the  *)
(* same time.                                                                 *)
THEOREM CodesAreUsedOnce == Spec => []OneSignInPerChallenge
<1>1. Init => OneSignInPerChallenge  BY DEF Init, OneSignInPerChallenge
<1>2. Typed /\ OneSignInPerChallenge /\ [Next]_svars => OneSignInPerChallenge'
  <2> SUFFICES ASSUME Typed, OneSignInPerChallenge, [Next]_svars, NEW code \in Code
               PROVE  passed'[code] + (IF code \in challenge' THEN 1 ELSE 0) <= 1
    BY DEF OneSignInPerChallenge
  <2>1. /\ passed \in [Code -> Nat] /\ passed[code] \in Nat
        /\ passed[code] + (IF code \in challenge THEN 1 ELSE 0) <= 1
    BY DEF OneSignInPerChallenge, Typed, TypeOK
  <2>2. CASE UNCHANGED <<challenge, passed>>  BY <2>1, <2>2
  <2>3. ASSUME NEW t \in Tab, NEW asked \in Code, AskForCode(t, asked)
        PROVE  passed'[code] + (IF code \in challenge' THEN 1 ELSE 0) <= 1
    BY <2>1, <2>3 DEF AskForCode
  <2>4. ASSUME NEW t \in Tab, Verify(t)
        PROVE  passed'[code] + (IF code \in challenge' THEN 1 ELSE 0) <= 1
    BY <2>1, <2>4 DEF Verify
  <2>5. ASSUME NEW old \in Code, ChallengeExpires(old)
        PROVE  passed'[code] + (IF code \in challenge' THEN 1 ELSE 0) <= 1
    BY <2>1, <2>5 DEF ChallengeExpires, history
  <2> QED BY <2>2, <2>3, <2>4, <2>5, CodesMove
<1> QED BY <1>1, <1>2, TypedAlways, PTL DEF Spec

-----------------------------------------------------------------------------
(* Exchanges *)

(* One tab refreshes at a time. *)
RefreshInTurn ==
  \A s, t \in Tab : refresh[s] # NoRefresh /\ refresh[t] # NoRefresh => s = t

(* What has been exchanged is not live, and what is being exchanged has not   *)
(* been before.                                                               *)
UsedOnce ==
  /\ \A n \in Token : exchanged[n] <= 1 /\ (exchanged[n] = 1 => session[n] # "live")
  /\ \A t \in Tab : refresh[t].at \in {"found", "revoked"} => exchanged[refresh[t].token] = 0
  /\ \A t \in Tab : refresh[t].at = "revoked" => session[refresh[t].token] # "live"

(* No refresh comes nearer to an exchange. *)
NoneAdvances ==
  \A t \in Tab : refresh'[t] = refresh[t] \/ refresh'[t].at \notin {"found", "revoked"}

LEMMA ForgetUsed ==
  ASSUME Typed, UsedOnce, Forget, NoneAdvances
  PROVE  UsedOnce'
BY DEF Typed, TypeOK, Named, UsedOnce, Forget, NoneAdvances

LEMMA SameUsed ==
  ASSUME Typed, UsedOnce, NoneAdvances, UNCHANGED exchanged,
         \A n \in Token : session'[n] = "live" => session[n] = "live"
  PROVE  UsedOnce'
BY DEF Typed, TypeOK, Named, UsedOnce, NoneAdvances

LEMMA IssueUsed ==
  ASSUME Typed, UsedOnce, NEW spent \in Maybe, Issue(Fresh, spent), NoneAdvances,
         spent \in Token => exchanged[spent] = 0 /\ session[spent] # "live",
         \A t \in Tab : refresh'[t].at \in {"found", "revoked"} => refresh[t].token # spent
  PROVE  UsedOnce'
<1>1. Fresh \in Token /\ \A t \in Tab : refresh[t].token # Fresh
  BY FreshIsFree DEF Typed, Held
<1>2. /\ exchanged \in [Token -> Nat]
      /\ session' = [session EXCEPT ![Fresh] = "live"]
      /\ session \in [Token -> {"free", "live", "revoked", "expired"}]
  BY DEF Typed, TypeOK, Issue
<1>3. ASSUME NEW n \in Token
      PROVE  /\ n = Fresh => exchanged'[n] = 0
             /\ n # Fresh /\ n = spent => exchanged'[n] = exchanged[n] + 1
             /\ n # Fresh /\ n # spent => exchanged'[n] = exchanged[n]
  BY <1>2 DEF Issue
<1>4. ASSUME NEW n \in Token
      PROVE  exchanged'[n] <= 1 /\ (exchanged'[n] = 1 => session'[n] # "live")
  <2>1. CASE n = Fresh  BY <1>3, <2>1
  <2>2. CASE n # Fresh /\ n = spent  BY <1>2, <1>3, <2>2
  <2>3. CASE n # Fresh /\ n # spent  BY <1>2, <1>3, <2>3 DEF UsedOnce
  <2> QED BY <2>1, <2>2, <2>3
<1>5. ASSUME NEW t \in Tab, refresh'[t].at \in {"found", "revoked"}
      PROVE  /\ exchanged'[refresh'[t].token] = 0
             /\ refresh'[t].at = "revoked" => session'[refresh'[t].token] # "live"
  <2>1. refresh'[t] = refresh[t]  BY <1>5 DEF NoneAdvances
  <2>2. refresh[t].token \in Token /\ refresh[t].token # spent  BY <1>5, <2>1 DEF Typed, Named
  <2> QED BY <1>1, <1>2, <1>3, <1>5, <2>1, <2>2 DEF UsedOnce
<1> QED BY <1>4, <1>5 DEF UsedOnce

LEMMA RotationUsed ==
  ASSUME Typed, UsedOnce, RefreshInTurn, NEW t \in Tab,
         RotateFind(t) \/ RotateRevoke(t) \/ RotateIssue(t)
  PROVE  UsedOnce'
<1>1. /\ refresh \in [Tab -> RefreshRow] /\ refresh[t].at # "idle" /\ refresh[t].token \in Token
      /\ exchanged \in [Token -> Nat]
  BY DEF RotateFind, RotateRevoke, RotateIssue, Typed, TypeOK, Named
<1>2. \A s \in Tab : s # t => refresh[s].at = "idle"
  BY <1>1 DEF RefreshInTurn, NoRefresh
<1>3. CASE RotateFind(t)
  <2>1. /\ refresh'[t].at \in {"found", "failed"} /\ refresh'[t].token = refresh[t].token
        /\ \A s \in Tab : s # t => refresh'[s] = refresh[s]
    BY <1>1, <1>3 DEF RotateFind, RefreshRow
  <2>2. refresh'[t].at = "found" => session[refresh[t].token] = "live"
    BY <1>1, <1>3 DEF RotateFind, RefreshRow, Live
  <2>3. refresh'[t].at = "found" => exchanged[refresh[t].token] = 0
    BY <1>1, <2>2 DEF UsedOnce
  <2> QED BY <1>2, <1>3, <2>1, <2>3 DEF RotateFind, Rows, history, UsedOnce
<1>4. CASE RotateRevoke(t)
  <2>1. /\ refresh'[t].at = "revoked" /\ refresh'[t].token = refresh[t].token
        /\ \A s \in Tab : s # t => refresh'[s] = refresh[s]
    BY <1>1, <1>4 DEF RotateRevoke, RefreshRow
  <2>2. /\ session'[refresh[t].token] = "revoked"
        /\ \A n \in Token : session'[n] = "live" => session[n] = "live"
    BY <1>1, <1>4 DEF RotateRevoke, Typed, TypeOK
  <2> QED BY <1>1, <1>2, <1>4, <2>1, <2>2 DEF RotateRevoke, history, UsedOnce
<1>5. CASE RotateIssue(t)
  <2>1. /\ refresh'[t].at = "issued" /\ \A s \in Tab : s # t => refresh'[s] = refresh[s]
        /\ refresh[t].at = "revoked" /\ Issue(Fresh, refresh[t].token)
    BY <1>1, <1>5 DEF RotateIssue
  <2>2. exchanged[refresh[t].token] = 0 /\ session[refresh[t].token] # "live"
    BY <2>1 DEF UsedOnce
  <2>3. NoneAdvances
        /\ \A s \in Tab : refresh'[s].at \in {"found", "revoked"} => refresh[s].token # refresh[t].token
    BY <1>2, <2>1 DEF NoneAdvances
  <2> QED BY <1>1, <2>1, <2>2, <2>3, IssueUsed DEF Maybe
<1> QED BY <1>3, <1>4, <1>5

LEMMA UsedStep == Typed /\ RefreshInTurn /\ UsedOnce /\ [Next]_svars => UsedOnce'
<1> SUFFICES ASSUME Typed, RefreshInTurn, UsedOnce, [Next]_svars PROVE UsedOnce'  OBVIOUS
<1>0. refresh \in [Tab -> RefreshRow] /\ NoRefresh.at = "idle"  BY DEF Typed, TypeOK, NoRefresh
<1>1. CASE UNCHANGED <<session, exchanged, refresh>>
  BY <1>1, SameUsed DEF NoneAdvances
<1>2. ASSUME NEW t \in Tab, NEW c \in Call, Launch(t, c) \/ Send(t, c) PROVE UsedOnce'
  BY <1>1, <1>2 DEF Launch, Send, Rows, history
<1>3. ASSUME NEW c \in Call, Accepted(c) \/ CallLost(c) PROVE UsedOnce'
  BY <1>1, <1>3 DEF Accepted, CallLost, Rows, history
<1>4. ASSUME NEW c \in Call, Denied(c) PROVE UsedOnce'
  <2>1. NoneAdvances  BY <1>0, <1>4 DEF Denied, NoneAdvances
  <2> QED BY <1>4, <2>1, ForgetUsed DEF Denied
<1>5. ASSUME NEW t \in Tab, RotateFind(t) \/ RotateRevoke(t) \/ RotateIssue(t) PROVE UsedOnce'
  BY <1>5, RotationUsed
<1>6. ASSUME NEW t \in Tab, RefreshSucceeds(t) \/ RefreshFails(t) \/ RefreshUnheard(t)
      PROVE  UsedOnce'
  <2>1. NoneAdvances /\ Forget
    BY <1>0, <1>6 DEF RefreshSucceeds, RefreshFails, RefreshUnheard, NoneAdvances
  <2> QED BY <2>1, ForgetUsed
<1>7. ASSUME NEW t \in Tab, LoggedIn(t) \/ LoginRefused(t) \/ LoggedOut(t) \/ FormUnheard(t)
      PROVE  UsedOnce'
  <2>1. NoneAdvances /\ Forget
    BY <1>7 DEF LoggedIn, LoginRefused, LoggedOut, FormUnheard, NoneAdvances
  <2> QED BY <2>1, ForgetUsed
<1>8. ASSUME NEW t \in Tab, LogIn(t) PROVE UsedOnce'
  <2>1. CASE Issue(Fresh, NoToken)
    BY <1>8, <2>1, IssueUsed, TokenAssumption DEF LogIn, NoneAdvances, Maybe, Typed, Named
  <2>2. CASE UNCHANGED <<session, exchanged>>  BY <1>1, <1>8, <2>2 DEF LogIn
  <2> QED BY <1>8, <2>1, <2>2 DEF LogIn
<1>9. ASSUME NEW t \in Tab, Verify(t) PROVE UsedOnce'  BY <1>1, <1>9 DEF Verify
<1>10. ASSUME NEW t \in Tab, Revoke(t) PROVE UsedOnce'
  <2>1. \A n \in Token : session'[n] = "live" => session[n] = "live"
    BY <1>10 DEF Revoke, Typed, TypeOK
  <2> QED BY <1>10, <2>1, SameUsed DEF Revoke, history, NoneAdvances
<1>11. ASSUME NEW t \in Tab, NEW code \in Code, AskForCode(t, code) \/ Submit(t, code)
       PROVE  UsedOnce'
  BY <1>1, <1>11 DEF AskForCode, Submit, Rows, history
<1>12. ASSUME NEW t \in Tab, SaveProfile(t) \/ LogOut(t) \/ FormLost(t) \/ Close(t)
       PROVE  UsedOnce'
  BY <1>1, <1>12 DEF SaveProfile, LogOut, FormLost, Close, Rows, history
<1>13. ASSUME NEW t \in Tab, RefreshLost(t) PROVE UsedOnce'
  <2>1. NoneAdvances  BY <1>0, <1>13 DEF RefreshLost, NoneAdvances
  <2> QED BY <1>13, <2>1, SameUsed DEF RefreshLost, history
<1>14. CASE AccessExpires  BY <1>1, <1>14 DEF AccessExpires, Rows, history
<1>15. CASE SessionExpires
  <2>1. \A n \in Token : session'[n] = "live" => session[n] = "live"
    BY <1>15 DEF SessionExpires, Typed, TypeOK
  <2> QED BY <1>15, <2>1, SameUsed DEF SessionExpires, history, NoneAdvances
<1>16. ASSUME NEW code \in Code, ChallengeExpires(code) PROVE UsedOnce'
  BY <1>1, <1>16 DEF ChallengeExpires, history
<1>17. CASE UNCHANGED svars  BY <1>1, <1>17 DEF svars, history
<1> QED BY <1>2, <1>3, <1>4, <1>5, <1>6, <1>7, <1>8, <1>9, <1>10, <1>11, <1>12, <1>13, <1>14,
           <1>15, <1>16, <1>17
        DEF Next, Refreshing, Submitted, Answer, User, Fault

(* No refresh token is exchanged twice as long as tabs do not refresh at the  *)
(* same time, although answers are lost, tabs are closed in between, and      *)
(* other tabs sign in and out meanwhile.                                      *)
THEOREM TokensAreUsedOnce == Spec /\ []RefreshInTurn => []SingleUse
<1>1. Init => UsedOnce  BY DEF Init, UsedOnce, NoRefresh
<1>2. UsedOnce => SingleUse  BY DEF UsedOnce, SingleUse
<1> QED BY <1>1, <1>2, UsedStep, TypedAlways, PTL DEF Spec

OneTab == \A s, t \in Tab : s = t

COROLLARY OneTabUsesOnce ==
  ASSUME OneTab
  PROVE  Spec => []SingleUse
<1>1. RefreshInTurn  BY DEF RefreshInTurn, OneTab
<1> QED BY <1>1, TokensAreUsedOnce, PTL

-----------------------------------------------------------------------------
(* The stored token *)

(* A token on its way to a browser is live, and nobody else holds it. *)
IssuedAlone ==
  /\ \A t \in Tab : refresh[t].at = "issued" =>
       /\ session[refresh[t].token] = "live" /\ store.refresh # refresh[t].token
       /\ \A s \in Tab : form[s].token # refresh[t].token
       /\ \A s \in Tab : s # t => refresh[s].token # refresh[t].token
  /\ \A t \in Tab : form[t].at = "issued" =>
       /\ session[form[t].token] = "live" /\ store.refresh # form[t].token
       /\ \A s \in Tab : refresh[s].token # form[t].token
       /\ \A s \in Tab : s # t => form[s].token # form[t].token

(* A step that passes tokens on: what a request takes up is the stored token, *)
(* what is stored was on its way, and what stays on its way stays as it is.   *)
TokensMove ==
  /\ \A t \in Tab :
       \/ refresh'[t] = refresh[t]
       \/ /\ refresh'[t].at # "issued"
          /\ refresh'[t].token \in {refresh[t].token, store.refresh, NoToken}
  /\ \A t \in Tab :
       \/ form'[t] = form[t]
       \/ /\ form'[t].at # "issued"
          /\ form'[t].token \in {form[t].token, store.refresh, NoToken}
  /\ \/ store'.refresh \in {store.refresh, NoToken}
     \/ \E t \in Tab : /\ refresh[t].at = "issued" /\ refresh'[t] = NoRefresh
                       /\ store'.refresh = refresh[t].token
     \/ \E t \in Tab : /\ form[t].at = "issued" /\ form'[t] = NoForm
                       /\ store'.refresh = form[t].token
  /\ \A t \in Tab : refresh[t].at = "issued" /\ refresh'[t] = refresh[t]
                    => session'[refresh[t].token] = session[refresh[t].token]
  /\ \A t \in Tab : form[t].at = "issued" /\ form'[t] = form[t]
                    => session'[form[t].token] = session[form[t].token]

LEMMA MoveKeepsAlone ==
  ASSUME Typed, IssuedAlone, TokensMove
  PROVE  IssuedAlone'
<1>0. NoToken \notin Token /\ NoRefresh.at = "idle" /\ NoForm.at = "idle"
  BY TokenAssumption DEF NoRefresh, NoForm
<1>1. ASSUME NEW t \in Tab, refresh'[t].at = "issued"
      PROVE  /\ session'[refresh'[t].token] = "live" /\ store'.refresh # refresh'[t].token
             /\ \A s \in Tab : form'[s].token # refresh'[t].token
             /\ \A s \in Tab : s # t => refresh'[s].token # refresh'[t].token
  <2>1. refresh'[t] = refresh[t] /\ refresh[t].token \in Token
    BY <1>1 DEF TokensMove, Typed, Named
  <2> QED BY <1>0, <1>1, <2>1 DEF TokensMove, IssuedAlone
<1>2. ASSUME NEW t \in Tab, form'[t].at = "issued"
      PROVE  /\ session'[form'[t].token] = "live" /\ store'.refresh # form'[t].token
             /\ \A s \in Tab : refresh'[s].token # form'[t].token
             /\ \A s \in Tab : s # t => form'[s].token # form'[t].token
  <2>1. form'[t] = form[t] /\ form[t].token \in Token
    BY <1>2 DEF TokensMove, Typed, Named
  <2> QED BY <1>0, <1>2, <2>1 DEF TokensMove, IssuedAlone
<1> QED BY <1>1, <1>2 DEF IssuedAlone

(* Forgetting what nobody holds leaves what is held as it is. *)
LEMMA ForgetKeepsHeld ==
  ASSUME TypeOK, Forget
  PROVE  /\ \A t \in Tab : refresh'[t].token \in Token
                => session'[refresh'[t].token] = session[refresh'[t].token]
         /\ \A t \in Tab : form'[t].token \in Token
                => session'[form'[t].token] = session[form'[t].token]
         /\ store'.refresh \in Token => session'[store'.refresh] = session[store'.refresh]
BY DEF TypeOK, Forget, Held

LEMMA AloneStep == Typed /\ IssuedAlone /\ [Next]_svars => IssuedAlone'
<1> SUFFICES ASSUME Typed, IssuedAlone, [Next]_svars PROVE IssuedAlone'  OBVIOUS
<1>0. /\ refresh \in [Tab -> RefreshRow] /\ form \in [Tab -> FormRow]
      /\ session \in [Token -> {"free", "live", "revoked", "expired"}]
      /\ NoRefresh = [at |-> "idle", token |-> NoToken] /\ NoForm.at = "idle"
      /\ NoForm.token = NoToken /\ NoStore.refresh = NoToken
  BY DEF Typed, TypeOK, NoRefresh, NoForm, NoStore
<1>a. /\ \A t \in Tab : refresh[t].at = "issued" => refresh[t].token \in Token
      /\ \A t \in Tab : form[t].at = "issued" => form[t].token \in Token
  BY DEF Typed, Named
<1>1. CASE UNCHANGED <<session, refresh, form, store>>
  BY <1>1 DEF IssuedAlone
<1>2. ASSUME NEW t \in Tab, NEW c \in Call, Launch(t, c) \/ Send(t, c) PROVE IssuedAlone'
  BY <1>1, <1>2 DEF Launch, Send, Rows
<1>3. ASSUME NEW c \in Call, Accepted(c) \/ CallLost(c) PROVE IssuedAlone'
  BY <1>1, <1>3 DEF Accepted, CallLost, Rows
<1>4. ASSUME NEW c \in Call, Denied(c) PROVE IssuedAlone'
  <2>1. Forget  BY <1>4 DEF Denied
  <2>2. \A t \in Tab : \/ refresh'[t] = refresh[t]
                       \/ /\ refresh'[t].at # "issued" /\ refresh'[t].token = store.refresh
    BY <1>0, <1>4 DEF Denied
  <2>3. UNCHANGED form /\ store'.refresh \in {store.refresh, NoToken}
    BY <1>0, <1>4 DEF Denied
  <2>4. TokensMove
    BY <1>a, <2>1, <2>2, <2>3, ForgetKeepsHeld DEF TokensMove, Typed
  <2> QED BY <2>4, MoveKeepsAlone
<1>5. ASSUME NEW t \in Tab, RotateFind(t) \/ RefreshLost(t) PROVE IssuedAlone'
  <2>1. /\ refresh'[t].at # "issued" /\ refresh'[t].token = refresh[t].token
        /\ \A s \in Tab : s # t => refresh'[s] = refresh[s]
    BY <1>0, <1>5 DEF RotateFind, RefreshLost, RefreshRow
  <2>2. UNCHANGED <<session, form, store>>
    BY <1>5 DEF RotateFind, RefreshLost, Rows
  <2> QED BY <2>1, <2>2, MoveKeepsAlone DEF TokensMove
<1>6. ASSUME NEW t \in Tab, RotateRevoke(t) PROVE IssuedAlone'
  <2>1. /\ refresh'[t].at = "revoked" /\ refresh'[t].token = refresh[t].token
        /\ \A s \in Tab : s # t => refresh'[s] = refresh[s]
    BY <1>0, <1>6 DEF RotateRevoke, RefreshRow
  <2>2. /\ UNCHANGED <<form, store>> /\ refresh[t].at = "found"
        /\ \A n \in Token : n # refresh[t].token => session'[n] = session[n]
    BY <1>0, <1>6 DEF RotateRevoke
  <2>3. /\ \A s \in Tab : refresh[s].at = "issued" => refresh[s].token # refresh[t].token
        /\ \A s \in Tab : form[s].at = "issued" => form[s].token # refresh[t].token
    BY <2>2 DEF IssuedAlone
  <2> QED BY <1>a, <2>1, <2>2, <2>3, MoveKeepsAlone DEF TokensMove
<1>7. ASSUME NEW t \in Tab, RotateIssue(t) PROVE IssuedAlone'
  <2>1. /\ refresh'[t] = [at |-> "issued", token |-> Fresh]
        /\ \A s \in Tab : s # t => refresh'[s] = refresh[s]
        /\ UNCHANGED <<form, store>>
        /\ session' = [session EXCEPT ![Fresh] = "live"]
    BY <1>0, <1>7 DEF RotateIssue, Issue
  <2>2. /\ Fresh \in Token /\ store.refresh # Fresh
        /\ \A s \in Tab : refresh[s].token # Fresh /\ form[s].token # Fresh
    BY FreshIsFree DEF Typed, Held
  <2> QED BY <1>0, <1>a, <2>1, <2>2 DEF IssuedAlone
<1>8. ASSUME NEW t \in Tab, LogIn(t) PROVE IssuedAlone'
  <2>1. UNCHANGED <<refresh, store>> /\ \A s \in Tab : s # t => form'[s] = form[s]
    BY <1>0, <1>8 DEF LogIn
  <2>2. CASE /\ Issue(Fresh, NoToken)
             /\ form' = [form EXCEPT ![t].at = "issued", ![t].token = Fresh]
    <3>1. /\ form'[t].at = "issued" /\ form'[t].token = Fresh
          /\ session' = [session EXCEPT ![Fresh] = "live"]
      BY <1>0, <2>2 DEF Issue, FormRow
    <3>2. /\ Fresh \in Token /\ store.refresh # Fresh
          /\ \A s \in Tab : refresh[s].token # Fresh /\ form[s].token # Fresh
      BY FreshIsFree DEF Typed, Held
    <3> QED BY <1>0, <1>a, <2>1, <3>1, <3>2 DEF IssuedAlone
  <2>3. CASE form' = [form EXCEPT ![t].at = "refused"] /\ UNCHANGED <<session, exchanged>>
    <3>1. form'[t].at = "refused" /\ form'[t].token = form[t].token
      BY <1>0, <2>3 DEF FormRow
    <3> QED BY <2>1, <2>3, <3>1, MoveKeepsAlone DEF TokensMove
  <2> QED BY <1>8, <2>2, <2>3 DEF LogIn
<1>9. ASSUME NEW t \in Tab, RefreshSucceeds(t) \/ RefreshFails(t) \/ RefreshUnheard(t)
      PROVE  IssuedAlone'
  <2>1. /\ Forget /\ UNCHANGED form /\ refresh'[t] = NoRefresh
        /\ \A s \in Tab : s # t => refresh'[s] = refresh[s]
    BY <1>0, <1>9 DEF RefreshSucceeds, RefreshFails, RefreshUnheard
  <2>2. \/ store'.refresh \in {store.refresh, NoToken}
        \/ refresh[t].at = "issued" /\ store'.refresh = refresh[t].token
    BY <1>0, <1>9 DEF RefreshSucceeds, RefreshFails, RefreshUnheard
  <2>3. TokensMove
    BY <1>0, <1>a, <2>1, <2>2, ForgetKeepsHeld DEF TokensMove, Typed
  <2> QED BY <2>3, MoveKeepsAlone
<1>10. ASSUME NEW t \in Tab, LoggedIn(t) \/ LoginRefused(t) \/ LoggedOut(t) \/ FormUnheard(t)
       PROVE  IssuedAlone'
  <2>1. /\ Forget /\ UNCHANGED refresh /\ form'[t] = NoForm
        /\ \A s \in Tab : s # t => form'[s] = form[s]
    BY <1>0, <1>10 DEF LoggedIn, LoginRefused, LoggedOut, FormUnheard
  <2>2. \/ store'.refresh \in {store.refresh, NoToken}
        \/ form[t].at = "issued" /\ store'.refresh = form[t].token
    BY <1>0, <1>10 DEF LoggedIn, LoginRefused, LoggedOut, FormUnheard
  <2>3. TokensMove
    BY <1>0, <1>a, <2>1, <2>2, ForgetKeepsHeld DEF TokensMove, Typed
  <2> QED BY <2>3, MoveKeepsAlone
<1>11. ASSUME NEW t \in Tab, Verify(t) \/ FormLost(t) PROVE IssuedAlone'
  <2>1. /\ form'[t].at # "issued" /\ form'[t].token = form[t].token
        /\ \A s \in Tab : s # t => form'[s] = form[s]
    BY <1>0, <1>11 DEF Verify, FormLost, FormRow
  <2>2. UNCHANGED <<session, refresh, store>>  BY <1>11 DEF Verify, FormLost
  <2> QED BY <2>1, <2>2, MoveKeepsAlone DEF TokensMove
<1>12. ASSUME NEW t \in Tab, Revoke(t) PROVE IssuedAlone'
  <2>1. /\ form'[t].at = "revoked" /\ form'[t].token = form[t].token
        /\ \A s \in Tab : s # t => form'[s] = form[s]
    BY <1>0, <1>12 DEF Revoke, FormRow
  <2>2. /\ UNCHANGED <<refresh, store>> /\ form[t].at = "logout"
        /\ \A n \in Token : n # form[t].token => session'[n] = session[n]
    BY <1>0, <1>12 DEF Revoke
  <2>3. /\ \A s \in Tab : refresh[s].at = "issued" => refresh[s].token # form[t].token
        /\ \A s \in Tab : form[s].at = "issued" => form[s].token # form[t].token
    BY <2>2 DEF IssuedAlone
  <2> QED BY <1>a, <2>1, <2>2, <2>3, MoveKeepsAlone DEF TokensMove
<1>13. ASSUME NEW t \in Tab, NEW code \in Code, AskForCode(t, code) PROVE IssuedAlone'
  BY <1>1, <1>13 DEF AskForCode
<1>14. ASSUME NEW t \in Tab, NEW code \in Code, Submit(t, code) PROVE IssuedAlone'
  <2>1. /\ form'[t].at = "code" /\ form'[t].token = NoToken
        /\ \A s \in Tab : s # t => form'[s] = form[s]
    BY <1>0, <1>14 DEF Submit, NoForm
  <2>2. UNCHANGED <<session, refresh, store>>  BY <1>14 DEF Submit, Rows
  <2> QED BY <2>1, <2>2, MoveKeepsAlone DEF TokensMove
<1>15. ASSUME NEW t \in Tab, LogOut(t) PROVE IssuedAlone'
  <2>1. /\ form'[t].at \in {"logout", "revoked"} /\ form'[t].token = store.refresh
        /\ \A s \in Tab : s # t => form'[s] = form[s]
    BY <1>0, <1>15 DEF LogOut, NoForm
  <2>2. UNCHANGED <<session, refresh, store>>  BY <1>15 DEF LogOut, Rows
  <2> QED BY <2>1, <2>2, MoveKeepsAlone DEF TokensMove
<1>16. ASSUME NEW t \in Tab, SaveProfile(t) \/ Close(t) PROVE IssuedAlone'
  BY <1>1, <1>16 DEF SaveProfile, Close
<1>17. CASE AccessExpires
  <2>1. store'.refresh = store.refresh
    BY <1>17 DEF AccessExpires, Typed, TypeOK
  <2> QED BY <1>17, <2>1, MoveKeepsAlone DEF AccessExpires, Rows, TokensMove
<1>18. CASE SessionExpires
  <2>1. \A t \in Tab : refresh[t].at = "idle" /\ form[t].at = "idle"
    BY <1>0, <1>18 DEF SessionExpires, Quiet
  <2> QED BY <1>18, <2>1 DEF SessionExpires, IssuedAlone
<1>19. ASSUME NEW code \in Code, ChallengeExpires(code) PROVE IssuedAlone'
  BY <1>1, <1>19 DEF ChallengeExpires
<1>20. CASE UNCHANGED svars  BY <1>1, <1>20 DEF svars
<1> QED BY <1>2, <1>3, <1>4, <1>5, <1>6, <1>7, <1>8, <1>9, <1>10, <1>11, <1>12, <1>13, <1>14,
           <1>15, <1>16, <1>17, <1>18, <1>19, <1>20
        DEF Next, Refreshing, Submitted, Answer, User, Fault

(* While no fault has happened, whoever has revoked the stored token is still *)
(* there to replace or to clear it.                                           *)
Replacing == \E t \in Tab : refresh[t].at \in {"revoked", "issued"} \/ form[t].at = "revoked"

Replaced ==
  faults = 0 =>
    /\ \A t \in Tab : page[t] = "closed" => Quiet(t)
    /\ store.refresh # NoToken /\ session[store.refresh] = "revoked" => Replacing

Kept == Typed /\ IssuedAlone /\ Replaced

LEMMA StillReplaced ==
  ASSUME Kept, faults = 0, faults' = 0,
         \A t \in Tab : page'[t] = "closed" => refresh'[t] = NoRefresh /\ form'[t] = NoForm,
         store'.refresh # NoToken /\ session'[store'.refresh] = "revoked" => Replacing'
  PROVE  Replaced'
BY DEF Replaced, Quiet

(* A step that revokes nothing and ends neither a rotation nor a logout. *)
LEMMA NothingRevoked ==
  ASSUME Kept, faults = 0, store'.refresh \in {store.refresh, NoToken},
         \A n \in Token : session'[n] = "revoked" => session[n] = "revoked",
         \A t \in Tab : /\ refresh[t].at \in {"revoked", "issued"}
                            => refresh'[t].at \in {"revoked", "issued"}
                        /\ form[t].at = "revoked" => form'[t].at = "revoked"
  PROVE  store'.refresh # NoToken /\ session'[store'.refresh] = "revoked" => Replacing'
<1> SUFFICES ASSUME store'.refresh # NoToken, session'[store'.refresh] = "revoked"
             PROVE  Replacing'
  OBVIOUS
<1>1. store.refresh # NoToken /\ store.refresh \in Token /\ session[store.refresh] = "revoked"
  BY DEF Kept, Typed, TypeOK, Maybe
<1>2. Replacing  BY <1>1 DEF Kept, Replaced
<1>3. PICK t \in Tab : refresh[t].at \in {"revoked", "issued"} \/ form[t].at = "revoked"
  BY <1>2 DEF Replacing
<1>4. refresh'[t].at \in {"revoked", "issued"} \/ form'[t].at = "revoked"  BY <1>3
<1> QED BY <1>4 DEF Replacing

LEMMA ReplacedStep == Kept /\ [Next]_svars => Replaced'
<1> SUFFICES ASSUME Kept, [Next]_svars, faults' = 0 PROVE Replaced'
  BY DEF Replaced
<1>0. /\ refresh \in [Tab -> RefreshRow] /\ form \in [Tab -> FormRow]
      /\ session \in [Token -> {"free", "live", "revoked", "expired"}]
      /\ NoRefresh = [at |-> "idle", token |-> NoToken] /\ NoForm.at = "idle"
      /\ NoStore.refresh = NoToken /\ faults \in Nat
      /\ page \in [Tab -> {"closed", "root", "auth", "otp", "profile", "app"}]
      /\ store.refresh \in Maybe
  BY TokenAssumption DEF Kept, Typed, TypeOK, NoRefresh, NoForm, NoStore
<1>00. /\ \A t \in Tab : refresh[t].at # "idle" => refresh[t].token \in Token
       /\ \A t \in Tab : form[t].at = "issued" => form[t].token \in Token
       /\ \A c \in Call : ~Idle(c) => call[c].tab \in Tab /\ page[call[c].tab] # "closed"
  BY DEF Kept, Typed, Named
<1>f. ASSUME Faulty PROVE FALSE  BY <1>0, <1>f DEF Faulty
<1>g. ASSUME faults = 0 PROVE \A t \in Tab : page[t] = "closed" =>
                                refresh[t] = NoRefresh /\ form[t] = NoForm
  BY <1>g DEF Kept, Replaced, Quiet
<1>h. ASSUME Forget
      PROVE  faults = 0 /\ \A n \in Token : session'[n] = "revoked" => session[n] = "revoked"
  BY <1>0, <1>h DEF Forget
<1>1. CASE UNCHANGED <<session, refresh, form, store, faults>> /\
           \A t \in Tab : page'[t] = "closed" => page[t] = "closed"
  BY <1>1, <1>g, StillReplaced, NothingRevoked
<1>2. ASSUME NEW t \in Tab, NEW c \in Call, Launch(t, c) \/ Send(t, c) PROVE Replaced'
  BY <1>0, <1>1, <1>2 DEF Launch, Send, Rows
<1>3. ASSUME NEW c \in Call, Accepted(c) PROVE Replaced'
  BY <1>0, <1>1, <1>3 DEF Accepted, Rows, Landing, Home
<1>4. ASSUME NEW c \in Call, Denied(c) PROVE Replaced'
  <2>1. Forget  BY <1>4 DEF Denied
  <2>2. /\ \A s \in Tab : page'[s] = "closed" => page[s] = "closed"
        /\ store'.refresh \in {store.refresh, NoToken} /\ UNCHANGED form
    BY <1>0, <1>4 DEF Denied, Landing
  <2>3. \A s \in Tab : \/ refresh'[s] = refresh[s]
                       \/ refresh[s] = NoRefresh /\ s = call[c].tab
    BY <1>0, <1>4 DEF Denied
  <2>4. page[call[c].tab] # "closed"  BY <1>4, <1>00 DEF Denied
  <2>5. \A s \in Tab : page'[s] = "closed" => refresh'[s] = NoRefresh /\ form'[s] = NoForm
    BY <1>g, <1>h, <2>1, <2>2, <2>3, <2>4
  <2>6. \A s \in Tab : refresh[s].at \in {"revoked", "issued"} => refresh'[s] = refresh[s]
    BY <1>0, <2>3
  <2> QED BY <1>h, <2>1, <2>2, <2>5, <2>6, StillReplaced, NothingRevoked
<1>5. ASSUME NEW t \in Tab, RotateFind(t) \/ RotateRevoke(t) \/ RotateIssue(t) PROVE Replaced'
  <2>1. /\ UNCHANGED <<store, page, form>> /\ faults = 0
        /\ \A s \in Tab : s # t => refresh'[s] = refresh[s]
    BY <1>0, <1>5 DEF RotateFind, RotateRevoke, RotateIssue, Rows
  <2>2. page[t] # "closed"
    BY <1>0, <1>5, <1>g, <2>1 DEF RotateFind, RotateRevoke, RotateIssue
  <2>3. \A s \in Tab : page'[s] = "closed" => refresh'[s] = NoRefresh /\ form'[s] = NoForm
    BY <1>g, <2>1, <2>2
  <2>4. CASE RotateRevoke(t)
    <3>1. refresh'[t].at = "revoked"  BY <1>0, <2>4 DEF RotateRevoke, RefreshRow
    <3> QED BY <2>1, <2>3, <3>1, StillReplaced DEF Replacing
  <2>5. CASE RotateFind(t)
    <3>1. UNCHANGED session /\ refresh[t].at = "sent"  BY <2>5 DEF RotateFind, Rows
    <3> QED BY <2>1, <2>3, <3>1, StillReplaced, NothingRevoked
  <2>6. CASE RotateIssue(t)
    <3>1. refresh'[t].at = "issued" /\ session' = [session EXCEPT ![Fresh] = "live"]
      BY <1>0, <2>6 DEF RotateIssue, Issue
    <3>2. \A n \in Token : session'[n] = "revoked" => session[n] = "revoked"
      BY <1>0, <3>1
    <3> QED BY <2>1, <2>3, <3>1, <3>2, StillReplaced, NothingRevoked
  <2> QED BY <1>5, <2>4, <2>5, <2>6
<1>6. ASSUME NEW t \in Tab, RefreshSucceeds(t) \/ LoggedIn(t) PROVE Replaced'
  <2>1. Forget  BY <1>6 DEF RefreshSucceeds, LoggedIn
  <2>2. /\ store'.refresh \in Token /\ session[store'.refresh] = "live"
        /\ page'[t] # "closed"
        /\ \A s \in Tab : s # t => refresh'[s] = refresh[s] /\ form'[s] = form[s]
                                  /\ page'[s] = page[s]
    BY <1>0, <1>00, <1>6 DEF RefreshSucceeds, LoggedIn, Home, Kept, IssuedAlone
  <2>3. session'[store'.refresh] = "live"
    BY <2>1, <2>2, ForgetKeepsHeld DEF Kept, Typed
  <2>4. \A s \in Tab : page'[s] = "closed" => refresh'[s] = NoRefresh /\ form'[s] = NoForm
    BY <1>g, <1>h, <2>1, <2>2
  <2> QED BY <1>h, <2>1, <2>3, <2>4, StillReplaced
<1>7. ASSUME NEW t \in Tab, RefreshFails(t) PROVE Replaced'
  <2>1. Forget  BY <1>7 DEF RefreshFails
  <2>2. /\ refresh[t].at = "failed" /\ refresh'[t] = NoRefresh /\ UNCHANGED form
        /\ store'.refresh \in {store.refresh, NoToken}
        /\ \A s \in Tab : s # t => refresh'[s] = refresh[s]
        /\ \A s \in Tab : page'[s] = "closed" => page[s] = "closed"
    BY <1>0, <1>7 DEF RefreshFails, Landing
  <2>3. \A s \in Tab : page'[s] = "closed" => refresh'[s] = NoRefresh /\ form'[s] = NoForm
    BY <1>g, <1>h, <2>1, <2>2
  <2> QED BY <1>h, <2>1, <2>2, <2>3, StillReplaced, NothingRevoked
<1>8. ASSUME NEW t \in Tab, RefreshUnheard(t) \/ FormUnheard(t) PROVE Replaced'
  <2>1. faults = 0 /\ page[t] = "closed" /\ ~(refresh[t] = NoRefresh /\ form[t] = NoForm)
    BY <1>0, <1>8, <1>h DEF RefreshUnheard, FormUnheard
  <2> QED BY <1>g, <2>1
<1>9. ASSUME NEW t \in Tab, LoggedOut(t) PROVE Replaced'
  <2>1. /\ Forget /\ store'.refresh = NoToken /\ page'[t] # "closed" /\ UNCHANGED refresh
        /\ \A s \in Tab : s # t => form'[s] = form[s] /\ page'[s] = page[s]
    BY <1>0, <1>9 DEF LoggedOut
  <2>2. \A s \in Tab : page'[s] = "closed" => refresh'[s] = NoRefresh /\ form'[s] = NoForm
    BY <1>g, <1>h, <2>1
  <2> QED BY <1>h, <2>1, <2>2, StillReplaced
<1>10. ASSUME NEW t \in Tab,
              \/ Verify(t) \/ LogIn(t) \/ Revoke(t) \/ LoginRefused(t)
              \/ (\E code \in Code : Submit(t, code)) \/ LogOut(t)
       PROVE  Replaced'
  <2>1. /\ UNCHANGED <<store, page, refresh>> /\ faults = 0 /\ form[t].at # "revoked"
        /\ \A s \in Tab : s # t => form'[s] = form[s]
    BY <1>0, <1>10, <1>h DEF Verify, LogIn, Revoke, LoginRefused, Submit, LogOut, Rows
  <2>2. page[t] # "closed"
    BY <1>0, <1>10, <1>g, <2>1 DEF Verify, LogIn, Revoke, LoginRefused, Submit, LogOut
  <2>3. \A s \in Tab : page'[s] = "closed" => refresh'[s] = NoRefresh /\ form'[s] = NoForm
    BY <1>g, <2>1, <2>2
  <2>4. \/ form'[t].at = "revoked"
        \/ \A n \in Token : session'[n] = "revoked" => session[n] = "revoked"
    <3>1. CASE Revoke(t)  BY <1>0, <3>1 DEF Revoke, FormRow
    <3>2. CASE LogIn(t)  BY <1>0, <3>2 DEF LogIn, Issue
    <3>3. CASE LoginRefused(t)  BY <3>3, <1>h DEF LoginRefused
    <3>4. CASE Verify(t) \/ (\E code \in Code : Submit(t, code)) \/ LogOut(t)
      BY <3>4 DEF Verify, Submit, LogOut, Rows
    <3> QED BY <1>10, <3>1, <3>2, <3>3, <3>4
  <2>5. CASE form'[t].at = "revoked"  BY <2>1, <2>3, <2>5, StillReplaced DEF Replacing
  <2>6. CASE \A n \in Token : session'[n] = "revoked" => session[n] = "revoked"
    BY <2>1, <2>3, <2>6, StillReplaced, NothingRevoked
  <2> QED BY <2>4, <2>5, <2>6
<1>11. ASSUME NEW t \in Tab, NEW code \in Code, AskForCode(t, code) PROVE Replaced'
  BY <1>0, <1>1, <1>11 DEF AskForCode
<1>12. ASSUME NEW t \in Tab, Close(t) PROVE Replaced'
  <2>1. /\ refresh[t] = NoRefresh /\ form[t] = NoForm /\ faults = 0
        /\ UNCHANGED <<session, store, refresh, form>>
        /\ \A s \in Tab : s # t => page'[s] = page[s]
    BY <1>0, <1>12, <1>f DEF Close, Quiet
  <2> QED BY <1>g, <2>1, StillReplaced, NothingRevoked
<1>14. CASE AccessExpires
  <2>1. /\ store'.refresh = store.refresh /\ UNCHANGED <<session, page, refresh, form>>
        /\ faults = 0
    BY <1>0, <1>14 DEF AccessExpires, Rows, Kept, Typed, TypeOK
  <2> QED BY <1>g, <2>1, StillReplaced, NothingRevoked
<1>15. CASE SessionExpires
  <2>1. /\ UNCHANGED <<store, page, refresh, form>> /\ faults = 0
        /\ \A n \in Token : session'[n] = "revoked" => session[n] = "revoked"
    BY <1>0, <1>15 DEF SessionExpires
  <2> QED BY <1>g, <2>1, StillReplaced, NothingRevoked
<1>16. ASSUME NEW code \in Code, ChallengeExpires(code) PROVE Replaced'
  BY <1>0, <1>1, <1>16 DEF ChallengeExpires
<1>17. CASE UNCHANGED svars  BY <1>0, <1>1, <1>17 DEF svars
<1>18. ASSUME NEW c \in Call, CallLost(c) PROVE Replaced'
  BY <1>18, <1>f DEF CallLost
<1>19. ASSUME NEW t \in Tab, RefreshLost(t) \/ FormLost(t) \/ SaveProfile(t) PROVE Replaced'
  BY <1>0, <1>1, <1>19, <1>f DEF RefreshLost, FormLost, SaveProfile
<1> QED BY <1>2, <1>3, <1>4, <1>5, <1>6, <1>7, <1>8, <1>9, <1>10, <1>11, <1>12, <1>14,
           <1>15, <1>16, <1>17, <1>18, <1>19
        DEF Next, Refreshing, Submitted, Answer, User, Fault

(* When nothing is under way and no fault has happened, no browser sits on a  *)
(* revoked token, however many tabs refresh, sign in and out at once.         *)
THEOREM TheStoredTokenIsGood == Spec => []StoredTokenIsGood
<1>1. Init => IssuedAlone /\ Replaced
  BY DEF Init, IssuedAlone, Replaced, Quiet, NoStore, NoRefresh, NoForm
<1>2. Typed /\ IssuedAlone /\ Replaced => StoredTokenIsGood
  <2> SUFFICES ASSUME Replaced, faults = 0, \A t \in Tab : Quiet(t), store.refresh # NoToken
               PROVE  session[store.refresh] # "revoked"
    BY DEF StoredTokenIsGood
  <2> QED BY DEF Replaced, Replacing, Quiet, NoRefresh, NoForm
<1>3. Typed /\ (IssuedAlone /\ Replaced) /\ [Next]_svars => (IssuedAlone /\ Replaced)'
  BY AloneStep, ReplacedStep DEF Kept
<1> QED BY <1>1, <1>2, <1>3, TypedAlways, PTL DEF Spec

-----------------------------------------------------------------------------
(* Launching the app, of which one tab is open *)

(* While a launch with a live session is under way nothing else is, and it is *)
(* on its way to an access token that the server takes.                       *)
Launching(c) == call[c].launch /\ call[c].alive

Fine(c) ==
  LET t == call[c].tab IN
  /\ page[t] = "root" /\ form[t] = NoForm /\ store.refresh # NoToken
  /\ \A d \in Call : ~Idle(d) => d = c
  /\ call[c].retry => call[c].access = "valid"
  /\ ~call[c].waits => refresh[t] = NoRefresh /\ Live(store.refresh)
  /\ call[c].waits => /\ refresh[t].at \in {"sent", "found", "revoked", "issued"}
                      /\ refresh[t].at = "sent" => Live(refresh[t].token)

LaunchFine == faults = 0 => \A c \in Call : Launching(c) => Fine(c)

(* What the steps of a call do to its row. *)
Awaits(row)  == [row EXCEPT !.waits = TRUE]
Late(row)    == [row EXCEPT !.access = "expired"]
Retried(row) == [row EXCEPT !.waits = FALSE, !.access = "valid", !.retry = TRUE]

LEMMA RowFields ==
  /\ NoCall.launch = FALSE /\ NoCall.waits = FALSE /\ NoCall.retry = FALSE
  /\ \A row \in CallRow :
       /\ \A r \in {Awaits(row), Late(row), Retried(row)} :
            r.tab = row.tab /\ r.launch = row.launch /\ r.alive = row.alive
       /\ Awaits(row).retry = row.retry /\ Awaits(row).waits = TRUE
       /\ Late(row).retry = row.retry /\ Late(row).waits = row.waits
       /\ Retried(row).retry = TRUE /\ Retried(row).waits = FALSE
       /\ Retried(row).access = "valid"
BY DEF CallRow, NoCall, Awaits, Late, Retried

LEMMA LaunchingIsBusy ==
  ASSUME NEW row, row.launch
  PROVE  row # NoCall
BY RowFields

(* What a call that is launching cannot meet. *)
LEMMA FineAlone ==
  ASSUME OneTab, Typed, NEW c \in Call, Launching(c), Fine(c), NEW t \in Tab
  PROVE  /\ t = call[c].tab /\ page[t] = "root" /\ form[t].at = "idle" /\ ~Idle(c)
         /\ refresh[t].at \in {"idle", "sent", "found", "revoked", "issued"}
<1>1. ~Idle(c)  BY DEF Launching, Idle, NoCall
<1>2. call[c].tab \in Tab  BY <1>1 DEF Typed, Named
<1>3. t = call[c].tab  BY <1>2 DEF OneTab
<1>4. call[c].waits \in BOOLEAN  BY DEF Typed, TypeOK, CallRow
<1> QED BY <1>1, <1>3, <1>4 DEF Fine, NoForm, NoRefresh

LEMMA FineOther ==
  ASSUME NEW c \in Call, Fine(c), UNCHANGED <<session, page, call, store, refresh, form>>
  PROVE  Fine(c)'
BY DEF Fine, Idle, Live

LEMMA LaunchedFine ==
  ASSUME OneTab, Typed, NEW t \in Tab, NEW d \in Call, Launch(t, d), faults = 0,
         LaunchFine, NEW c \in Call, Launching(c)'
  PROVE  Fine(c)'
<1>1. \A e \in Call : Idle(e)
  <2>1. page[t] = "closed"  BY DEF Launch
  <2> QED BY <2>1 DEF OneTab, Typed, Named
<1>2. ~Launching(c)  BY <1>1 DEF Launching, Idle, NoCall
<1>3. CASE store.access = "none"
  BY <1>2, <1>3 DEF Launch, Launching
<1>4. CASE store.access # "none"
  <2> DEFINE row == [NoCall EXCEPT !.tab = t, !.access = store.access, !.launch = TRUE,
                                   !.alive = Live(store.refresh)]
  <2>1. /\ row.tab = t /\ row.retry = FALSE /\ row.waits = FALSE
        /\ row.alive = Live(store.refresh)
    BY DEF NoCall
  <2>2. /\ page' = [page EXCEPT ![t] = "root"] /\ call' = [call EXCEPT ![d] = row]
        /\ UNCHANGED <<session, store, refresh, form>> /\ Quiet(t)
    BY <1>4 DEF Launch, Rows
  <2> HIDE DEF row
  <2>3. d = c /\ call'[c] = row
    BY <1>2, <2>2 DEF Launching, Typed, TypeOK
  <2>4. Live(store.refresh)  BY <2>1, <2>3 DEF Launching
  <2>5. \A e \in Call : call'[e] # NoCall => e = c
    BY <1>1, <2>2, <2>3 DEF Idle, Typed, TypeOK
  <2>6. page'[t] = "root"  BY <2>2 DEF Typed, TypeOK
  <2> QED BY <2>1, <2>2, <2>3, <2>4, <2>5, <2>6 DEF Fine, Idle, Live, Quiet
<1> QED BY <1>3, <1>4

(* A launch that is denied has a token to refresh with. *)
LEMMA DeniedFine ==
  ASSUME OneTab, Typed, NEW c \in Call, Launching(c), Fine(c), NEW d \in Call, Denied(d)
  PROVE  ~Idle(c)' /\ Fine(c)'
<1> DEFINE t == call[c].tab
<1>1. d = c /\ ~call[c].waits /\ ~call[c].retry  BY DEF Denied, Fine
<1>2. /\ store.refresh # NoToken /\ refresh[t] = NoRefresh /\ Live(store.refresh)
      /\ store.refresh \in Token /\ t \in Tab /\ page[t] = "root" /\ form[t] = NoForm
  <2>1. /\ store.refresh # NoToken /\ refresh[t] = NoRefresh /\ Live(store.refresh)
        /\ page[t] = "root" /\ form[t] = NoForm
    BY <1>1 DEF Fine
  <2>2. ~Idle(c)  BY <1>1 DEF Denied
  <2>3. t \in Tab  BY <2>2 DEF Typed, Named
  <2>4. store.refresh \in Token  BY <2>1 DEF Typed, TypeOK, Maybe
  <2> QED BY <2>1, <2>3, <2>4
<1>3. /\ call' = [call EXCEPT ![c].waits = TRUE]
      /\ refresh' = [refresh EXCEPT ![t] = [at |-> "sent", token |-> store.refresh]]
      /\ UNCHANGED <<store, page, form>> /\ Forget
  BY <1>1, <1>2 DEF Denied
<1>4. call \in [Call -> CallRow] /\ call[c] \in CallRow /\ refresh \in [Tab -> RefreshRow]
  BY DEF Typed, TypeOK
<1>5. /\ call'[c] = Awaits(call[c])
      /\ \A e \in Call : e # c => call'[e] = call[e]
      /\ refresh'[t] = [at |-> "sent", token |-> store.refresh]
  BY <1>2, <1>3, <1>4 DEF Awaits
<1>6. /\ call'[c].tab = t /\ call'[c].waits /\ ~call'[c].retry /\ call'[c] # NoCall
  <2>1. call'[c].tab = t /\ call'[c].waits = TRUE /\ call'[c].retry = call[c].retry
    BY <1>4, <1>5, RowFields
  <2> QED BY <1>1, <2>1, RowFields
<1>7. session'[store.refresh] = "live"
  BY <1>2, <1>3, <1>5, ForgetKeepsHeld DEF Typed, Live
<1>8. \A e \in Call : call'[e] # NoCall => e = c
  BY <1>5 DEF Fine, Idle
<1> HIDE DEF t
<1>9. Fine(c)'
  BY <1>2, <1>3, <1>5, <1>6, <1>7, <1>8 DEF Fine, Idle, Live, t
<1> QED BY <1>6, <1>9 DEF Idle

LEMMA RefreshedFine ==
  ASSUME OneTab, Typed, IssuedAlone, NEW c \in Call, Launching(c), Fine(c),
         NEW t \in Tab, Refreshing(t)
  PROVE  ~Idle(c)' /\ Fine(c)'
<1>1. /\ t = call[c].tab /\ page[t] = "root" /\ form[t].at = "idle" /\ ~Idle(c)
      /\ refresh[t].at \in {"idle", "sent", "found", "revoked", "issued"}
  BY FineAlone
<1>2. /\ refresh[t].at # "idle" /\ call[c] \in CallRow /\ refresh \in [Tab -> RefreshRow]
      /\ refresh[t] # NoRefresh
  BY DEF Refreshing, RotateFind, RotateRevoke, RotateIssue, RefreshSucceeds, RefreshFails,
         RefreshUnheard, Typed, TypeOK, NoRefresh
<1>3. call[c].waits  BY <1>1, <1>2 DEF Fine
<1>4. CASE RotateFind(t)
  <2>1. /\ refresh[t].at = "sent" /\ UNCHANGED <<session, page, call, store, form>>
        /\ refresh'[t].at = IF Live(refresh[t].token) THEN "found" ELSE "failed"
    BY <1>2, <1>4 DEF RotateFind, Rows, RefreshRow
  <2>2. Live(refresh[t].token)  BY <1>1, <1>3, <2>1 DEF Fine
  <2> QED BY <1>1, <1>3, <2>1, <2>2 DEF Fine, Idle
<1>5. CASE RotateRevoke(t) \/ RotateIssue(t)
  <2>1. UNCHANGED <<page, call, store, form>> /\ refresh'[t].at \in {"revoked", "issued"}
    BY <1>2, <1>5 DEF RotateRevoke, RotateIssue, RefreshRow
  <2> QED BY <1>1, <1>3, <2>1 DEF Fine, Idle
<1>6. CASE RefreshSucceeds(t)
  <2>1. /\ Forget /\ RetryOnce(Waiting(t)) /\ UNCHANGED <<page, form>>
        /\ refresh[t].at = "issued" /\ refresh'[t] = NoRefresh
        /\ store'.refresh = refresh[t].token
    BY <1>2, <1>6 DEF RefreshSucceeds
  <2>2. call'[c] = Retried(call[c])
    BY <1>1, <1>3, <2>1 DEF RetryOnce, Waiting, Retried
  <2>3. /\ call'[c].tab = t /\ ~call'[c].waits /\ call'[c].access = "valid"
        /\ call'[c].retry /\ call'[c] # NoCall
    <3>1. /\ call'[c].tab = call[c].tab /\ call'[c].waits = FALSE
          /\ call'[c].access = "valid" /\ call'[c].retry = TRUE
      BY <1>2, <2>2, RowFields
    <3> QED BY <1>1, <3>1, RowFields
  <2>4. \A e \in Call : call'[e] # NoCall => e = c
    <3> SUFFICES ASSUME NEW e \in Call, e # c PROVE call'[e] = NoCall  OBVIOUS
    <3>1. call[e] = NoCall  BY DEF Fine, Idle
    <3>2. e \notin Waiting(t)  BY <3>1 DEF Waiting, NoCall
    <3> QED BY <2>1, <3>1, <3>2 DEF RetryOnce
  <2>5. refresh[t].token \in Token /\ session[refresh[t].token] = "live"
    BY <2>1 DEF IssuedAlone, Typed, Named
  <2>6. session'[store'.refresh] = "live" /\ store'.refresh # NoToken
    BY <2>1, <2>5, ForgetKeepsHeld, TokenAssumption DEF Typed
  <2>7. Fine(c)'
    BY <1>1, <2>1, <2>3, <2>4, <2>6 DEF Fine, Idle, Live
  <2> QED BY <2>3, <2>7 DEF Idle
<1>7. CASE RefreshFails(t) \/ RefreshUnheard(t)
  BY <1>1, <1>7 DEF RefreshFails, RefreshUnheard
<1> QED BY <1>4, <1>5, <1>6, <1>7 DEF Refreshing

LEMMA ExpiredFine ==
  ASSUME OneTab, Typed, NEW c \in Call, Launching(c), Fine(c), AccessExpires
  PROVE  ~Idle(c)' /\ Fine(c)'
<1> DEFINE late(r) == IF r.access = "valid" THEN Late(r) ELSE r
<1>1. /\ call' = [e \in Call |-> late(call[e])] /\ ~call[c].retry
      /\ UNCHANGED <<session, page, refresh, form>> /\ store'.refresh = store.refresh
  BY DEF AccessExpires, Rows, Typed, TypeOK, Late
<1>2. late(NoCall) = NoCall  BY DEF NoCall
<1>3. \A r \in CallRow : /\ late(r).tab = r.tab /\ late(r).retry = r.retry
                         /\ late(r).waits = r.waits /\ late(r).launch = r.launch
  BY RowFields
<1>4. call[c] \in CallRow  BY DEF Typed, TypeOK
<1> HIDE DEF late
<1>5. /\ call'[c].tab = call[c].tab /\ call'[c].retry = call[c].retry
      /\ call'[c].waits = call[c].waits /\ call'[c].launch = call[c].launch
  BY <1>1, <1>3, <1>4
<1>6. \A e \in Call : call'[e] # NoCall => e = c  BY <1>1, <1>2 DEF Fine, Idle
<1>7. ~Idle(c)'  BY <1>5, LaunchingIsBusy DEF Launching, Idle
<1> QED BY <1>1, <1>5, <1>6, <1>7 DEF Fine, Idle, Live

(* A launch goes on, or ends where it should. *)
GoesOn(c) ==
  \/ ~Idle(c)' /\ Fine(c)'
  \/ Idle(c)' /\ page'[call[c].tab] \in {"app", "profile", "closed"}

LEMMA LaunchGoesOn ==
  ASSUME OneTab, Typed, IssuedAlone, [Next]_svars, faults = 0, faults' = 0,
         NEW c \in Call, Launching(c), Fine(c)
  PROVE  GoesOn(c)
<1>0. /\ ~Idle(c) /\ call[c].tab \in Tab /\ \A d \in Call : ~Idle(d) => d = c
      /\ \A t \in Tab : /\ t = call[c].tab /\ page[t] = "root" /\ form[t].at = "idle"
                         /\ refresh[t].at # "failed"
      /\ page \in [Tab -> {"closed", "root", "auth", "otp", "profile", "app"}]
  <2>1. ~Idle(c)  BY DEF Launching, Idle, NoCall
  <2> QED BY <2>1, FineAlone DEF Fine, Typed, TypeOK, Named
<1>f. ASSUME Faulty PROVE FALSE  BY <1>f DEF Faulty
<1>1. CASE UNCHANGED <<session, page, call, store, refresh, form>>
  BY <1>0, <1>1, FineOther DEF Idle, GoesOn
<1>2. ASSUME NEW t \in Tab, NEW d \in Call, Launch(t, d) \/ Send(t, d) PROVE FALSE
  BY <1>0, <1>2 DEF Launch, Send
<1>3. ASSUME NEW d \in Call, Accepted(d) PROVE GoesOn(c)
  <2>1. d = c /\ call' = [call EXCEPT ![c] = NoCall] /\ Landing({c}, Home)
    BY <1>0, <1>3 DEF Accepted
  <2>2. Idle(c)'  BY <2>1 DEF Idle, Typed, TypeOK
  <2>3. page'[call[c].tab] = Home  BY <1>0, <2>1 DEF Landing, Launching
  <2> QED BY <2>2, <2>3 DEF Home, GoesOn
<1>4. ASSUME NEW d \in Call, Denied(d) PROVE GoesOn(c)  BY <1>4, DeniedFine DEF GoesOn
<1>5. ASSUME NEW t \in Tab, Refreshing(t) PROVE GoesOn(c)  BY <1>5, RefreshedFine DEF GoesOn
<1>6. ASSUME NEW t \in Tab, Submitted(t) PROVE FALSE
  BY <1>0, <1>6 DEF Submitted, Verify, LogIn, Revoke, LoggedIn, LoginRefused, LoggedOut, FormUnheard
<1>7. ASSUME NEW t \in Tab, NEW code \in Code, AskForCode(t, code) \/ Submit(t, code)
      PROVE  FALSE
  BY <1>0, <1>7 DEF AskForCode, Submit
<1>8. ASSUME NEW t \in Tab, SaveProfile(t) \/ LogOut(t) PROVE FALSE
  BY <1>0, <1>8 DEF SaveProfile, LogOut
<1>9. ASSUME NEW t \in Tab, Close(t) PROVE GoesOn(c)
  <2>1. call'[c] = NoCall /\ page'[call[c].tab] = "closed"
    BY <1>0, <1>9 DEF Close
  <2> QED BY <2>1 DEF Idle, GoesOn
<1>10. ASSUME NEW t \in Tab, RefreshLost(t) \/ FormLost(t) PROVE FALSE
  BY <1>10, <1>f DEF RefreshLost, FormLost
<1>11. ASSUME NEW d \in Call, CallLost(d) PROVE FALSE  BY <1>11, <1>f DEF CallLost
<1>12. CASE AccessExpires  BY <1>12, ExpiredFine DEF GoesOn
<1>13. CASE SessionExpires  BY <1>0, <1>13 DEF SessionExpires
<1>14. ASSUME NEW code \in Code, ChallengeExpires(code) PROVE GoesOn(c)
  BY <1>1, <1>14 DEF ChallengeExpires
<1>15. CASE UNCHANGED svars  BY <1>1, <1>15 DEF svars
<1>16. CASE User  BY <1>2, <1>7, <1>8, <1>16 DEF User
<1>17. CASE Fault  BY <1>9, <1>10, <1>11, <1>17 DEF Fault
<1> QED
  BY <1>3, <1>4, <1>5, <1>6, <1>12, <1>13, <1>14, <1>15, <1>16, <1>17 DEF Next, Answer

(* A launch begins with Launch and nothing else. *)
LEMMA LaunchBegins ==
  ASSUME Typed, [Next]_svars, NEW c \in Call, Launching(c)'
  PROVE  Launching(c) \/ \E t \in Tab, d \in Call : Launch(t, d)
<1>0. call \in [Call -> CallRow] /\ NoCall.launch = FALSE /\ call[c] \in CallRow
  BY DEF Typed, TypeOK, NoCall
<1>k. ASSUME call'[c].launch = call[c].launch, call'[c].alive = call[c].alive
      PROVE  Launching(c)
  BY <1>k DEF Launching
<1>n. call'[c] # NoCall  BY LaunchingIsBusy DEF Launching
<1>1. ASSUME NEW d \in Call, Accepted(d) \/ Denied(d) \/ CallLost(d) PROVE Launching(c)
  <2>1. \/ call'[c] = call[c]
        \/ call'[c] = NoCall
        \/ call'[c] = Awaits(call[c])
    BY <1>0, <1>1 DEF Awaits, Accepted, Denied, CallLost
  <2>2. call'[c].launch = call[c].launch /\ call'[c].alive = call[c].alive
    BY <1>0, <1>n, <2>1, RowFields
  <2> QED BY <1>k, <2>2
<1>2. ASSUME NEW t \in Tab, RefreshSucceeds(t) \/ RefreshFails(t) \/ Close(t)
      PROVE  Launching(c)
  <2>1. \/ call'[c] = call[c]
        \/ call'[c] = NoCall
        \/ call'[c] = Retried(call[c])
    <3>1. CASE RefreshSucceeds(t)  BY <3>1 DEF RefreshSucceeds, RetryOnce, Retried
    <3>2. CASE RefreshFails(t)  BY <3>2 DEF RefreshFails
    <3>3. CASE Close(t)  BY <3>3 DEF Close
    <3> QED BY <1>2, <3>1, <3>2, <3>3
  <2>2. call'[c].launch = call[c].launch /\ call'[c].alive = call[c].alive
    BY <1>0, <1>n, <2>1, RowFields
  <2> QED BY <1>k, <2>2
<1>3. CASE AccessExpires
  <2>1. \/ call'[c] = call[c]
        \/ call'[c] = Late(call[c])
    BY <1>3 DEF AccessExpires, Late
  <2>2. call'[c].launch = call[c].launch /\ call'[c].alive = call[c].alive
    BY <1>0, <2>1, RowFields
  <2> QED BY <1>k, <2>2
<1>4. ASSUME NEW t \in Tab, NEW d \in Call, Send(t, d) PROVE Launching(c)
  BY <1>0, <1>4 DEF Send, Launching, NoCall
<1>5. CASE UNCHANGED call  BY <1>5 DEF Launching
<1>6. \/ UNCHANGED call \/ AccessExpires
      \/ \E d \in Call : Accepted(d) \/ Denied(d) \/ CallLost(d)
      \/ \E t \in Tab : RefreshSucceeds(t) \/ RefreshFails(t) \/ Close(t)
      \/ \E t \in Tab, d \in Call : Launch(t, d) \/ Send(t, d)
  BY DEF Next, Refreshing, Submitted, Answer, User, Fault, svars, RefreshUnheard, FormUnheard,
         RotateFind, RotateRevoke, RotateIssue, AskForCode, Submit, Verify, LogIn, LoggedIn,
         SaveProfile, LoginRefused, LogOut, Revoke, LoggedOut, ChallengeExpires,
         SessionExpires, RefreshLost, FormLost
<1> QED BY <1>1, <1>2, <1>3, <1>4, <1>5, <1>6

LEMMA FaultsGrow == Typed /\ [Next]_svars /\ faults' = 0 => faults = 0
<1> SUFFICES ASSUME Typed, [Next]_svars PROVE faults' = faults \/ Faulty
  BY TokenAssumption DEF Typed, TypeOK, Faulty
<1> QED
  BY DEF Next, Refreshing, Submitted, Answer, User, Fault, svars, Launch, Send, Accepted, Denied,
         RefreshSucceeds, RefreshFails, RefreshUnheard, FormUnheard, RotateFind, RotateRevoke,
         RotateIssue, AskForCode, Submit, Verify, LogIn, LoggedIn, SaveProfile, LoginRefused,
         LogOut, Revoke, LoggedOut, AccessExpires, ChallengeExpires, SessionExpires,
         RefreshLost, FormLost, CallLost, Close, Forget, Rows

LEMMA LaunchFineStep ==
  OneTab /\ Typed /\ IssuedAlone /\ LaunchFine /\ [Next]_svars => LaunchFine'
<1> SUFFICES ASSUME OneTab, Typed, IssuedAlone, LaunchFine, [Next]_svars, faults' = 0,
                    NEW c \in Call, Launching(c)'
             PROVE  Fine(c)'
  BY DEF LaunchFine
<1>1. faults = 0  BY FaultsGrow
<1>2. CASE Launching(c)
  <2>1. Fine(c)  BY <1>1, <1>2 DEF LaunchFine
  <2>2. call'[c] # NoCall  BY LaunchingIsBusy DEF Launching
  <2>3. GoesOn(c)  BY <1>1, <1>2, <2>1, LaunchGoesOn
  <2> QED BY <2>2, <2>3 DEF GoesOn, Idle
<1>3. CASE ~Launching(c)
  BY <1>1, <1>3, LaunchBegins, LaunchedFine
<1> QED BY <1>2, <1>3

(* A restart of the app with a live session ends on the app: its call is      *)
(* accepted at once, or after the one refresh that its tab makes for it.      *)
THEOREM LaunchesKeepSessions ==
  ASSUME OneTab
  PROVE  Spec => LaunchKeepsSession
<1>1. Init => IssuedAlone /\ LaunchFine
  BY DEF Init, IssuedAlone, LaunchFine, Launching, NoRefresh, NoForm, NoCall
<1>2. Typed /\ (IssuedAlone /\ LaunchFine) /\ [Next]_svars => (IssuedAlone /\ LaunchFine)'
  BY AloneStep, LaunchFineStep
<1>3. Typed /\ (IssuedAlone /\ LaunchFine) /\ [Next]_svars
      => [\A c \in Call :
            (call[c].launch /\ call[c].alive /\ call'[c] = NoCall /\ faults' = 0)
              => page'[call[c].tab] \in {"app", "profile", "closed"}]_svars
  <2> SUFFICES ASSUME Typed, IssuedAlone, LaunchFine, [Next]_svars,
                      NEW c \in Call, Launching(c), call'[c] = NoCall, faults' = 0
               PROVE  page'[call[c].tab] \in {"app", "profile", "closed"}
    BY DEF Launching
  <2>1. faults = 0  BY FaultsGrow
  <2>2. Fine(c)  BY <2>1 DEF LaunchFine
  <2> QED BY <2>1, <2>2, LaunchGoesOn DEF Idle, GoesOn
<1> QED BY <1>1, <1>2, <1>3, TypedAlways, PTL DEF Spec, LaunchKeepsSession
=============================================================================
