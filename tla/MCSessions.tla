------------------------------ MODULE MCSessions ------------------------------
(* Sessions as TLC runs it: one tab with two calls, or two tabs that sign in   *)
(* and out, each with its own form, as long as no access token expires.       *)
EXTENDS Sessions

(* What a behaviour follows, chosen at its start: two tabs that refresh the    *)
(* token they share are known to log each other out.                          *)
VARIABLE focus

First == CHOOSE t \in Tab : TRUE

CallsOfOneTab == focus = "calls" /\ \A t \in Tab \ {First} : page'[t] = "closed"

(* Of the calls there are those that launch the app. *)
FormsOfAll ==
  /\ focus = "forms" /\ store'.access # "expired"
  /\ \A c \in Call : call'[c] = NoCall \/ call'[c].launch

MCInit == Init /\ focus \in {"calls", "forms"}
MCNext == Next /\ UNCHANGED focus /\ (CallsOfOneTab \/ FormsOfAll)

MCSpec ==
  /\ MCInit /\ [][MCNext]_<<svars, focus>>
  /\ \A t \in Tab : WF_svars(Refreshing(t)) /\ WF_svars(Submitted(t))
  /\ \A c \in Call : WF_svars(Answer(c))
=============================================================================
