---------------------------- MODULE RideChannel ----------------------------
(***************************************************************************)
(* What the phone of one side of a ride, `me', hears over its socket: the  *)
(* room `ride:{id}' of realtime/io.ts, the chat of useRideChat and the     *)
(* toasts of useLiveNotifications.  Membership of the room belongs to a    *)
(* connection: socketClient.ts remembers what it has joined and joins it   *)
(* again on "connect".  The chat list is one react-query cache filled by   *)
(* the history request and by the messages pushed.                         *)
(*                                                                         *)
(* A message is its position in the table RideMessage.  The other side     *)
(* matters only for what it sends.  Rooms are joined by useRideStatus (or  *)
(* useActiveDriverRide) and by useRideChat, on the same page: one join.    *)
(***************************************************************************)
EXTENDS Naturals, Sequences

CONSTANTS MaxMessages,   \* bound: rows of RideMessage
          MaxPushes,     \* bound: pushes not yet heard
          MaxDrops,      \* bound: connections lost
          None           \* null

ASSUME MessagesAssumption == {MaxMessages, MaxPushes, MaxDrops} \subseteq Nat
ASSUME NoneAssumption == None \notin Nat

VARIABLES me,        \* the side whose phone this is
          ride,      \* how far the ride is
          driver,    \* Ride.driverId: is it, or was it, the driver who accepted
          messages,  \* RideMessage: the side that sent each
          posting,   \* sides whose ride:message has been checked and not yet stored
          link,      \* the phone's socket: connected, its room, a join being handled
                     \* (missed, a history variable: one that failed)
          page,      \* the ride page: open, its chat sheet, a toast shown
          chat,      \* the chat cache and the history request in flight
          wire,      \* pushes on their way to the phone, in order
          outbound,  \* the phone's own ride:message: "none", "buffered" or "sent"
          drops      \* connections lost

channel == <<me, posting, link, page, chat, wire, outbound, drops>>

Role == {"customer", "driver"}
Committed == ride = "committed"                    \* arriving, arrived or in_progress
Other(role) == CHOOSE other \in Role : other # role

(* ride.riderId is there for good; ride.driverId from the accept until a      *)
(* withdrawal by id, of an offer read before the accept, takes the driver off.*)
Owns(role) == role = "customer" \/ driver = "his"

(* The ride is in the cache of useActiveDriverRide, where it may outlive that. *)
InCache(role) == role = "customer" \/ driver # "none"

NoPage == [open |-> FALSE, chatOpen |-> FALSE, toasted |-> FALSE]
NoChat == [list |-> None, request |-> "none", rows |-> 0]
Away   == [up |-> FALSE, room |-> FALSE, joining |-> FALSE, missed |-> FALSE]
MessagePush(m) == [event |-> "ride:message:new", message |-> m]
NotificationPush(role) == [event |-> "notification:new", forRole |-> role]

(* Whoever is in the room at that moment is sent the push. *)
Emit(push) ==
  /\ Len(wire) < MaxPushes
  /\ wire' = IF link.room THEN Append(wire, push) ELSE wire
Asked == [chat EXCEPT !.request = "asked"]
Shown == IF chat.list = None THEN <<>> ELSE chat.list

-----------------------------------------------------------------------------
(* The socket *)

(* Mutation: a connection starts in no room and nothing joins it again. *)
ReconnectOnly ==
  /\ ~link.up
  /\ link' = [Away EXCEPT !.up = TRUE]
  /\ outbound' = IF outbound = "buffered" THEN "sent" ELSE outbound
  /\ UNCHANGED <<me, ride, driver, messages, posting, page, chat, wire, drops>>

(* io.use checks the token; the rooms joined before are joined again, after   *)
(* whatever was emitted while the socket was away.                            *)
Reconnect ==
  /\ ~link.up
  /\ link' = [Away EXCEPT !.up = TRUE, !.joining = page.open]
  /\ outbound' = IF outbound = "buffered" THEN "sent" ELSE outbound
  /\ UNCHANGED <<me, ride, driver, messages, posting, page, chat, wire, drops>>

(* The connection is lost with what was on it. *)
Drop ==
  /\ link.up /\ drops < MaxDrops
  /\ drops' = drops + 1
  /\ link' = Away
  /\ wire' = <<>>
  /\ outbound' = IF outbound = "sent" THEN "none" ELSE outbound
  /\ UNCHANGED <<me, ride, driver, messages, posting, page, chat>>

(* join:ride reads the ride and lets its rider and its driver in ... *)
Joined ==
  /\ link.joining
  /\ link' = [link EXCEPT !.joining = FALSE, !.room = @ \/ Owns(me)]
  /\ UNCHANGED <<me, ride, driver, messages, posting, page, chat, wire, outbound, drops>>

(* ... unless the read throws, which is logged (index.ts:17-20) and nothing    *)
(* answers: the phone does not know and does not try again.                   *)
JoinFails ==
  /\ link.joining
  /\ link' = [link EXCEPT !.joining = FALSE, !.missed = TRUE]
  /\ UNCHANGED <<me, ride, driver, messages, posting, page, chat, wire, outbound, drops>>

-----------------------------------------------------------------------------
(* The page.  The driver has one only of a ride that is, or was when it was   *)
(* last asked for, assigned to him; a list younger than staleTime is not      *)
(* asked for again.                                                           *)

OpenPage ==
  /\ ~page.open /\ ride # "over" /\ InCache(me)
  /\ page' = [NoPage EXCEPT !.open = TRUE]
  /\ link' = [link EXCEPT !.joining = @ \/ link.up, !.missed = FALSE]
  /\ \E fresh \in BOOLEAN :
       /\ fresh => chat.list # None
       /\ chat' = IF fresh \/ chat.request # "none" THEN chat ELSE Asked
  /\ UNCHANGED <<me, ride, driver, messages, posting, wire, outbound, drops>>

(* The page is left, or reloaded, which forgets the cache: leave:ride. *)
LeavePage ==
  /\ page.open
  /\ page' = NoPage
  /\ link' = [link EXCEPT !.room = FALSE]
  /\ chat' \in {chat, NoChat}
  /\ UNCHANGED <<me, ride, driver, messages, posting, wire, outbound, drops>>

(* The window is focused, or the network is back, and the list is stale. *)
Refetch ==
  /\ page.open /\ chat.request = "none"
  /\ chat' = Asked
  /\ UNCHANGED <<me, ride, driver, messages, posting, link, page, wire, outbound, drops>>

(* GET /rides/:id/messages: the rows there are, oldest first, or [] for one    *)
(* who does not own the ride.                                                 *)
HistoryRead ==
  /\ chat.request = "asked"
  /\ chat' = [chat EXCEPT !.request = "read",
                          !.rows = IF Owns(me) THEN Len(messages) ELSE 0]
  /\ UNCHANGED <<me, ride, driver, messages, posting, link, page, wire, outbound, drops>>

(* The answer takes the place of the list, of what was pushed meanwhile too. *)
HistoryAnswered ==
  /\ chat.request = "read"
  /\ chat' = [NoChat EXCEPT !.list = [m \in 1 .. chat.rows |-> m]]
  /\ UNCHANGED <<me, ride, driver, messages, posting, link, page, wire, outbound, drops>>

(* Both attempts fail. *)
HistoryFails ==
  /\ chat.request # "none"
  /\ chat' = [chat EXCEPT !.request = "none", !.rows = 0]
  /\ UNCHANGED <<me, ride, driver, messages, posting, link, page, wire, outbound, drops>>

(* What was pushed first reaches the page's handlers; a message is appended   *)
(* to the list, a notification is shown if it is for this side.               *)
Hear ==
  /\ wire # <<>>
  /\ LET push == Head(wire) IN
       IF push.event = "ride:message:new"
         THEN /\ chat' = IF page.open
                           THEN [chat EXCEPT !.list = Append(Shown, push.message)]
                           ELSE chat
              /\ UNCHANGED page
         ELSE /\ page' = [page EXCEPT !.toasted = @ \/ (page.open /\ push.forRole = me)]
              /\ UNCHANGED chat
  /\ wire' = Tail(wire)
  /\ UNCHANGED <<me, ride, driver, messages, posting, link, outbound, drops>>

(* The chat sheet is opened or closed. *)
OpenChat ==
  /\ page.open /\ Committed
  /\ page' = [page EXCEPT !.chatOpen = ~@]
  /\ UNCHANGED <<me, ride, driver, messages, posting, link, chat, wire, outbound, drops>>

(* handleSend empties the draft and waits for nothing: there is no answer.    *)
Send ==
  /\ page.chatOpen /\ outbound = "none" /\ Len(messages) < MaxMessages
  /\ outbound' = IF link.up THEN "sent" ELSE "buffered"
  /\ UNCHANGED <<me, ride, driver, messages, posting, link, page, chat, wire, drops>>

-----------------------------------------------------------------------------
(* The server's handler of ride:message: the ride is read, then the row is    *)
(* created, then it is pushed to the room.                                    *)

Posted(role) == /\ role \notin posting
                /\ posting' = IF Committed /\ Owns(role) THEN posting \cup {role} ELSE posting

PostMine ==
  /\ outbound = "sent" /\ Posted(me)
  /\ outbound' = "none"
  /\ UNCHANGED <<me, ride, driver, messages, link, page, chat, wire, drops>>

PostTheirs ==
  /\ Committed /\ Owns(Other(me)) /\ Len(messages) < MaxMessages /\ Posted(Other(me))
  /\ UNCHANGED <<me, ride, driver, messages, link, page, chat, wire, outbound, drops>>

Store(role) ==
  /\ role \in posting /\ Len(messages) < MaxMessages
  /\ posting' = posting \ {role}
  /\ messages' = Append(messages, role)
  /\ Emit(MessagePush(Len(messages) + 1))
  /\ UNCHANGED <<me, ride, driver, link, page, chat, outbound, drops>>

(* The ride advances and notifyRideEvent tells one of its sides. *)
Advance(role) ==
  /\ ride # "over"
  /\ ride' \in {"committed", "over"}
  /\ driver' = IF ride = "requested" /\ ride' = "committed" THEN "his" ELSE driver
  /\ Emit(NotificationPush(role))
  /\ UNCHANGED <<me, messages, posting, link, page, chat, outbound, drops>>

(* The UPDATE by id that takes an offer back (driverRide.routes.ts:201, 258)   *)
(* meets a ride that its driver has accepted since.                           *)
TakenOff ==
  /\ driver = "his" /\ driver' = "off"
  /\ UNCHANGED <<me, ride, messages, posting, link, page, chat, wire, outbound, drops>>

-----------------------------------------------------------------------------
ChannelInit ==
  /\ me \in Role
  /\ ride = "requested" /\ driver = "none"
  /\ messages = <<>> /\ posting = {}
  /\ link = [Away EXCEPT !.up = TRUE]
  /\ page = NoPage
  /\ chat = NoChat
  /\ wire = <<>> /\ outbound = "none" /\ drops = 0

ChannelNext ==
  \/ Reconnect \/ Drop \/ Joined \/ JoinFails
  \/ OpenPage \/ LeavePage \/ Refetch
  \/ HistoryRead \/ HistoryAnswered \/ HistoryFails
  \/ Hear \/ OpenChat \/ Send
  \/ PostMine \/ PostTheirs
  \/ \E role \in Role : Store(role)

(* A phone that is connected and shows a ride that is still its side's is in   *)
(* its room, or about to be, however its pages came and went and however      *)
(* often its connection was replaced: it does not silently stop hearing       *)
(* (socketClient.ts:9-13).  The exceptions are the code's: a join that failed *)
(* is not sent again until the page or the connection is a new one, and a     *)
(* driver taken off the ride is not let in again.                             *)
OpenPageIsInItsRoom ==
  link.up /\ page.open /\ Owns(me) => link.room \/ link.joining \/ link.missed
=============================================================================
