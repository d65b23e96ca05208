--------------------------- MODULE SessionSockets ---------------------------
(***************************************************************************)
(* The WebSockets of an account and the end of its sessions: a ticket      *)
(* bought with a session, the handshake that spends it, subscribes to the  *)
(* revocations, and only then asks PostgreSQL; the listener; and the       *)
(* monitor that asks again every second, because Pub/Sub is not durable.   *)
(***************************************************************************)
EXTENDS Sessions

CONSTANTS Conns  \* connection UUIDs; each has at most one ticket

VARIABLES
  socket,   \* where a connection is, and the session of its ticket
  told,     \* connections with the revocation of their session in their queue
  present,  \* presence keys in Redis
  lost      \* history: connections a publication may have missed

socketVars == <<socket, told, present, lost>>
sVars == <<vars, socketVars>>

NoSocket == [at |-> "none", sid |-> 0]

SocketsTypeOK ==
  /\ TypeOK
  /\ socket \in [Conns -> [at : {"none", "ticket", "subscribed", "checked", "open", "closed"},
                           sid : 0..MaxSessions]]
  /\ told \subseteq Conns /\ lost \subseteq Conns
  /\ present \subseteq {c \in Conns : socket[c].at \in {"open", "closed"}}

SocketsInit ==
  /\ Init
  /\ socket = [c \in Conns |-> NoSocket]
  /\ told = {} /\ present = {} /\ lost = {}

(* What the handshake, the monitor, the listener and every frame ask. *)
Admitted(s) == Authenticated(s) /\ verified

At(c, places) == socket[c].at \in places
Move(c, place) == socket' = [socket EXCEPT ![c].at = place]

(* Subscribed before the session is checked. *)
SubscribedWhenOpen(c) == At(c, {"open"})  \* mutant: subscribes after accepting
Subscribed(c) == At(c, {"subscribed", "checked", "open"})

-----------------------------------------------------------------------------

WsTicket(s, c) ==
  /\ Admitted(s) /\ At(c, {"none"})
  /\ socket' = [socket EXCEPT ![c] = [at |-> "ticket", sid |-> s]]
  /\ UNCHANGED <<vars, told, present, lost>>

(* 30 s without being used. *)
TicketExpires(c) ==
  /\ At(c, {"ticket"}) /\ Move(c, "closed")
  /\ UNCHANGED <<vars, told, present, lost>>

(* GETDEL, and both subscriptions confirmed. *)
Subscribe(c) ==
  /\ At(c, {"ticket"}) /\ Move(c, "subscribed")
  /\ UNCHANGED <<vars, told, present, lost>>

HandshakeCheck(c) ==
  /\ At(c, {"subscribed"})
  /\ Move(c, IF Admitted(socket[c].sid) THEN "checked" ELSE "closed")
  /\ UNCHANGED <<vars, told, present, lost>>

Accept(c) ==
  /\ At(c, {"checked"}) /\ Move(c, "open")
  /\ present' = present \cup {c}
  /\ UNCHANGED <<vars, told, lost>>

(* The listener reads the revocation of its own session. *)
ReadRevocation(c) ==
  /\ At(c, {"open"}) /\ c \in told
  /\ Move(c, "closed") /\ present' = present \ {c}
  /\ UNCHANGED <<vars, told, lost>>

(* Each second, on each notice and on each frame: the socket closes when its  *)
(* presence is gone, or its session or the verification of the address.       *)
UnfitPresence(c) == c \notin present  \* mutant: asks Redis only
Unfit(c) == c \notin present \/ ~Admitted(socket[c].sid)

Monitor(c) ==
  /\ At(c, {"open"}) /\ Unfit(c)
  /\ Move(c, "closed") /\ present' = present \ {c}
  /\ UNCHANGED <<vars, told, lost>>

(* The client leaves, or the process dies and its presence stays. *)
SocketEnds(c, clean) ==
  /\ Subscribed(c) /\ Move(c, "closed")
  /\ present' = IF clean THEN present \ {c} ELSE present
  /\ UNCHANGED <<vars, told, lost>>

PresenceExpires(c) ==
  /\ At(c, {"closed"}) /\ c \in present
  /\ present' = present \ {c}
  /\ UNCHANGED <<vars, socket, told, lost>>

(* The publication of a revocation reaches its subscribers, or some are missed. *)
PublishRevocation(s) ==
  LET subscribers == {c \in Conns : Subscribed(c) /\ socket[c].sid = s} IN
  /\ Publish(s)
  /\ \E reached \in {{}, subscribers} :
       /\ told' = told \cup reached
       /\ lost' = lost \cup (subscribers \ reached)
  /\ UNCHANGED <<socket, present>>

(* Tickets, presence and what the queues held go; the sockets stay until they *)
(* notice.                                                                    *)
SocketsRedisLoss ==
  /\ RedisLoss
  /\ socket' = [c \in Conns |-> IF At(c, {"ticket"}) THEN [socket[c] EXCEPT !.at = "closed"] ELSE socket[c]]
  /\ told' = {} /\ present' = {}
  /\ lost' = lost \cup {c \in Conns : Subscribed(c)}

-----------------------------------------------------------------------------

SocketsNext ==
  \/ (MailStep \/ AccountStep) /\ UNCHANGED socketVars
  \/ \E s \in Sids : PublishRevocation(s) \/ \E c \in Conns : WsTicket(s, c)
  \/ \E c \in Conns :
       \/ TicketExpires(c) \/ Subscribe(c) \/ HandshakeCheck(c) \/ Accept(c)
       \/ ReadRevocation(c) \/ Monitor(c) \/ PresenceExpires(c)
       \/ \E clean \in BOOLEAN : SocketEnds(c, clean)
  \/ SocketsRedisLoss

SocketsSpec == SocketsInit /\ [][SocketsNext]_sVars

(* The monitor sleeps a second and asks again for as long as the socket is     *)
(* open; whatever it cannot ask closes the socket as well.                     *)
MonitorFairness == \A c \in Conns : WF_sVars(Monitor(c))

FairSocketsSpec == SocketsSpec /\ MonitorFairness

-----------------------------------------------------------------------------
(* Properties *)

(* While Pub/Sub loses nothing, no accepted socket of a revoked session has to *)
(* wait for the poll: the revocation is in its queue or still to be published. *)
(* A handshake that checked the session just before cannot miss it.            *)
RevokedSocketIsTold ==
  \A c \in Conns :
    At(c, {"checked", "open"}) /\ socket[c].sid \in revoked =>
      c \in told \cup lost \/ socket[c].sid \in unpublished

(* An open socket whose session ended, or whose address lost its verification, *)
(* closes, unless it becomes admissible again; with or without Pub/Sub.        *)
UnfitSocketsClose ==
  \A c \in Conns :
    At(c, {"open"}) /\ ~Admitted(socket[c].sid) ~>
      At(c, {"closed"}) \/ Admitted(socket[c].sid)
=============================================================================
