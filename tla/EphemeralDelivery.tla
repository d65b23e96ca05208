-------------------------- MODULE EphemeralDelivery --------------------------
(***************************************************************************)
(* Delivery of end-to-end encrypted messages in one 1:1 conversation:      *)
(* offer, ready, send, ack and the reconciliation that settles what a      *)
(* crash, a timeout or a lost connection left behind.                      *)
(*                                                                         *)
(* Four stores disagree for a while and must agree in the end: PostgreSQL  *)
(* (row), Redis (attempt, payload, live), Pub/Sub and the sockets (frames, *)
(* wire, relay) and the two web clients (item, got).  Every handler holds  *)
(* the row lock of the conversation for its whole transaction, so a        *)
(* handler is one action.  It writes Redis BEFORE the commit: the          *)
(* parameter "committed" of an action is FALSE when the transaction rolls  *)
(* back after Redis was written.                                           *)
(*                                                                         *)
(* Deadlines are instants that pass at some moment (the field due); the    *)
(* message itself is a model value.                                        *)
(***************************************************************************)
EXTENDS FiniteSets

CONSTANTS
  Messages,         \* message UUIDs the sender may use
  SenderConns,      \* connection UUIDs of the sender's sockets
  RecipientConns,   \* connection UUIDs of the recipient's sockets
  NoConn            \* the null connection

ASSUME ConnectionsAreDistinct ==
  /\ SenderConns \cap RecipientConns = {}
  /\ NoConn \notin SenderConns \cup RecipientConns

Conns == SenderConns \cup RecipientConns

VARIABLES
  (* PostgreSQL *)
  conv,      \* conversations.status; "voting" is active with an unexpired vote
  mode,      \* conversations.mode
  row,       \* message_events joined with message_deliveries
  (* Redis *)
  attempt,   \* ephemeral:attempt:<message>
  payload,   \* does ephemeral:delivery:<message>:<recipient> exist
  live,      \* connection:<id> keys: presence
  (* sockets and Pub/Sub *)
  conn,      \* a socket's life at the server
  between,   \* connection whose send is between its two transactions
  frames,    \* frames the sender's client wrote, not yet handled
  wire,      \* notices published or answered so far
  relay,     \* ciphertexts a listener has checked but not yet forwarded
  (* web clients *)
  sconn,     \* the sender client's current socket
  item,      \* the sender client's outbox entry
  got        \* <<connection, message>> whose ciphertext reached the recipient

dbVars     == <<conv, mode, row>>
redisVars  == <<attempt, payload, live>>
socketVars == <<conn, between, frames, wire, relay>>
clientVars == <<sconn, item, got>>
vars       == <<conv, mode, row, attempt, payload, live, conn, between, frames,
                wire, relay, sconn, item, got>>

-----------------------------------------------------------------------------
(* Records *)

Terminal   == {"delivered", "failed", "expired"}
LivePhases == {"offer", "ready", "sending", "sent"}

NoRow     == [mode |-> "none", status |-> "none", conn |-> NoConn, due |-> FALSE]
NoAttempt == [phase |-> "absent", conn |-> NoConn, due |-> FALSE]
NoItem    == [mode |-> "none", status |-> "new"]

RowRecords     == [mode : {"ephemeral", "stored"}, status : {"pending"} \cup Terminal,
                   conn : RecipientConns \cup {NoConn}, due : BOOLEAN]
AttemptRecords == [phase : {"failed", "delivered"} \cup LivePhases,
                   conn : RecipientConns \cup {NoConn}, due : BOOLEAN]
ItemRecords    == [mode : {"ephemeral", "stored"},
                   status : {"offered", "unknown", "pending"} \cup Terminal]

Row     == {NoRow} \cup RowRecords
Attempt == {NoAttempt} \cup AttemptRecords
Item    == {NoItem} \cup ItemRecords

(* ws_protocol.parse_frame: of what the sender writes only an offer or a send *)
(* touches this state; ws_protocol.frame: what the server writes.             *)
Frame   == [kind : {"offer", "send"}, msg : Messages, conn : SenderConns]
Notice  == [type : {"ready", "new", "delivered", "failed", "error"},
            msg : Messages, conn : Conns \cup {NoConn}]

(* A notice for every socket of its user has conn = NoConn. *)
Note(type, m, c) == [type |-> type, msg |-> m, conn |-> c]

TypeOK ==
  /\ conv \in {"pending", "voting", "active", "closed"}
  /\ mode \in {"ephemeral", "stored"}
  /\ row \in [Messages -> Row]
  /\ attempt \in [Messages -> Attempt]
  /\ payload \in [Messages -> BOOLEAN]
  /\ live \subseteq Conns
  /\ conn \in [Conns -> {"fresh", "up", "down"}]
  /\ between \in [Messages -> SenderConns \cup {NoConn}]
  /\ frames \subseteq Frame
  /\ wire \subseteq Notice
  /\ relay \subseteq RecipientConns \X Messages
  /\ sconn \in SenderConns \cup {NoConn}
  /\ item \in [Messages -> Item]
  /\ got \subseteq RecipientConns \X Messages

Init ==
  /\ conv = "pending"
  /\ mode \in {"ephemeral", "stored"}
  /\ row = [m \in Messages |-> NoRow]
  /\ attempt = [m \in Messages |-> NoAttempt]
  /\ payload = [m \in Messages |-> FALSE]
  /\ live = {}
  /\ conn = [c \in Conns |-> "fresh"]
  /\ between = [m \in Messages |-> NoConn]
  /\ frames = {}
  /\ wire = {}
  /\ relay = {}
  /\ sconn = NoConn
  /\ item = [m \in Messages |-> NoItem]
  /\ got = {}

-----------------------------------------------------------------------------
(* Stores *)

(* messaging.permitted; the grace quota is one of the causes of Refuse. *)
Permitted == conv \in {"pending", "active"}

(* RealtimeRedis.connected: an absent or unbound connection is not. *)
Connected(c) == c \in live

(* DeliveryStore.finish: UPDATE ... WHERE status='pending'. *)
Finish(r, status) == IF r.status = "pending" THEN [r EXCEPT !.status = status] ELSE r

(* RealtimeRedis.active: what the indexes still hold.  DeliveryStore.pending. *)
WaitingAttempt(m) == attempt[m].phase \in LivePhases
WaitingRow(m)     == row[m].mode = "ephemeral" /\ row[m].status = "pending"

(* Mutant of Save: a terminal phase leaves the ciphertext to its TTL. *)
SaveKeepsPayload(m, phase, c, due) ==
  /\ attempt' = [attempt EXCEPT ![m] = [phase |-> phase, conn |-> c, due |-> due]]
  /\ UNCHANGED payload

(* RealtimeRedis.save: a terminal phase also deletes the ciphertext. *)
Save(m, phase, c, due) ==
  /\ attempt' = [attempt EXCEPT ![m] = [phase |-> phase, conn |-> c, due |-> due]]
  /\ payload' = [payload EXCEPT ![m] = @ /\ phase \notin {"failed", "delivered"}]

(* Mutant of Announce: published inside the transaction. *)
AnnounceFirst(committed, notices) == wire' = wire \cup notices

(* publish() and the socket's send() come after the commit. *)
Announce(committed, notices) == wire' = IF committed THEN wire \cup notices ELSE wire

(* The server takes frame f of one kind from an open socket. *)
Take(f, kind) ==
  /\ f \in frames /\ f.kind = kind
  /\ conn[f.conn] = "up"
  /\ frames' = frames \ {f}

-----------------------------------------------------------------------------
(* The sender's web client (chat.js) *)

(* Chat.send: room.mode is a cached copy, so it may still say ephemeral after *)
(* an upgrade; it never says stored before one.                               *)
ClientSend(m) ==
  /\ sconn # NoConn /\ item[m] = NoItem
  /\ \E view \in {"ephemeral", mode} :
       /\ item' = [item EXCEPT ![m] = [mode |-> view,
                     status |-> IF view = "ephemeral" THEN "offered" ELSE "unknown"]]
       /\ frames' = frames \cup {[kind |-> IF view = "ephemeral" THEN "offer" ELSE "send",
                                  msg |-> m, conn |-> sconn]}
  /\ UNCHANGED <<dbVars, redisVars, conn, between, wire, relay, sconn, got>>

(* Chat.handle of message.ready: the frame goes out once, while offered. *)
ClientReady(m) ==
  /\ sconn # NoConn /\ item[m].status = "offered"
  /\ Note("ready", m, NoConn) \in wire
  /\ item' = [item EXCEPT ![m].status = "unknown"]
  /\ frames' = frames \cup {[kind |-> "send", msg |-> m, conn |-> sconn]}
  /\ UNCHANGED <<dbVars, redisVars, conn, between, wire, relay, sconn, got>>

(* Chat.retry: the same frame again, for stored messages of unknown fate only. *)
ClientRetry(m) ==
  /\ sconn # NoConn /\ item[m].mode = "stored"
  /\ item[m].status \in {"unknown", "pending"} /\ row[m].status \in {"none", "pending"}
  /\ item' = [item EXCEPT ![m].status = "unknown"]
  /\ frames' = frames \cup {[kind |-> "send", msg |-> m, conn |-> sconn]}
  /\ UNCHANGED <<dbVars, redisVars, conn, between, wire, relay, sconn, got>>

(* Chat.handle of message.delivered, message.failed and system.error. *)
ClientNotice(n) ==
  LET m == n.msg IN
  /\ n \in wire /\ n.type \in {"delivered", "failed", "error"}
  /\ sconn # NoConn /\ n.conn \in {NoConn, sconn}
  /\ item[m] # NoItem /\ item[m].status \notin Terminal
  /\ item' = [item EXCEPT ![m].status =
                IF n.type # "error" THEN n.type
                ELSE IF item[m].mode = "ephemeral" THEN "failed" ELSE "unknown"]
  /\ UNCHANGED <<dbVars, redisVars, socketVars, sconn, got>>

(* Chat.send's 35 s timer. *)
ClientGivesUp(m) ==
  /\ item[m].status = "offered"
  /\ item' = [item EXCEPT ![m].status = "expired"]
  /\ UNCHANGED <<dbVars, redisVars, socketVars, sconn, got>>

(* Mutant of ForgetOffersOnClose: messages already sent are given up too. *)
ForgetAllOnClose ==
  item' = [m \in Messages |-> IF item[m].mode = "ephemeral" /\ item[m].status \notin Terminal
                              THEN [item[m] EXCEPT !.status = "failed"] ELSE item[m]]

(* The sender's socket closes (ws.onclose): offers of that socket are given   *)
(* up.  The server may notice later and still handle frames it has buffered.  *)
ForgetOffersOnClose ==
  item' = [m \in Messages |-> IF item[m].status = "offered"
                              THEN [item[m] EXCEPT !.status = "failed"] ELSE item[m]]

SenderDrops ==
  /\ sconn # NoConn /\ sconn' = NoConn
  /\ ForgetOffersOnClose
  /\ UNCHANGED <<dbVars, redisVars, socketVars, got>>

-----------------------------------------------------------------------------
(* API handlers *)

(* Any frame may be answered with an error: rate limit, grace quota, closed   *)
(* conversation, vote open, presence lost...; nothing is written.             *)
Refuse(f) ==
  /\ \E kind \in {"offer", "send"} : Take(f, kind)
  /\ wire' = wire \cup {Note("error", f.msg, f.conn)}
  /\ UNCHANGED <<dbVars, redisVars, conn, between, relay, clientVars>>

(* RealtimeRedis.create: SET NX, kept for 30 days. *)
Create(m) ==
  /\ attempt[m] = NoAttempt
  /\ attempt' = [attempt EXCEPT ![m].phase = "offer"]

(* Messaging.offer.  The client never offers a UUID twice, so the republish   *)
(* branch only repeats the notice of an attempt still in phase offer.  The    *)
(* recipient learns of the offer from Redis (publish, or the handshake).      *)
Offer(f) ==
  /\ Take(f, "offer")
  /\ Permitted /\ mode = "ephemeral" /\ row[f.msg] = NoRow
  /\ \/ Create(f.msg)
     \/ /\ attempt[f.msg].phase = "offer" /\ ~attempt[f.msg].due
        /\ UNCHANGED attempt
  /\ UNCHANGED <<dbVars, payload, live, conn, between, wire, relay, clientVars>>

(* Messaging.ready, sent by the recipient's client on socket c.  It binds the *)
(* attempt to c; the offer's deadline is not extended.                        *)
ReadyGuard(c, a) ==
  /\ ~a.due /\ a.phase \in {"offer", "ready"}
  /\ a.conn \in {NoConn, c}

Ready(c, m) ==
  /\ conn[c] = "up"
  /\ Permitted /\ mode = "ephemeral" /\ ReadyGuard(c, attempt[m])
  /\ attempt' = [attempt EXCEPT ![m].phase = "ready", ![m].conn = c]
  /\ wire' = wire \cup {Note("ready", m, NoConn)}
  /\ UNCHANGED <<dbVars, payload, live, conn, between, frames, relay, clientVars>>

(* Messaging.send of an event that exists: its state is the answer. *)
SendDuplicate(f) ==
  /\ Take(f, "send") /\ row[f.msg] # NoRow
  /\ Announce(TRUE, IF row[f.msg].status = "pending" THEN {}
                    ELSE {Note(IF row[f.msg].status = "delivered" THEN "delivered" ELSE "failed",
                               f.msg, f.conn)})
  /\ UNCHANGED <<dbVars, redisVars, conn, between, relay, clientVars>>

(* Mutants of GuardedSend: presence is not read with the attempt; an event    *)
(* that exists is not looked for.                                             *)
SendWithoutPresence(f) == Take(f, "send") /\ row[f.msg] = NoRow /\ Permitted
SendWithoutLookup(f)   == Take(f, "send") /\ Permitted /\ Connected(f.conn)

(* RealtimeRedis.guarded_get: presence of the sender's own socket and the     *)
(* attempt are read in one script, so a Redis loss fails closed.              *)
GuardedSend(f) ==
  /\ Take(f, "send") /\ row[f.msg] = NoRow
  /\ Permitted /\ Connected(f.conn)

(* Messaging.send answers message.failed: closed or voting; an attempt after  *)
(* an upgrade; no valid ready; the bound socket is gone.                      *)
SendFails(f) ==
  LET a == attempt[f.msg] IN
  /\ \/ Take(f, "send") /\ row[f.msg] = NoRow /\ ~Permitted
     \/ GuardedSend(f) /\ mode = "stored" /\ a # NoAttempt
     \/ GuardedSend(f) /\ mode = "ephemeral" /\ (a.phase # "ready" \/ a.due \/ ~Connected(a.conn))
  /\ wire' = wire \cup {Note("failed", f.msg, f.conn)}
  /\ UNCHANGED <<dbVars, redisVars, conn, between, relay, clientVars>>

(* Messages.record and DeliveryStore.deadline. *)
Recorded(f) ==
  [mode |-> "ephemeral", status |-> "pending", conn |-> attempt[f.msg].conn, due |-> FALSE]

(* Messaging.send, first transaction, ephemeral: the event, the delivery      *)
(* deadline and the bound connection; Redis follows inside the transaction.   *)
SendRecord(f, committed) ==
  LET m == f.msg  a == attempt[m] IN
  /\ GuardedSend(f) /\ mode = "ephemeral"
  /\ a.phase = "ready" /\ ~a.due /\ Connected(a.conn)
  /\ Save(m, "sending", a.conn, FALSE)
  /\ IF committed
     THEN /\ row' = [row EXCEPT ![m] = Recorded(f)]
          /\ between' = [between EXCEPT ![m] = f.conn]
     ELSE UNCHANGED <<row, between>>
  /\ UNCHANGED <<conv, mode, live, conn, wire, relay, clientVars>>

(* Messaging.send of a message with no attempt in stored mode. *)
SendStored(f) ==
  /\ GuardedSend(f) /\ mode = "stored" /\ attempt[f.msg] = NoAttempt
  /\ row' = [row EXCEPT ![f.msg] = [NoRow EXCEPT !.mode = "stored", !.status = "pending"]]
  /\ UNCHANGED <<conv, mode, redisVars, conn, between, wire, relay, clientVars>>

(* Messaging.send, second transaction.  The connection is the one the first   *)
(* transaction read: Redis is overwritten, not read again.                    *)
SendEnds(m, notices) ==
  /\ between' = [between EXCEPT ![m] = NoConn]
  /\ wire' = wire \cup notices
  /\ UNCHANGED <<conv, mode, live, conn, frames, relay, clientVars>>

SendSettled(m) ==
  /\ between[m] # NoConn /\ row[m].status # "pending"
  /\ SendEnds(m, {Note("failed", m, between[m])})
  /\ UNCHANGED <<row, attempt, payload>>

SendDisconnected(m, committed) ==
  /\ between[m] # NoConn /\ row[m].status = "pending"
  /\ ~Connected(row[m].conn)
  /\ Save(m, "failed", row[m].conn, row[m].due)
  /\ row' = [row EXCEPT ![m] = IF committed THEN Finish(@, "failed") ELSE @]
  /\ SendEnds(m, IF committed THEN {Note("failed", m, between[m])} ELSE {})

(* The ciphertext enters Redis and goes to the bound connection alone.  Past  *)
(* the deadline payload() raises instead.                                     *)
SendPayload(m, committed) ==
  /\ between[m] # NoConn /\ row[m].status = "pending"
  /\ Connected(row[m].conn) /\ ~row[m].due
  /\ attempt' = [attempt EXCEPT ![m] = [phase |-> "sent", conn |-> row[m].conn, due |-> FALSE]]
  /\ payload' = [payload EXCEPT ![m] = TRUE]
  /\ SendEnds(m, IF committed THEN {Note("new", m, row[m].conn)} ELSE {})
  /\ UNCHANGED row

(* payload() raises DELIVERY_TIMEOUT, or the handler is cancelled or dies.    *)
SendAborts(m) ==
  /\ between[m] # NoConn
  /\ SendEnds(m, IF row[m].due THEN {Note("error", m, between[m])} ELSE {})
  /\ UNCHANGED <<row, attempt, payload>>

(* Messaging.ack on socket c.  The recipient's client acknowledges only what  *)
(* it has decrypted.                                                          *)
AckGuard(c, m) ==
  LET r == row[m] IN
  \/ r.mode = "stored" /\ r.status \in {"pending", "delivered"}
  \/ r.mode = "ephemeral" /\ r.status = "delivered"
  \/ /\ r.mode = "ephemeral" /\ r.status = "pending"
     /\ r.conn = c /\ ~r.due
     /\ attempt[m] # NoAttempt /\ payload[m]

Ack(c, m, committed) ==
  /\ conn[c] = "up" /\ AckGuard(c, m)
  /\ row[m].mode = "ephemeral" => <<c, m>> \in got
  /\ row' = [row EXCEPT ![m] = IF committed THEN Finish(@, "delivered") ELSE @]
  /\ IF row[m].mode = "ephemeral" /\ attempt[m] # NoAttempt
     THEN Save(m, "delivered", attempt[m].conn, attempt[m].due)
     ELSE UNCHANGED <<attempt, payload>>
  /\ Announce(committed, {Note("delivered", m, NoConn)})
  /\ UNCHANGED <<conv, mode, live, conn, between, frames, relay, clientVars>>

(* Messaging.status polled by Chat.checkStatus: the deadline is applied to    *)
(* the row without waiting for the worker; Redis is untouched and nothing is  *)
(* published.                                                                 *)
Status(m) ==
  /\ row[m] # NoRow /\ item[m].status \in {"unknown", "pending"}
  /\ row' = [row EXCEPT ![m] = IF @.mode = "ephemeral" /\ @.due THEN Finish(@, "expired") ELSE @]
  /\ item' = [item EXCEPT ![m].status = row'[m].status]
  /\ UNCHANGED <<conv, mode, redisVars, socketVars, sconn, got>>

-----------------------------------------------------------------------------
(* websocket_api.events: the listener of socket c *)

(* Mutant of Addressed: the connection of the event is not compared. *)
AddressedToUser(c, m) == \E d \in RecipientConns : Note("new", m, d) \in wire

Addressed(c, m) == Note("new", m, c) \in wire

(* A ciphertext passes if it is addressed to c and Redis still holds it. *)
ListenerChecks(c, m) ==
  /\ conn[c] = "up" /\ Addressed(c, m)
  /\ attempt[m] # NoAttempt /\ ~attempt[m].due /\ payload[m]
  /\ relay' = relay \cup {<<c, m>>}
  /\ UNCHANGED <<dbVars, redisVars, conn, between, frames, wire, clientVars>>

(* Only then, after the awaits of the check and of send_lock, is it sent. *)
ListenerForwards(c, m) ==
  /\ conn[c] = "up" /\ <<c, m>> \in relay
  /\ relay' = relay \ {<<c, m>>}
  /\ got' = got \cup {<<c, m>>}
  /\ UNCHANGED <<dbVars, redisVars, conn, between, frames, wire, sconn, item>>

-----------------------------------------------------------------------------
(* reconcile_once: the worker every second, and every disconnection or        *)
(* conversation change.  Each candidate is read again under the row lock.     *)

(* First loop, over the attempts Redis still indexes. *)
Reason(m) ==
  LET a == attempt[m] IN
  \/ a.due
  \/ a.conn # NoConn /\ ~Connected(a.conn)
  \/ row[m] = NoRow /\ (conv \in {"closed", "voting"} \/ mode = "stored")

(* Mutant of Settled: only a delivered row settles its attempt. *)
SettledIfDelivered(m) == row[m].status = "delivered"

Settled(m) == row[m].status \in Terminal

(* The row is already terminal: Redis follows it, silently. *)
ReconcileSync(m) ==
  /\ WaitingAttempt(m) /\ Settled(m)
  /\ Save(m, IF row[m].status = "delivered" THEN "delivered" ELSE "failed",
          attempt[m].conn, attempt[m].due)
  /\ UNCHANGED <<dbVars, live, socketVars, clientVars>>

(* Mutant of Cancel: the failure is published but the attempt stays usable. *)
CancelForgotten(m) == UNCHANGED <<attempt, payload>>

Cancel(m) == Save(m, "failed", attempt[m].conn, attempt[m].due)

(* A deadline passed, the bound socket is gone, or the offer is cancelled. *)
Reconcile(m, committed) ==
  /\ WaitingAttempt(m) /\ row[m].status \notin Terminal /\ Reason(m)
  /\ row' = [row EXCEPT ![m] = IF committed
                               THEN Finish(@, IF attempt[m].due THEN "expired" ELSE "failed") ELSE @]
  /\ Cancel(m)
  /\ Announce(committed, {Note("failed", m, NoConn)})
  /\ UNCHANGED <<conv, mode, live, conn, between, frames, relay, clientVars>>

Abandoned(r) == r.due \/ ~Connected(r.conn)

(* Second loop, over the pending ephemeral rows: Redis may have lost all. *)
ReconcileRow(m, committed) ==
  LET r == row[m] IN
  /\ WaitingRow(m) /\ Abandoned(r)
  /\ row' = [row EXCEPT ![m] = IF committed
                               THEN Finish(@, IF r.due THEN "expired" ELSE "failed") ELSE @]
  /\ payload' = [payload EXCEPT ![m] = FALSE]
  /\ Announce(committed, {Note("failed", m, NoConn)})
  /\ UNCHANGED <<conv, mode, attempt, live, conn, between, frames, relay, clientVars>>

-----------------------------------------------------------------------------
(* Time, failures and the conversation *)

(* The deadline of an offer or of a delivery passes; once recorded, row and   *)
(* attempt carry the same instant.                                            *)
DeadlinePasses(m) ==
  /\ (WaitingAttempt(m) /\ ~attempt[m].due) \/ (WaitingRow(m) /\ ~row[m].due)
  /\ attempt' = IF WaitingAttempt(m) THEN [attempt EXCEPT ![m].due = TRUE] ELSE attempt
  /\ row' = IF WaitingRow(m) THEN [row EXCEPT ![m].due = TRUE] ELSE row
  /\ UNCHANGED <<conv, mode, payload, live, socketVars, clientVars>>

(* The TTL of the ciphertext ends, at the clock of Redis. *)
PayloadExpires(m) ==
  /\ payload[m] /\ payload' = [payload EXCEPT ![m] = FALSE]
  /\ UNCHANGED <<dbVars, attempt, live, socketVars, clientVars>>

(* A handshake always has a fresh UUID; presence is set with nx. *)
Handshake(c) ==
  /\ conn[c] = "fresh" /\ (c \in SenderConns => sconn = NoConn)
  /\ conn' = [conn EXCEPT ![c] = "up"]
  /\ live' = live \cup {c}
  /\ sconn' = IF c \in SenderConns THEN c ELSE sconn
  /\ UNCHANGED <<dbVars, attempt, payload, between, frames, wire, relay, item, got>>

(* The finally block of the handler cancels its tasks, then disconnects;      *)
(* reconcile_once(disconnected) is the Reconcile actions above.  A process    *)
(* that dies runs no finally: presence stays until its TTL.                   *)
SocketEnds(c, clean) ==
  /\ conn[c] = "up"
  /\ conn' = [conn EXCEPT ![c] = "down"]
  /\ live' = IF clean THEN live \ {c} ELSE live
  /\ between' = [m \in Messages |-> IF between[m] = c THEN NoConn ELSE between[m]]
  /\ frames' = {f \in frames : f.conn # c}
  /\ relay' = {x \in relay : x[1] # c}
  /\ UNCHANGED <<dbVars, attempt, payload, wire, clientVars>>

PresenceExpires(c) ==
  /\ c \in live /\ live' = live \ {c}
  /\ UNCHANGED <<dbVars, attempt, payload, socketVars, clientVars>>

(* Redis restarts empty: it is not durable. *)
RedisLoss ==
  /\ live' = {}
  /\ attempt' = [m \in Messages |-> NoAttempt]
  /\ payload' = [m \in Messages |-> FALSE]
  /\ UNCHANGED <<dbVars, socketVars, clientVars>>

(* ConversationService.change and the vote it opens. *)
Accept == conv = "pending" /\ conv' = "voting" /\ UNCHANGED mode
VoteEnds == conv = "voting" /\ conv' = "active" /\ UNCHANGED mode
Upgrade == conv \in {"voting", "active"} /\ mode = "ephemeral" /\ mode' = "stored" /\ UNCHANGED conv
Close == conv # "closed" /\ conv' = "closed" /\ UNCHANGED mode

Change ==
  /\ Accept \/ VoteEnds \/ Upgrade \/ Close
  /\ UNCHANGED <<row, redisVars, socketVars, clientVars>>

-----------------------------------------------------------------------------
Client ==
  \/ \E m \in Messages : ClientSend(m) \/ ClientReady(m) \/ ClientRetry(m)
                         \/ ClientGivesUp(m) \/ Status(m)
  \/ \E n \in Notice : ClientNotice(n)
  \/ SenderDrops

Server ==
  \/ \E f \in Frame : Refuse(f) \/ Offer(f) \/ SendDuplicate(f) \/ SendFails(f) \/ SendStored(f)
  \/ \E f \in Frame, committed \in BOOLEAN : SendRecord(f, committed)
  \/ \E m \in Messages : SendSettled(m) \/ SendAborts(m)
  \/ \E m \in Messages, committed \in BOOLEAN :
       SendDisconnected(m, committed) \/ SendPayload(m, committed)
  \/ \E c \in RecipientConns, m \in Messages :
       Ready(c, m) \/ ListenerChecks(c, m) \/ ListenerForwards(c, m)
  \/ \E c \in RecipientConns, m \in Messages, committed \in BOOLEAN : Ack(c, m, committed)

Worker ==
  \/ \E m \in Messages : ReconcileSync(m)
  \/ \E m \in Messages, committed \in BOOLEAN : Reconcile(m, committed) \/ ReconcileRow(m, committed)

Environment ==
  \/ \E m \in Messages : DeadlinePasses(m) \/ PayloadExpires(m)
  \/ \E c \in Conns : Handshake(c) \/ PresenceExpires(c)
  \/ \E c \in Conns, clean \in BOOLEAN : SocketEnds(c, clean)
  \/ RedisLoss
  \/ Change

Next == Client \/ Server \/ Worker \/ Environment

Spec == Init /\ [][Next]_vars

(* The worker reconciles once a second and its failures are not permanent;    *)
(* deadlines pass.  Clients, sockets and handlers may stop at any point.      *)
Fairness ==
  \A m \in Messages :
    /\ WF_vars(DeadlinePasses(m))
    /\ WF_vars(ReconcileSync(m))
    /\ WF_vars(Reconcile(m, TRUE))
    /\ WF_vars(ReconcileRow(m, TRUE))

FairSpec == Spec /\ Fairness

-----------------------------------------------------------------------------
(* Properties *)

(* A notice published to the sender is never contradicted: delivered is       *)
(* announced only for a committed delivery, and a message reported failed is  *)
(* not and will never be delivered (docs/DECISIONES.md, DEC-69).              *)
NoticesAreTruthful ==
  \A n \in wire :
    /\ n.type = "delivered" => row[n.msg].status = "delivered"
    /\ n.type = "failed" /\ item[n.msg].mode = "ephemeral" => row[n.msg].status # "delivered"

(* What the sender's page shows of an ephemeral message is right for good: a  *)
(* message shown delivered was delivered, one shown failed or expired never   *)
(* is, across its own timer, its lost sockets, notices and polling.           *)
SenderIsNeverMisled ==
  \A m \in Messages :
    /\ item[m].status = "delivered" => row[m].status = "delivered"
    /\ item[m].mode = "ephemeral" /\ item[m].status \in {"failed", "expired"}
         => row[m].status # "delivered"

(* An ephemeral message is never written to PostgreSQL as a stored one, not   *)
(* after an upgrade nor when Redis forgets that it was ephemeral              *)
(* (realtime_redis.py:85, DEC-63).                                            *)
EphemeralNeverStored ==
  \A m \in Messages : item[m].mode = "ephemeral" => row[m].mode # "stored"

(* The ciphertext of an ephemeral message reaches only the socket that        *)
(* answered ready, although events go to every socket of the user (DEC-65).   *)
CiphertextOnlyToBoundSocket ==
  \A x \in got \cup relay : row[x[2]].conn = x[1]

(* Redis holds a ciphertext only for a recorded event that is still waiting,  *)
(* or whose deadline was just applied by a status poll: commit precedes       *)
(* payload, and every other outcome deletes it.                               *)
CiphertextOnlyWhileWaiting ==
  \A m \in Messages : payload[m] =>
    row[m].mode = "ephemeral" /\ row[m].status \in {"pending", "expired"}

(* An outcome is final: a late ack, a reconciler and a second transaction     *)
(* racing each other never replace one terminal status by another, and the    *)
(* bound socket of a delivery never changes.                                  *)
OutcomeIsFinal ==
  [][\A m \in Messages : row[m].status \in Terminal => row'[m] = row[m]]_row

(* Every recorded ephemeral delivery reaches its outcome, and every attempt    *)
(* leaves the indexes the worker walks, whatever crashed or was lost in        *)
(* between and whichever of the two settled first.                             *)
EverythingSettles ==
  \A m \in Messages :
    (row[m].mode = "ephemeral" /\ row[m].status \notin Terminal) \/ attempt[m].phase \in LivePhases
      ~> (row[m].mode = "ephemeral" => row[m].status \in Terminal) /\ attempt[m].phase \notin LivePhases

(* The sender's view refines the promise: fate is the durable status, told    *)
(* the notices published or answered for a message sent as ephemeral.         *)
Promise == INSTANCE DeliveryPromise WITH
  fate <- [m \in Messages |-> IF row[m].mode = "ephemeral" THEN row[m].status ELSE "none"],
  told <- [m \in Messages |-> IF item[m].mode = "ephemeral"
             THEN {n.type : n \in {x \in wire : x.msg = m /\ x.type \in {"delivered", "failed"}}}
             ELSE {}]

(* Recorded once, settled once, told the truth, and never recorded after it   *)
(* was reported failed: DeliveryPromise holds of the whole protocol.          *)
PromiseIsKept == Promise!Spec

(* websocket_api.py:204: the listener does not forward ephemeral ciphertext   *)
(* after DEL: the delivery has failed, its row says so and the attempt was     *)
(* saved as failed, which deletes the payload.                                *)
NoForwardAfterDelete ==
  [][\A x \in got' \ got :
       ~(attempt[x[2]].phase = "failed" /\ row[x[2]].status \in {"failed", "expired"})]_got
=============================================================================
