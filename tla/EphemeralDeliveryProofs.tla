----------------------- MODULE EphemeralDeliveryProofs -----------------------
(***************************************************************************)
(* Proofs about EphemeralDelivery for every set of messages and sockets.   *)
(***************************************************************************)
EXTENDS EphemeralDelivery, TLAPS

-----------------------------------------------------------------------------
(* Type correctness *)

LEMMA RowTypes ==
  /\ NoRow \in Row
  /\ \A r \in Row : /\ r = NoRow \/ r \in RowRecords
                    /\ r # NoRow <=> r.status # "none"
                    /\ r.conn \in RecipientConns \cup {NoConn} /\ r.due \in BOOLEAN
<1>1. ASSUME NEW r \in RowRecords
      PROVE  r.status # "none" /\ r.conn \in RecipientConns \cup {NoConn} /\ r.due \in BOOLEAN
  BY DEF RowRecords, Terminal
<1>2. NoRow.status = "none" /\ NoRow.conn = NoConn /\ NoRow.due \in BOOLEAN
  BY DEF NoRow
<1>. QED
  BY <1>1, <1>2 DEF Row

LEMMA AttemptTypes ==
  /\ NoAttempt \in Attempt
  /\ \A a \in Attempt : /\ a = NoAttempt \/ a \in AttemptRecords
                        /\ a # NoAttempt <=> a.phase # "absent"
                        /\ a.conn \in RecipientConns \cup {NoConn} /\ a.due \in BOOLEAN
<1>1. ASSUME NEW a \in AttemptRecords
      PROVE  a.phase # "absent" /\ a.conn \in RecipientConns \cup {NoConn} /\ a.due \in BOOLEAN
  BY DEF AttemptRecords, LivePhases
<1>2. NoAttempt.phase = "absent" /\ NoAttempt.conn = NoConn /\ NoAttempt.due \in BOOLEAN
  BY DEF NoAttempt
<1>. QED
  BY <1>1, <1>2 DEF Attempt

LEMMA ItemTypes ==
  /\ NoItem \in Item
  /\ \A i \in Item : i = NoItem \/ i \in ItemRecords
  /\ \A i \in Item : i # NoItem <=> i.status # "new"
<1>1. ASSUME NEW i \in ItemRecords PROVE i.status # "new"
  BY DEF ItemRecords, Terminal
<1>2. NoItem.status = "new"
  BY DEF NoItem
<1>. QED
  BY <1>1, <1>2 DEF Item

LEMMA EditedItem ==
  ASSUME NEW i \in Item, i # NoItem, NEW s \in {"offered", "unknown", "pending"} \cup Terminal
  PROVE  [i EXCEPT !.status = s] \in Item
<1>1. i \in ItemRecords
  BY DEF Item
<1>2. [i EXCEPT !.status = s] \in ItemRecords
  BY <1>1 DEF ItemRecords
<1>. QED
  BY <1>2 DEF Item

LEMMA FinishIsTyped ==
  ASSUME NEW r \in Row, NEW status \in Terminal
  PROVE  /\ Finish(r, status) \in Row
         /\ r # NoRow => Finish(r, status) # NoRow
<1>1. CASE r \in RowRecords
  <2>1. [r EXCEPT !.status = status] \in RowRecords
    BY <1>1 DEF RowRecords, Terminal
  <2>2. Finish(r, status) \in RowRecords
    BY <1>1, <2>1 DEF Finish
  <2>3. NoRow \notin RowRecords
    BY DEF NoRow, RowRecords
  <2>. QED
    BY <2>2, <2>3 DEF Row
<1>2. CASE r = NoRow
  BY <1>2 DEF Finish, NoRow, Row
<1>. QED
  BY <1>1, <1>2 DEF Row

LEMMA SaveIsTyped ==
  ASSUME TypeOK, NEW m \in Messages, NEW due \in BOOLEAN,
         NEW phase \in {"failed", "delivered"} \cup LivePhases,
         NEW c \in RecipientConns \cup {NoConn},
         Save(m, phase, c, due)
  PROVE  attempt' \in [Messages -> Attempt] /\ payload' \in [Messages -> BOOLEAN]
<1>1. [phase |-> phase, conn |-> c, due |-> due] \in Attempt
  BY DEF Attempt, AttemptRecords
<1>. QED
  BY <1>1 DEF Save, TypeOK

LEMMA TypeInit == Init => TypeOK
BY RowTypes, AttemptTypes, ItemTypes DEF Init, TypeOK, Conns

(* One lemma per group of actions. *)
LEMMA ClientKeepsTypes == TypeOK /\ Client => TypeOK'
<1> SUFFICES ASSUME TypeOK, Client PROVE TypeOK'
  OBVIOUS
<1> USE DEF TypeOK, dbVars, redisVars, socketVars, clientVars
<1>1. ASSUME NEW m \in Messages, ClientSend(m) PROVE TypeOK'
  BY <1>1 DEF ClientSend, Item, ItemRecords, Frame
<1>2. ASSUME NEW m \in Messages, ClientReady(m) \/ ClientRetry(m) PROVE TypeOK'
  <2>1. item[m] # NoItem
    BY <1>2 DEF ClientReady, ClientRetry, NoItem
  <2>2. [item[m] EXCEPT !.status = "unknown"] \in Item
    BY <2>1, EditedItem
  <2>. QED
    BY <1>2, <2>2 DEF ClientReady, ClientRetry, Frame
<1>3. ASSUME NEW m \in Messages, ClientGivesUp(m) PROVE TypeOK'
  <2>1. item[m] # NoItem
    BY <1>3 DEF ClientGivesUp, NoItem
  <2>2. [item[m] EXCEPT !.status = "expired"] \in Item
    BY <2>1, EditedItem DEF Terminal
  <2>. QED
    BY <1>3, <2>2 DEF ClientGivesUp
<1>4. ASSUME NEW m \in Messages, Status(m) PROVE TypeOK'
  <2>1. row' \in [Messages -> Row] /\ row'[m] # NoRow
    BY <1>4, FinishIsTyped DEF Status, Terminal
  <2>2. row'[m].status \in Terminal \cup {"pending"}
    BY <2>1 DEF Row, RowRecords
  <2>3. item[m] # NoItem
    BY <1>4 DEF Status, NoItem
  <2>4. [item[m] EXCEPT !.status = row'[m].status] \in Item
    BY <2>2, <2>3, EditedItem
  <2>. QED
    BY <1>4, <2>1, <2>4 DEF Status
<1>5. ASSUME NEW n \in Notice, ClientNotice(n) PROVE TypeOK'
  <2>1. n.msg \in Messages /\ item[n.msg] # NoItem
    BY <1>5 DEF ClientNotice, Notice
  <2>2. \A s \in {"delivered", "failed", "unknown"} : [item[n.msg] EXCEPT !.status = s] \in Item
    BY <2>1, EditedItem DEF Terminal
  <2>3. item' \in [Messages -> Item]
    BY <1>5, <2>1, <2>2 DEF ClientNotice
  <2>. QED
    BY <1>5, <2>3 DEF ClientNotice
<1>6. CASE SenderDrops
  <2>1. ASSUME NEW m \in Messages, item[m].status = "offered"
        PROVE  [item[m] EXCEPT !.status = "failed"] \in Item
    <3>1. item[m] # NoItem
      BY <2>1 DEF NoItem
    <3>. QED
      BY <3>1, EditedItem DEF Terminal
  <2>2. item' \in [Messages -> Item]
    BY <1>6, <2>1 DEF SenderDrops, ForgetOffersOnClose
  <2>. QED
    BY <1>6, <2>2 DEF SenderDrops
<1>. QED
  BY <1>1, <1>2, <1>3, <1>4, <1>5, <1>6 DEF Client

LEMMA ServerKeepsTypes == TypeOK /\ Server => TypeOK'
<1> SUFFICES ASSUME TypeOK, Server PROVE TypeOK'
  OBVIOUS
<1> USE DEF dbVars, redisVars, socketVars, clientVars
<1>1. ASSUME NEW f \in Frame, Refuse(f) \/ SendDuplicate(f) \/ SendFails(f) PROVE TypeOK'
  BY <1>1 DEF TypeOK, Refuse, SendDuplicate, SendFails, GuardedSend, Take, Announce, Note, Notice,
     Frame, Conns
<1>2. ASSUME NEW f \in Frame, Offer(f) PROVE TypeOK'
  <2>1. f.msg \in Messages
    BY DEF Frame
  <2>2. attempt' \in [Messages -> Attempt]
    <3>1. [NoAttempt EXCEPT !.phase = "offer"] \in Attempt
      BY DEF NoAttempt, Attempt, AttemptRecords, LivePhases
    <3>. QED
      BY <1>2, <2>1, <3>1 DEF Offer, Create, TypeOK
  <2>. QED
    BY <1>2, <2>2 DEF TypeOK, Offer, Create, Take
<1>3. ASSUME NEW f \in Frame, SendStored(f) PROVE TypeOK'
  <2>1. f.msg \in Messages
    BY DEF Frame
  <2>2. [NoRow EXCEPT !.mode = "stored", !.status = "pending"] \in Row
    BY DEF NoRow, Row, RowRecords
  <2>. QED
    BY <1>3, <2>1, <2>2 DEF TypeOK, SendStored, GuardedSend, Take
<1>4. ASSUME NEW f \in Frame, NEW committed \in BOOLEAN, SendRecord(f, committed) PROVE TypeOK'
  <2>1. f.msg \in Messages /\ f.conn \in SenderConns
    BY DEF Frame
  <2>2. attempt[f.msg].conn \in RecipientConns \cup {NoConn}
    BY <2>1, RowTypes, AttemptTypes DEF TypeOK
  <2>3. attempt' \in [Messages -> Attempt] /\ payload' \in [Messages -> BOOLEAN]
    BY <1>4, <2>1, <2>2, SaveIsTyped DEF SendRecord, LivePhases
  <2>4. Recorded(f) \in Row
    BY <2>2 DEF Recorded, Row, RowRecords
  <2>. QED
    BY <1>4, <2>1, <2>3, <2>4 DEF TypeOK, SendRecord, GuardedSend, Take
<1>5. ASSUME NEW m \in Messages, SendSettled(m) \/ SendAborts(m) PROVE TypeOK'
  BY <1>5 DEF TypeOK, SendSettled, SendAborts, SendEnds, Note, Notice, Conns
<1>6. ASSUME NEW m \in Messages, NEW committed \in BOOLEAN, SendDisconnected(m, committed)
      PROVE  TypeOK'
  <2>1. row[m] \in Row /\ row[m].conn \in RecipientConns \cup {NoConn} /\ row[m].due \in BOOLEAN
    BY RowTypes, AttemptTypes DEF TypeOK
  <2>2. attempt' \in [Messages -> Attempt] /\ payload' \in [Messages -> BOOLEAN]
    BY <1>6, <2>1, SaveIsTyped DEF SendDisconnected
  <2>3. row' \in [Messages -> Row]
    BY <1>6, <2>1, FinishIsTyped DEF SendDisconnected, TypeOK, Terminal
  <2>. QED
    BY <1>6, <2>2, <2>3 DEF TypeOK, SendDisconnected, SendEnds, Note, Notice, Conns
<1>7. ASSUME NEW m \in Messages, NEW committed \in BOOLEAN, SendPayload(m, committed) PROVE TypeOK'
  <2>1. row[m].conn \in RecipientConns \cup {NoConn}
    BY RowTypes, AttemptTypes DEF TypeOK
  <2>2. [phase |-> "sent", conn |-> row[m].conn, due |-> FALSE] \in Attempt
    BY <2>1 DEF Attempt, AttemptRecords, LivePhases
  <2>. QED
    BY <1>7, <2>1, <2>2 DEF TypeOK, SendPayload, SendEnds, Note, Notice, Conns
<1>8. ASSUME NEW c \in RecipientConns, NEW m \in Messages, Ready(c, m) PROVE TypeOK'
  <2>1. attempt' \in [Messages -> Attempt]
    <3>1. attempt[m] \in AttemptRecords
      BY <1>8, AttemptTypes DEF Ready, ReadyGuard, TypeOK, NoAttempt
    <3>2. [attempt[m] EXCEPT !.phase = "ready", !.conn = c] \in Attempt
      BY <3>1 DEF Attempt, AttemptRecords, LivePhases
    <3>. QED
      BY <1>8, <3>2 DEF Ready, TypeOK
  <2>. QED
    BY <1>8, <2>1 DEF TypeOK, Ready, Note, Notice
<1>9. ASSUME NEW c \in RecipientConns, NEW m \in Messages,
             ListenerChecks(c, m) \/ ListenerForwards(c, m)
      PROVE  TypeOK'
  BY <1>9 DEF TypeOK, ListenerChecks, ListenerForwards
<1>10. ASSUME NEW c \in RecipientConns, NEW m \in Messages, NEW committed \in BOOLEAN,
              Ack(c, m, committed)
       PROVE  TypeOK'
  <2>1. attempt[m] \in Attempt /\ row[m] \in Row
    BY DEF TypeOK
  <2>2. attempt[m].conn \in RecipientConns \cup {NoConn} /\ attempt[m].due \in BOOLEAN
    BY <2>1, RowTypes, AttemptTypes
  <2>3. attempt' \in [Messages -> Attempt] /\ payload' \in [Messages -> BOOLEAN]
    BY <1>10, <2>2, SaveIsTyped DEF Ack, TypeOK
  <2>4. row' \in [Messages -> Row]
    BY <1>10, <2>1, FinishIsTyped DEF Ack, TypeOK, Terminal
  <2>. QED
    BY <1>10, <2>3, <2>4 DEF TypeOK, Ack, Announce, Note, Notice
<1>. QED
  BY <1>1, <1>2, <1>3, <1>4, <1>5, <1>6, <1>7, <1>8, <1>9, <1>10 DEF Server

LEMMA WorkerKeepsTypes == TypeOK /\ Worker => TypeOK'
<1> SUFFICES ASSUME TypeOK, NEW m \in Messages, NEW committed \in BOOLEAN,
                    ReconcileSync(m) \/ Reconcile(m, committed) \/ ReconcileRow(m, committed)
             PROVE  TypeOK'
  BY DEF Worker
<1> USE DEF dbVars, redisVars, socketVars, clientVars
<1>1. row[m] \in Row /\ attempt[m].conn \in RecipientConns \cup {NoConn} /\ attempt[m].due \in BOOLEAN
  BY RowTypes, AttemptTypes DEF TypeOK
<1>2. CASE ReconcileSync(m)
  <2>1. attempt' \in [Messages -> Attempt] /\ payload' \in [Messages -> BOOLEAN]
    BY <1>1, <1>2, SaveIsTyped DEF ReconcileSync
  <2>. QED
    BY <1>2, <2>1 DEF TypeOK, ReconcileSync
<1>3. CASE Reconcile(m, committed)
  <2>1. attempt' \in [Messages -> Attempt] /\ payload' \in [Messages -> BOOLEAN]
    BY <1>1, <1>3, SaveIsTyped DEF Reconcile, Cancel
  <2>2. row' \in [Messages -> Row]
    BY <1>1, <1>3, FinishIsTyped DEF Reconcile, TypeOK, Terminal
  <2>. QED
    BY <1>3, <2>1, <2>2 DEF TypeOK, Reconcile, Announce, Note, Notice
<1>4. CASE ReconcileRow(m, committed)
  <2>1. row' \in [Messages -> Row]
    BY <1>1, <1>4, FinishIsTyped DEF ReconcileRow, TypeOK, Terminal
  <2>. QED
    BY <1>4, <2>1 DEF TypeOK, ReconcileRow, Announce, Note, Notice
<1>. QED
  BY <1>2, <1>3, <1>4

LEMMA EnvironmentKeepsTypes == TypeOK /\ Environment => TypeOK'
<1> SUFFICES ASSUME TypeOK, Environment PROVE TypeOK'
  OBVIOUS
<1> USE DEF dbVars, redisVars, socketVars, clientVars
<1>1. ASSUME NEW m \in Messages, DeadlinePasses(m) PROVE TypeOK'
  <2>1. row' \in [Messages -> Row]
    <3>1. WaitingRow(m) => [row[m] EXCEPT !.due = TRUE] \in Row
      BY RowTypes DEF WaitingRow, TypeOK, Row, RowRecords, NoRow
    <3>. QED
      BY <1>1, <3>1 DEF DeadlinePasses, TypeOK
  <2>2. attempt' \in [Messages -> Attempt]
    <3>1. WaitingAttempt(m) => attempt[m] \in AttemptRecords
      BY AttemptTypes DEF WaitingAttempt, LivePhases, TypeOK
    <3>2. WaitingAttempt(m) => [attempt[m] EXCEPT !.due = TRUE] \in Attempt
      BY <3>1 DEF Attempt, AttemptRecords
    <3>. QED
      BY <1>1, <3>2 DEF DeadlinePasses, TypeOK
  <2>. QED
    BY <1>1, <2>1, <2>2 DEF TypeOK, DeadlinePasses
<1>2. ASSUME NEW m \in Messages, PayloadExpires(m) PROVE TypeOK'
  BY <1>2 DEF TypeOK, PayloadExpires
<1>3. ASSUME NEW c \in Conns, Handshake(c) \/ PresenceExpires(c) PROVE TypeOK'
  BY <1>3 DEF TypeOK, Handshake, PresenceExpires, Conns
<1>4. ASSUME NEW c \in Conns, NEW clean \in BOOLEAN, SocketEnds(c, clean) PROVE TypeOK'
  BY <1>4 DEF TypeOK, SocketEnds
<1>5. CASE RedisLoss
  BY <1>5, RowTypes, AttemptTypes DEF TypeOK, RedisLoss
<1>6. CASE Change
  BY <1>6 DEF TypeOK, Change, Accept, VoteEnds, Upgrade, Close
<1>. QED
  BY <1>1, <1>2, <1>3, <1>4, <1>5, <1>6 DEF Environment

LEMMA TypeStep == TypeOK /\ [Next]_vars => TypeOK'
<1>1. CASE UNCHANGED vars
  BY <1>1 DEF vars, TypeOK
<1>. QED
  BY <1>1, ClientKeepsTypes, ServerKeepsTypes, WorkerKeepsTypes, EnvironmentKeepsTypes DEF Next

(* Every store, frame, notice and client entry keeps its type. *)
THEOREM TypeCorrect == Spec => []TypeOK
BY TypeInit, TypeStep, PTL DEF Spec

-----------------------------------------------------------------------------
(***************************************************************************)
(* What a step does to each variable.                                      *)
(***************************************************************************)

(* Only the page touches its outbox.  A message keeps the mode it was sent    *)
(* with and is offered only once.                                             *)
LEMMA ItemStep ==
  ASSUME TypeOK, [Next]_vars, NEW m \in Messages
  PROVE  \/ item'[m] = item[m]
         \/ ClientSend(m) /\ item[m] = NoItem
         \/ /\ item[m] # NoItem /\ item'[m] # NoItem
            /\ item'[m].mode = item[m].mode /\ item'[m].status # "offered"
<1> USE DEF TypeOK, dbVars, redisVars, socketVars, clientVars
<1>1. ASSUME NEW x \in Messages, NEW s \in {"unknown", "pending"} \cup Terminal,
             item' = [item EXCEPT ![x].status = s], item[x] # NoItem
      PROVE  \/ item'[m] = item[m]
             \/ /\ item[m] # NoItem /\ item'[m] # NoItem
                /\ item'[m].mode = item[m].mode /\ item'[m].status # "offered"
  <2>1. CASE x = m
    <3>1. item[m] \in ItemRecords
      BY <1>1, <2>1, ItemTypes
    <3>2. item'[m].mode = item[m].mode /\ item'[m].status = s
      BY <1>1, <2>1, <3>1 DEF ItemRecords
    <3>. QED
      BY <1>1, <2>1, <3>2 DEF NoItem, Terminal
  <2>2. CASE x # m
    BY <1>1, <2>2
  <2>. QED
    BY <2>1, <2>2
<1>2. ASSUME NEW x \in Messages, ClientSend(x)
      PROVE  item'[m] = item[m] \/ (ClientSend(m) /\ item[m] = NoItem)
  BY <1>2 DEF ClientSend
<1>3. ASSUME NEW x \in Messages, ClientReady(x) \/ ClientRetry(x) \/ ClientGivesUp(x)
      PROVE  /\ item[x] # NoItem
             /\ \E s \in {"unknown", "expired"} : item' = [item EXCEPT ![x].status = s]
  BY <1>3 DEF ClientReady, ClientRetry, ClientGivesUp, NoItem
<1>4. ASSUME NEW x \in Messages, Status(x)
      PROVE  /\ item[x] # NoItem
             /\ \E s \in {"pending"} \cup Terminal : item' = [item EXCEPT ![x].status = s]
  <2>1. row'[x] \in Row /\ row'[x] # NoRow
    BY <1>4, FinishIsTyped DEF Status, Terminal
  <2>2. row'[x].status \in {"pending"} \cup Terminal
    BY <2>1 DEF Row, RowRecords
  <2>3. item' = [item EXCEPT ![x].status = row'[x].status] /\ item[x] # NoItem
    BY <1>4 DEF Status, NoItem
  <2>. QED
    BY <2>2, <2>3
<1>5. ASSUME NEW n \in Notice, ClientNotice(n)
      PROVE  /\ n.msg \in Messages /\ item[n.msg] # NoItem
             /\ \E s \in {"delivered", "failed", "unknown"} : item' = [item EXCEPT ![n.msg].status = s]
  BY <1>5 DEF ClientNotice, Notice
<1>6. CASE SenderDrops
  <2>1. CASE item[m].status = "offered"
    <3>1. item[m] \in ItemRecords
      BY <2>1, ItemTypes DEF NoItem
    <3>2. item'[m].mode = item[m].mode /\ item'[m].status = "failed"
      BY <1>6, <2>1, <3>1 DEF SenderDrops, ForgetOffersOnClose, ItemRecords
    <3>. QED
      BY <2>1, <3>2 DEF NoItem
  <2>2. CASE item[m].status # "offered"
    BY <1>6, <2>2 DEF SenderDrops, ForgetOffersOnClose
  <2>. QED
    BY <2>1, <2>2
<1>7. ASSUME Server \/ Worker \/ Environment \/ UNCHANGED vars PROVE item' = item
  BY <1>7 DEF Server, Worker, Environment, vars, Refuse, Offer, Create, SendDuplicate, SendFails, SendStored,
     SendRecord, SendEnds, SendSettled, SendAborts, SendDisconnected, SendPayload, Ready,
     ListenerChecks, ListenerForwards, Ack, ReconcileSync, Reconcile, ReconcileRow, DeadlinePasses,
     PayloadExpires, Handshake, PresenceExpires, SocketEnds, RedisLoss, Change
<1>. QED
  BY <1>1, <1>2, <1>3, <1>4, <1>5, <1>6, <1>7 DEF Next, Client, Terminal

(* A row is recorded once and keeps its mode and its socket; a terminal one   *)
(* never changes again, and one that fails leaves no ciphertext behind.       *)
LEMMA RowStep ==
  ASSUME TypeOK, [Next]_vars, NEW m \in Messages
  PROVE  \/ row'[m] = row[m]
         \/ /\ row[m].status = "pending" /\ row'[m] # NoRow
            /\ row'[m].mode = row[m].mode /\ row'[m].conn = row[m].conn
            /\ \/ row'[m].status = "pending" /\ row'[m].due
               \/ row'[m].status = "delivered" /\ \E c \in RecipientConns : Ack(c, m, TRUE)
               \/ row'[m].status = "expired"
               \/ row'[m].status = "failed" /\ ~payload'[m]
         \/ \E f \in Frame : f.msg = m /\ row[m] = NoRow /\ (SendRecord(f, TRUE) \/ SendStored(f))
<1> USE DEF TypeOK, dbVars, redisVars, socketVars, clientVars
<1> DEFINE Kept == row'[m] = row[m]
           Moved == /\ row[m].status = "pending" /\ row'[m] # NoRow
                    /\ row'[m].mode = row[m].mode /\ row'[m].conn = row[m].conn
                    /\ \/ row'[m].status = "pending" /\ row'[m].due
                       \/ row'[m].status = "delivered" /\ \E c \in RecipientConns : Ack(c, m, TRUE)
                       \/ row'[m].status = "expired"
                       \/ row'[m].status = "failed" /\ ~payload'[m]
<1>1. ASSUME NEW x \in Messages, NEW s \in Terminal, NEW committed \in BOOLEAN,
             row' = [row EXCEPT ![x] = IF committed THEN Finish(@, s) ELSE @],
             s = "delivered" => \E c \in RecipientConns : Ack(c, x, committed),
             s = "failed" => ~payload'[x]
      PROVE  Kept \/ Moved
  <2>1. CASE x = m /\ committed = TRUE /\ row[m].status = "pending"
    <3>1. row[m] \in RowRecords
      BY <2>1, RowTypes DEF NoRow
    <3>2. row'[m] = [row[m] EXCEPT !.status = s]
      BY <1>1, <2>1 DEF Finish
    <3>3. row'[m].status = s /\ row'[m].mode = row[m].mode /\ row'[m].conn = row[m].conn
      BY <3>1, <3>2 DEF RowRecords
    <3>4. s = "delivered" => \E c \in RecipientConns : Ack(c, m, TRUE)
      BY <1>1, <2>1
    <3>5. s # "none" /\ row'[m] # NoRow
      BY <3>3 DEF NoRow, Terminal
    <3>6. s = "delivered" \/ s = "expired" \/ (s = "failed" /\ ~payload'[m])
      BY <1>1, <2>1 DEF Terminal
    <3>7. \/ row'[m].status = "delivered" /\ \E c \in RecipientConns : Ack(c, m, TRUE)
          \/ row'[m].status = "expired"
          \/ row'[m].status = "failed" /\ ~payload'[m]
      BY <3>3, <3>4, <3>6
    <3>8. Moved
      BY <2>1, <3>3, <3>5, <3>7
    <3>. QED
      BY <3>8
  <2>2. CASE ~(x = m /\ committed = TRUE /\ row[m].status = "pending")
    BY <1>1, <2>2 DEF Finish
  <2>. QED
    BY <2>1, <2>2
<1>2. ASSUME NEW f \in Frame, SendRecord(f, TRUE) \/ SendStored(f)
      PROVE  row'[m] = row[m] \/ (f.msg = m /\ row[m] = NoRow)
  BY <1>2 DEF SendRecord, SendStored, GuardedSend
<1>3. ASSUME NEW f \in Frame, SendRecord(f, FALSE) PROVE row'[m] = row[m]
  BY <1>3 DEF SendRecord
<1>4. ASSUME NEW x \in Messages, Status(x)
      PROVE  Kept \/ Moved
  <2>. DEFINE due == row[x].mode = "ephemeral" /\ row[x].due
  <2>1. due \in BOOLEAN /\ row' = [row EXCEPT ![x] = IF due THEN Finish(@, "expired") ELSE @]
    BY <1>4 DEF Status
  <2>. QED
    BY <1>1, <2>1 DEF Terminal
<1>5. ASSUME NEW x \in Messages, NEW c \in BOOLEAN,
             SendDisconnected(x, c) \/ Reconcile(x, c) \/ ReconcileRow(x, c)
      PROVE  Kept \/ Moved
  <2>1. \E s \in {"failed", "expired"} : row' = [row EXCEPT ![x] = IF c THEN Finish(@, s) ELSE @]
    BY <1>5 DEF SendDisconnected, Reconcile, ReconcileRow
  <2>2. ~payload'[x]
    BY <1>5 DEF SendDisconnected, Reconcile, ReconcileRow, Cancel, Save
  <2>. QED
    BY <1>1, <2>1, <2>2 DEF Terminal
<1>6. ASSUME NEW c \in RecipientConns, NEW x \in Messages, NEW d \in BOOLEAN, Ack(c, x, d)
      PROVE  Kept \/ Moved
  <2>1. row' = [row EXCEPT ![x] = IF d THEN Finish(@, "delivered") ELSE @]
    BY <1>6 DEF Ack
  <2>. QED
    BY <1>1, <1>6, <2>1 DEF Terminal
<1>7. ASSUME NEW x \in Messages, DeadlinePasses(x)
      PROVE  Kept \/ Moved
  <2>1. CASE x = m /\ WaitingRow(m)
    <3>1. row[m] \in RowRecords
      BY <2>1, RowTypes DEF NoRow, WaitingRow
    <3>2. row'[m] = [row[m] EXCEPT !.due = TRUE]
      BY <1>7, <2>1 DEF DeadlinePasses
    <3>3. /\ row'[m].status = "pending" /\ row'[m].mode = row[m].mode
          /\ row'[m].conn = row[m].conn /\ row'[m].due = TRUE
      BY <2>1, <3>1, <3>2 DEF RowRecords, WaitingRow
    <3>4. row'[m] # NoRow
      BY <3>3 DEF NoRow
    <3>5. row'[m].status = "pending" /\ row'[m].due
      BY <3>3
    <3>6. row[m].status = "pending"
      BY <2>1 DEF WaitingRow
    <3>7. Moved
      BY <3>3, <3>4, <3>5, <3>6
    <3>. QED
      BY <3>7
  <2>2. CASE ~(x = m /\ WaitingRow(m))
    BY <1>7, <2>2 DEF DeadlinePasses
  <2>. QED
    BY <2>1, <2>2
<1>8. ASSUME \/ \E x \in Messages : ClientSend(x) \/ ClientReady(x) \/ ClientRetry(x) \/ ClientGivesUp(x)
             \/ \E n \in Notice : ClientNotice(n)
             \/ SenderDrops
             \/ \E f \in Frame : Refuse(f) \/ Offer(f) \/ SendDuplicate(f) \/ SendFails(f)
             \/ \E x \in Messages : SendSettled(x) \/ SendAborts(x) \/ ReconcileSync(x) \/ PayloadExpires(x)
             \/ \E x \in Messages, committed \in BOOLEAN : SendPayload(x, committed)
             \/ \E c \in RecipientConns, x \in Messages :
                  Ready(c, x) \/ ListenerChecks(c, x) \/ ListenerForwards(c, x)
             \/ \E c \in Conns : Handshake(c) \/ PresenceExpires(c)
             \/ \E c \in Conns, clean \in BOOLEAN : SocketEnds(c, clean)
             \/ RedisLoss \/ Change \/ UNCHANGED vars
      PROVE  row' = row
  BY <1>8 DEF ClientSend, ClientReady, ClientRetry, ClientNotice, ClientGivesUp, SenderDrops, vars,
     Refuse, Offer, Create, SendDuplicate, SendFails, SendSettled, SendAborts, SendPayload, SendEnds, Ready,
     ListenerChecks, ListenerForwards, ReconcileSync, PayloadExpires, Handshake, PresenceExpires,
     SocketEnds, RedisLoss, Change
<1>9. CASE Client
  BY <1>4, <1>8, <1>9 DEF Client
<1>10. CASE Server
  BY <1>2, <1>3, <1>5, <1>6, <1>8, <1>10 DEF Server
<1>11. CASE Worker
  BY <1>5, <1>8, <1>11 DEF Worker
<1>12. CASE Environment
  BY <1>7, <1>8, <1>12 DEF Environment
<1>. QED
  BY <1>8, <1>9, <1>10, <1>11, <1>12 DEF Next

LEMMA FinishSettles ==
  ASSUME NEW r \in Row, NEW s \in Terminal
  PROVE  /\ r.status = "pending" => /\ Finish(r, s).status = s /\ Finish(r, s).mode = r.mode
                                    /\ Finish(r, s).conn = r.conn
         /\ r.status # "pending" => Finish(r, s) = r
<1>1. CASE r.status = "pending"
  <2>1. r \in RowRecords
    BY <1>1, RowTypes DEF NoRow
  <2>. QED
    BY <1>1, <2>1 DEF Finish, RowRecords
<1>2. CASE r.status # "pending"
  BY <1>2 DEF Finish
<1>. QED
  BY <1>1, <1>2

(* A notice tells what the step that published it did. *)
LEMMA WireStep ==
  ASSUME TypeOK, [Next]_vars, NEW n \in wire'
  PROVE  \/ n \in wire
         \/ n.type = "ready" /\ \E c \in RecipientConns : Ready(c, n.msg)
         \/ /\ n.type = "new" /\ \E committed \in BOOLEAN : SendPayload(n.msg, committed)
            /\ n.conn = row[n.msg].conn
         \/ n.type = "delivered" /\ row'[n.msg].status = "delivered"
         \/ n.type = "failed" /\ row'[n.msg].status \in {"failed", "expired"}
         \/ n.type = "failed" /\ \E f \in Frame : f.msg = n.msg /\ SendFails(f)
         \/ n.type = "failed" /\ SendSettled(n.msg)
         \/ n.type = "failed" /\ Reconcile(n.msg, TRUE) /\ row[n.msg] = NoRow
         \/ n.type = "error" /\ \E f \in Frame : f.msg = n.msg /\ Refuse(f)
         \/ n.type = "error" /\ SendAborts(n.msg) /\ row[n.msg].due
<1> USE DEF dbVars, redisVars, socketVars, clientVars
<1>1. SUFFICES ASSUME n \notin wire
      PROVE  \/ n.type = "ready" /\ \E c \in RecipientConns : Ready(c, n.msg)
             \/ /\ n.type = "new" /\ \E committed \in BOOLEAN : SendPayload(n.msg, committed)
                /\ n.conn = row[n.msg].conn
             \/ n.type = "delivered" /\ row'[n.msg].status = "delivered"
             \/ n.type = "failed" /\ row'[n.msg].status \in {"failed", "expired"}
             \/ n.type = "failed" /\ \E f \in Frame : f.msg = n.msg /\ SendFails(f)
             \/ n.type = "failed" /\ SendSettled(n.msg)
             \/ n.type = "failed" /\ Reconcile(n.msg, TRUE) /\ row[n.msg] = NoRow
             \/ n.type = "error" /\ \E f \in Frame : f.msg = n.msg /\ Refuse(f)
             \/ n.type = "error" /\ SendAborts(n.msg) /\ row[n.msg].due
  OBVIOUS
<1> DEFINE Told == \/ n.type = "delivered" /\ row'[n.msg].status = "delivered"
                   \/ n.type = "failed" /\ row'[n.msg].status \in {"failed", "expired"}
<1>2. ASSUME NEW f \in Frame, Refuse(f) \/ SendFails(f) \/ SendDuplicate(f)
      PROVE  \/ n.type = "error" /\ f.msg = n.msg /\ Refuse(f)
             \/ n.type = "failed" /\ f.msg = n.msg /\ SendFails(f)
             \/ Told
  <2>1. CASE Refuse(f)
    BY <1>1, <2>1 DEF Refuse, Note
  <2>2. CASE SendFails(f)
    BY <1>1, <2>2 DEF SendFails, Note
  <2>3. CASE SendDuplicate(f)
    <3>1. f.msg \in Messages
      BY DEF Frame
    <3>2. row[f.msg].status \in {"delivered", "failed", "expired"} /\ row' = row
      BY <1>1, <2>3, <3>1 DEF SendDuplicate, Announce, TypeOK, Row, RowRecords, Terminal
    <3>3. n = Note(IF row[f.msg].status = "delivered" THEN "delivered" ELSE "failed", f.msg, f.conn)
      BY <1>1, <2>3 DEF SendDuplicate, Announce
    <3>. QED
      BY <3>2, <3>3 DEF Note
  <2>. QED
    BY <1>2, <2>1, <2>2, <2>3
<1>3. ASSUME NEW m \in Messages, SendSettled(m) \/ SendAborts(m)
      PROVE  n.msg = m /\ \/ n.type = "failed" /\ SendSettled(n.msg)
                          \/ n.type = "error" /\ SendAborts(n.msg) /\ row[n.msg].due
  BY <1>1, <1>3 DEF SendSettled, SendAborts, SendEnds, Note
<1>4. ASSUME NEW m \in Messages, NEW committed \in BOOLEAN,
             SendDisconnected(m, committed) \/ ReconcileRow(m, committed)
      PROVE  Told
  <2>1. committed /\ n.msg = m /\ n.type = "failed"
    BY <1>1, <1>4 DEF SendDisconnected, ReconcileRow, SendEnds, Announce, Note
  <2>2. row[m].status = "pending" /\ row[m] \in Row
    BY <1>4 DEF SendDisconnected, ReconcileRow, WaitingRow, TypeOK
  <2>3. \E s \in {"failed", "expired"} : row'[m] = Finish(row[m], s)
    BY <1>4, <2>1 DEF SendDisconnected, ReconcileRow, TypeOK
  <2>. QED
    BY <2>1, <2>2, <2>3, FinishSettles DEF Terminal
<1>5. ASSUME NEW m \in Messages, NEW committed \in BOOLEAN, SendPayload(m, committed)
      PROVE  n.type = "new" /\ SendPayload(n.msg, committed) /\ n.conn = row[n.msg].conn
  <2>1. n.msg = m /\ n.type = "new" /\ n.conn = row[m].conn
    BY <1>1, <1>5 DEF SendPayload, SendEnds, Note
  <2>. QED
    BY <1>5, <2>1
<1>6. ASSUME NEW c \in RecipientConns, NEW m \in Messages, Ready(c, m)
      PROVE  n.type = "ready" /\ Ready(c, n.msg)
  <2>1. n.msg = m /\ n.type = "ready"
    BY <1>1, <1>6 DEF Ready, Note
  <2>. QED
    BY <1>6, <2>1
<1>7. ASSUME NEW c \in RecipientConns, NEW m \in Messages, NEW committed \in BOOLEAN,
             Ack(c, m, committed)
      PROVE  Told
  <2>1. committed /\ n.msg = m /\ n.type = "delivered"
    BY <1>1, <1>7 DEF Ack, Announce, Note
  <2>2. row[m].status \in {"pending", "delivered"} /\ row[m] \in Row
    BY <1>7 DEF Ack, AckGuard, TypeOK
  <2>3. row'[m] = Finish(row[m], "delivered")
    BY <1>7, <2>1 DEF Ack, TypeOK
  <2>. QED
    BY <2>1, <2>2, <2>3, FinishSettles DEF Terminal
<1>8. ASSUME NEW m \in Messages, NEW committed \in BOOLEAN, Reconcile(m, committed)
      PROVE  (n.type = "failed" /\ Reconcile(n.msg, TRUE) /\ row[n.msg] = NoRow) \/ Told
  <2>1. committed = TRUE /\ n.msg = m /\ n.type = "failed"
    BY <1>1, <1>8 DEF Reconcile, Announce, Note
  <2>2. row[m] = NoRow \/ row[m].status = "pending"
    BY <1>8 DEF Reconcile, TypeOK, Row, RowRecords
  <2>3. \E s \in {"failed", "expired"} : row'[m] = Finish(row[m], s)
    BY <1>8, <2>1 DEF Reconcile, TypeOK
  <2>4. CASE row[m].status = "pending"
    <3>1. row[m] \in Row
      BY DEF TypeOK
    <3>2. row'[m].status \in {"failed", "expired"}
      BY <2>3, <2>4, <3>1, FinishSettles DEF Terminal
    <3>. QED
      BY <2>1, <3>2
  <2>. QED
    BY <1>8, <2>1, <2>2, <2>4
<1>9. ASSUME \/ Client \/ Environment \/ UNCHANGED vars
             \/ \E f \in Frame : Offer(f) \/ SendStored(f)
             \/ \E f \in Frame, committed \in BOOLEAN : SendRecord(f, committed)
             \/ \E c \in RecipientConns, m \in Messages : ListenerChecks(c, m) \/ ListenerForwards(c, m)
             \/ \E m \in Messages : ReconcileSync(m)
      PROVE  FALSE
  BY <1>1, <1>9 DEF Client, Environment, vars, ClientSend, ClientReady, ClientRetry, ClientGivesUp,
     Status, ClientNotice, SenderDrops, Offer, Create, SendStored, SendRecord, ListenerChecks,
     ListenerForwards, ReconcileSync, DeadlinePasses, PayloadExpires, Handshake, PresenceExpires,
     SocketEnds, RedisLoss, Change
<1>10. CASE Server
  BY <1>2, <1>3, <1>4, <1>5, <1>6, <1>7, <1>9, <1>10 DEF Server
<1>11. CASE Worker
  BY <1>4, <1>8, <1>9, <1>11 DEF Worker
<1>. QED
  BY <1>9, <1>10, <1>11 DEF Next

LEMMA RowIsKept ==
  ASSUME TypeOK, [Next]_vars, NEW m \in Messages, row[m] # NoRow
  PROVE  row'[m] # NoRow /\ row'[m].mode = row[m].mode /\ row'[m].conn = row[m].conn
BY RowStep

-----------------------------------------------------------------------------
(***************************************************************************)
(* Outcomes, and who may read a ciphertext.                                *)
(***************************************************************************)

(* A terminal status is never replaced, whatever handlers, worker passes and  *)
(* rollbacks race each other.                                                 *)
THEOREM OutcomesAreFinal == Spec => OutcomeIsFinal
<1>1. ASSUME TypeOK, [Next]_vars
      PROVE  [\A m \in Messages : row[m].status \in Terminal => row'[m] = row[m]]_row
  <2>1. ASSUME NEW m \in Messages, row[m].status \in Terminal PROVE row'[m] = row[m]
    <3>1. row[m].status # "pending" /\ row[m] # NoRow
      BY <2>1 DEF Terminal, NoRow
    <3>. QED
      BY <1>1, <3>1, RowStep
  <2>. QED
    BY <2>1
<1>. QED
  BY <1>1, TypeCorrect, PTL DEF Spec, OutcomeIsFinal

(* A notice of a ciphertext names the socket the delivery is bound to.        *)
NewIsAddressed ==
  \A n \in wire : n.type = "new" => row[n.msg] # NoRow /\ row[n.msg].conn = n.conn

BindingInv == TypeOK /\ NewIsAddressed /\ CiphertextOnlyToBoundSocket

LEMMA BindingStep == BindingInv /\ [Next]_vars => BindingInv'
<1> SUFFICES ASSUME BindingInv, [Next]_vars PROVE BindingInv'
  OBVIOUS
<1>1. TypeOK /\ TypeOK'
  BY TypeStep DEF BindingInv
<1>2. NewIsAddressed'
  <2> SUFFICES ASSUME NEW n \in wire', n.type = "new"
               PROVE  row'[n.msg] # NoRow /\ row'[n.msg].conn = n.conn
    BY DEF NewIsAddressed
  <2>1. n.msg \in Messages
    BY <1>1 DEF TypeOK, Notice
  <2>2. row[n.msg] # NoRow /\ row[n.msg].conn = n.conn
    <3>1. CASE n \in wire
      BY <3>1 DEF BindingInv, NewIsAddressed
    <3>2. CASE n \notin wire
      <4>1. n.conn = row[n.msg].conn /\ \E committed \in BOOLEAN : SendPayload(n.msg, committed)
        BY <1>1, <3>2, WireStep
      <4>2. row[n.msg] # NoRow
        BY <4>1 DEF SendPayload, NoRow
      <4>. QED
        BY <4>1, <4>2
    <3>. QED
      BY <3>1, <3>2
  <2>. QED
    BY <1>1, <2>1, <2>2, RowIsKept
<1>3. CiphertextOnlyToBoundSocket'
  <2>1. ASSUME NEW c \in RecipientConns, NEW m \in Messages, ListenerChecks(c, m)
        PROVE  relay' = relay \cup {<<c, m>>} /\ got' = got /\ row[m].conn = c
    BY <2>1 DEF ListenerChecks, Addressed, Note, clientVars, BindingInv, NewIsAddressed
  <2>2. ASSUME NEW c \in RecipientConns, NEW m \in Messages, ListenerForwards(c, m)
        PROVE  (got \cup relay)' \subseteq got \cup relay
    BY <2>2 DEF ListenerForwards
  <2>3. ASSUME NEW c \in Conns, NEW clean \in BOOLEAN, SocketEnds(c, clean)
        PROVE  (got \cup relay)' \subseteq got \cup relay
    BY <2>3 DEF SocketEnds, clientVars
  <2>4. ASSUME \/ Client \/ Worker \/ UNCHANGED vars \/ RedisLoss \/ Change
               \/ \E f \in Frame : Refuse(f) \/ Offer(f) \/ SendDuplicate(f) \/ SendFails(f)
                                   \/ SendStored(f)
               \/ \E f \in Frame, committed \in BOOLEAN : SendRecord(f, committed)
               \/ \E m \in Messages : SendSettled(m) \/ SendAborts(m)
               \/ \E m \in Messages, committed \in BOOLEAN :
                    SendDisconnected(m, committed) \/ SendPayload(m, committed)
               \/ \E c \in RecipientConns, m \in Messages : Ready(c, m)
               \/ \E c \in RecipientConns, m \in Messages, committed \in BOOLEAN : Ack(c, m, committed)
               \/ \E m \in Messages : DeadlinePasses(m) \/ PayloadExpires(m)
               \/ \E c \in Conns : Handshake(c) \/ PresenceExpires(c)
        PROVE  got' = got /\ relay' = relay
    BY <2>4 DEF Client, Worker, vars, socketVars, clientVars, RedisLoss, Change, ClientSend,
       ClientReady, ClientRetry, ClientGivesUp, Status, ClientNotice, SenderDrops, Refuse, Offer, Create,
       SendDuplicate, SendFails, SendStored, SendRecord, SendSettled, SendAborts, SendEnds,
       SendDisconnected, SendPayload, Ready, Ack, ReconcileSync, Reconcile, ReconcileRow,
       DeadlinePasses, PayloadExpires, Handshake, PresenceExpires
  <2>5. \A x \in (got \cup relay)' : row[x[2]].conn = x[1]
    <3>1. \A x \in got \cup relay : row[x[2]].conn = x[1]
      BY DEF BindingInv, CiphertextOnlyToBoundSocket
    <3>. QED
      BY <2>1, <2>2, <2>3, <2>4, <3>1 DEF Next, Server, Environment
  <2>6. ASSUME NEW x \in (got \cup relay)' PROVE row'[x[2]].conn = x[1]
    <3>1. x[1] \in RecipientConns /\ x[2] \in Messages
      BY <1>1 DEF TypeOK
    <3>2. row[x[2]] # NoRow
      BY <2>5, <3>1, ConnectionsAreDistinct DEF NoRow
    <3>. QED
      BY <1>1, <2>5, <3>1, <3>2, RowIsKept
  <2>. QED
    BY <2>6 DEF CiphertextOnlyToBoundSocket
<1>. QED
  BY <1>1, <1>2, <1>3 DEF BindingInv

(* Whatever sockets the recipient opens, the ciphertext of an ephemeral       *)
(* message reaches only the one that answered ready.                          *)
THEOREM OnlyTheBoundSocketReads == Spec => []CiphertextOnlyToBoundSocket
<1>1. Init => BindingInv
  BY TypeInit DEF Init, BindingInv, NewIsAddressed, CiphertextOnlyToBoundSocket
<1>2. BindingInv => CiphertextOnlyToBoundSocket
  BY DEF BindingInv
<1>. QED
  BY <1>1, <1>2, BindingStep, PTL DEF Spec

-----------------------------------------------------------------------------
(***************************************************************************)
(* The ciphertext in Redis.                                                *)
(***************************************************************************)

(* A send that is between its transactions has an ephemeral row.              *)
BetweenIsEphemeral ==
  \A m \in Messages : between[m] # NoConn => row[m].mode = "ephemeral"

PayloadInv == TypeOK /\ BetweenIsEphemeral /\ CiphertextOnlyWhileWaiting

LEMMA BetweenStep ==
  ASSUME TypeOK, [Next]_vars, NEW m \in Messages, between'[m] # NoConn
  PROVE  \/ between[m] # NoConn
         \/ \E f \in Frame : f.msg = m /\ SendRecord(f, TRUE)
<1>1. SUFFICES ASSUME between[m] = NoConn
               PROVE  \E f \in Frame : f.msg = m /\ SendRecord(f, TRUE)
  OBVIOUS
<1> USE DEF TypeOK, dbVars, redisVars, socketVars, clientVars
<1>2. ASSUME NEW f \in Frame, NEW committed \in BOOLEAN, SendRecord(f, committed)
      PROVE  f.msg = m /\ committed = TRUE
  BY <1>1, <1>2 DEF SendRecord
<1>3. ASSUME \/ \E x \in Messages : SendSettled(x) \/ SendAborts(x)
             \/ \E x \in Messages, committed \in BOOLEAN :
                  SendDisconnected(x, committed) \/ SendPayload(x, committed)
             \/ \E c \in Conns, clean \in BOOLEAN : SocketEnds(c, clean)
      PROVE  between'[m] = NoConn
  BY <1>1, <1>3 DEF SendSettled, SendAborts, SendEnds, SendDisconnected, SendPayload, SocketEnds
<1>4. ASSUME \/ Client \/ Worker \/ UNCHANGED vars \/ RedisLoss \/ Change
             \/ \E f \in Frame : Refuse(f) \/ Offer(f) \/ SendDuplicate(f) \/ SendFails(f)
                                 \/ SendStored(f)
             \/ \E c \in RecipientConns, x \in Messages :
                  Ready(c, x) \/ ListenerChecks(c, x) \/ ListenerForwards(c, x)
             \/ \E c \in RecipientConns, x \in Messages, committed \in BOOLEAN : Ack(c, x, committed)
             \/ \E x \in Messages : DeadlinePasses(x) \/ PayloadExpires(x)
             \/ \E c \in Conns : Handshake(c) \/ PresenceExpires(c)
      PROVE  between' = between
  BY <1>4 DEF Client, Worker, vars, RedisLoss, Change, ClientSend, ClientReady, ClientRetry,
     ClientGivesUp, Status, ClientNotice, SenderDrops, Refuse, Offer, Create, SendDuplicate, SendFails,
     SendStored, Ready, ListenerChecks, ListenerForwards, Ack, ReconcileSync, Reconcile,
     ReconcileRow, DeadlinePasses, PayloadExpires, Handshake, PresenceExpires
<1>. QED
  BY <1>1, <1>2, <1>3, <1>4 DEF Next, Server, Environment

(* A ciphertext enters Redis only in the second transaction of its send.      *)
LEMMA PayloadAppears ==
  ASSUME TypeOK, [Next]_vars, NEW m \in Messages, payload'[m], ~payload[m]
  PROVE  \E committed \in BOOLEAN : SendPayload(m, committed)
<1> USE DEF TypeOK, dbVars, redisVars, socketVars, clientVars
<1>1. ASSUME NEW x \in Messages, NEW phase, NEW c, NEW due, Save(x, phase, c, due)
      PROVE  FALSE
  BY <1>1 DEF Save
<1>2. ASSUME \/ \E f \in Frame, committed \in BOOLEAN : SendRecord(f, committed)
             \/ \E x \in Messages, committed \in BOOLEAN :
                  SendDisconnected(x, committed) \/ Reconcile(x, committed)
             \/ \E x \in Messages : ReconcileSync(x)
      PROVE  FALSE
  BY <1>1, <1>2 DEF SendRecord, SendDisconnected, Reconcile, ReconcileSync, Cancel, Frame
<1>3. ASSUME NEW c \in RecipientConns, NEW x \in Messages, NEW committed \in BOOLEAN,
             Ack(c, x, committed)
      PROVE  FALSE
  BY <1>1, <1>3 DEF Ack
<1>4. ASSUME NEW x \in Messages, NEW committed \in BOOLEAN,
             PayloadExpires(x) \/ ReconcileRow(x, committed)
      PROVE  FALSE
  BY <1>4 DEF PayloadExpires, ReconcileRow
<1>5. ASSUME NEW x \in Messages, NEW committed \in BOOLEAN, SendPayload(x, committed)
      PROVE  x = m
  BY <1>5 DEF SendPayload
<1>6. ASSUME \/ Client \/ UNCHANGED vars \/ RedisLoss \/ Change
             \/ \E f \in Frame : Refuse(f) \/ Offer(f) \/ SendDuplicate(f) \/ SendFails(f)
                                 \/ SendStored(f)
             \/ \E x \in Messages : SendSettled(x) \/ SendAborts(x) \/ DeadlinePasses(x)
             \/ \E c \in RecipientConns, x \in Messages :
                  Ready(c, x) \/ ListenerChecks(c, x) \/ ListenerForwards(c, x)
             \/ \E c \in Conns : Handshake(c) \/ PresenceExpires(c)
             \/ \E c \in Conns, clean \in BOOLEAN : SocketEnds(c, clean)
      PROVE  FALSE
  BY <1>6 DEF Client, vars, RedisLoss, Change, ClientSend, ClientReady, ClientRetry, ClientGivesUp,
     Status, ClientNotice, SenderDrops, Refuse, Offer, Create, SendDuplicate, SendFails, SendStored,
     SendSettled, SendAborts, SendEnds, Ready, ListenerChecks, ListenerForwards, DeadlinePasses,
     Handshake, PresenceExpires, SocketEnds
<1>. QED
  BY <1>2, <1>3, <1>4, <1>5, <1>6 DEF Next, Server, Worker, Environment

LEMMA PayloadInvStep == PayloadInv /\ [Next]_vars => PayloadInv'
<1> SUFFICES ASSUME PayloadInv, [Next]_vars PROVE PayloadInv'
  OBVIOUS
<1>1. TypeOK /\ TypeOK'
  BY TypeStep DEF PayloadInv
<1>2. ASSUME NEW m \in Messages, row[m].mode = "ephemeral" PROVE row'[m].mode = "ephemeral"
  BY <1>1, <1>2, RowIsKept DEF NoRow
<1>3. BetweenIsEphemeral'
  <2> SUFFICES ASSUME NEW m \in Messages, between'[m] # NoConn PROVE row'[m].mode = "ephemeral"
    BY DEF BetweenIsEphemeral
  <2>1. CASE between[m] # NoConn
    BY <1>2, <2>1 DEF PayloadInv, BetweenIsEphemeral
  <2>2. ASSUME NEW f \in Frame, f.msg = m, SendRecord(f, TRUE) PROVE row'[m].mode = "ephemeral"
    BY <1>1, <2>2 DEF SendRecord, Recorded, TypeOK
  <2>. QED
    BY <1>1, <2>1, <2>2, BetweenStep
<1>4. CiphertextOnlyWhileWaiting'
  <2> SUFFICES ASSUME NEW m \in Messages, payload'[m]
               PROVE  row'[m].mode = "ephemeral" /\ row'[m].status \in {"pending", "expired"}
    BY DEF CiphertextOnlyWhileWaiting
  <2>1. CASE ~payload[m]
    <3>1. PICK committed \in BOOLEAN : SendPayload(m, committed)
      BY <1>1, <2>1, PayloadAppears
    <3>. QED
      BY <1>2, <3>1 DEF SendPayload, PayloadInv, BetweenIsEphemeral
  <2>2. CASE payload[m]
    <3>1. row[m].mode = "ephemeral" /\ row[m].status \in {"pending", "expired"}
      BY <2>2 DEF PayloadInv, CiphertextOnlyWhileWaiting
    <3>2. ASSUME NEW c \in RecipientConns, row[m].status = "pending", Ack(c, m, TRUE) PROVE FALSE
      BY <1>1, <3>1, <3>2 DEF Ack, AckGuard, Save, TypeOK
    <3>3. row[m] # NoRow
      BY <3>1 DEF NoRow
    <3>. QED
      BY <1>1, <1>2, <3>1, <3>2, <3>3, RowStep
  <2>. QED
    BY <2>1, <2>2
<1>. QED
  BY <1>1, <1>3, <1>4 DEF PayloadInv

(* The commit of the event precedes its ciphertext and every outcome that     *)
(* publishes something deletes it: Redis never keeps the ciphertext of a      *)
(* message that was delivered, failed or never recorded.                      *)
THEOREM CiphertextIsErased == Spec => []CiphertextOnlyWhileWaiting
<1>1. Init => PayloadInv
  BY TypeInit DEF Init, PayloadInv, BetweenIsEphemeral, CiphertextOnlyWhileWaiting
<1>2. PayloadInv => CiphertextOnlyWhileWaiting
  BY DEF PayloadInv
<1>. QED
  BY <1>1, <1>2, PayloadInvStep, PTL DEF Spec

-----------------------------------------------------------------------------
(***************************************************************************)
(* What Redis remembers of a message.                                      *)
(***************************************************************************)

LEMMA ItemIsKept ==
  ASSUME TypeOK, [Next]_vars, NEW m \in Messages, item[m] # NoItem
  PROVE  item'[m] # NoItem /\ item'[m].mode = item[m].mode
BY ItemStep

(* An attempt begins with an offer or with the transactions of a recorded     *)
(* send, and only a loss of Redis ends it.                                    *)
LEMMA AttemptStep ==
  ASSUME TypeOK, [Next]_vars, NEW m \in Messages
  PROVE  /\ attempt[m] = NoAttempt /\ attempt'[m] # NoAttempt
              => \/ \E f \in Frame : f.msg = m /\ Offer(f)
                 \/ between[m] # NoConn
         /\ attempt[m] # NoAttempt /\ attempt'[m] = NoAttempt => RedisLoss
<1> USE DEF TypeOK, dbVars, redisVars, socketVars, clientVars
<1> DEFINE Claim == /\ attempt[m] = NoAttempt /\ attempt'[m] # NoAttempt
                         => \/ \E f \in Frame : f.msg = m /\ Offer(f)
                            \/ between[m] # NoConn
                    /\ attempt[m] # NoAttempt /\ attempt'[m] = NoAttempt => RedisLoss
<1>1. ASSUME NEW x \in Messages, NEW phase \in {"failed", "delivered"} \cup LivePhases, NEW c, NEW due,
             attempt' = [attempt EXCEPT ![x] = [phase |-> phase, conn |-> c, due |-> due]],
             attempt[x] # NoAttempt \/ between[x] # NoConn
      PROVE  Claim
  <2>1. attempt'[x] # NoAttempt
    BY <1>1 DEF NoAttempt, LivePhases
  <2>. QED
    BY <1>1, <2>1
<1>2. ASSUME NEW f \in Frame, Offer(f) PROVE Claim
  <2>1. f.msg \in Messages
    BY DEF Frame
  <2>2. attempt'[f.msg] # NoAttempt
    BY <1>2, <2>1, AttemptTypes DEF Offer, Create, NoAttempt
  <2>3. \A y \in Messages : y # f.msg => attempt'[y] = attempt[y]
    BY <1>2, <2>1 DEF Offer, Create
  <2>. QED
    BY <1>2, <2>2, <2>3
<1>3. ASSUME NEW f \in Frame, NEW committed \in BOOLEAN, SendRecord(f, committed) PROVE Claim
  <2>1. f.msg \in Messages /\ attempt[f.msg] # NoAttempt
    BY <1>3 DEF SendRecord, Frame, NoAttempt
  <2>. QED
    BY <1>1, <1>3, <2>1 DEF SendRecord, Save, LivePhases
<1>4. ASSUME NEW x \in Messages, NEW committed \in BOOLEAN,
             SendDisconnected(x, committed) \/ SendPayload(x, committed)
      PROVE  Claim
  BY <1>1, <1>4 DEF SendDisconnected, SendPayload, Save, LivePhases
<1>5. ASSUME NEW x \in Messages, NEW committed \in BOOLEAN,
             ReconcileSync(x) \/ Reconcile(x, committed)
      PROVE  Claim
  <2>1. attempt[x] # NoAttempt
    BY <1>5 DEF ReconcileSync, Reconcile, WaitingAttempt, LivePhases, NoAttempt
  <2>. QED
    BY <1>1, <1>5, <2>1 DEF ReconcileSync, Reconcile, Cancel, Save
<1>6. ASSUME NEW c \in RecipientConns, NEW x \in Messages, NEW committed \in BOOLEAN,
             Ack(c, x, committed)
      PROVE  Claim
  BY <1>1, <1>6 DEF Ack, Save
<1>7. ASSUME NEW c \in RecipientConns, NEW x \in Messages, Ready(c, x) PROVE Claim
  <2>1. attempt[x] # NoAttempt /\ attempt'[x] # NoAttempt
    <3>1. attempt[x] \in AttemptRecords
      BY <1>7, AttemptTypes DEF Ready, ReadyGuard, NoAttempt
    <3>2. attempt'[x].phase = "ready"
      BY <1>7, <3>1 DEF Ready, AttemptRecords
    <3>3. attempt[x].phase # "absent"
      BY <1>7 DEF Ready, ReadyGuard
    <3>. QED
      BY <3>2, <3>3 DEF NoAttempt
  <2>2. \A y \in Messages : y # x => attempt'[y] = attempt[y]
    BY <1>7 DEF Ready
  <2>. QED
    BY <2>1, <2>2
<1>8. ASSUME NEW x \in Messages, DeadlinePasses(x) PROVE Claim
  <2>1. CASE x = m /\ WaitingAttempt(m)
    <3>1. attempt[m] \in AttemptRecords
      BY <2>1, AttemptTypes DEF WaitingAttempt, LivePhases, NoAttempt
    <3>2. attempt'[m].phase = attempt[m].phase
      BY <1>8, <2>1, <3>1 DEF DeadlinePasses, AttemptRecords
    <3>. QED
      BY <2>1, <3>2 DEF WaitingAttempt, LivePhases, NoAttempt
  <2>2. CASE ~(x = m /\ WaitingAttempt(m))
    BY <1>8, <2>2 DEF DeadlinePasses
  <2>. QED
    BY <2>1, <2>2
<1>9. ASSUME \/ Client \/ UNCHANGED vars \/ Change
             \/ \E f \in Frame : Refuse(f) \/ SendDuplicate(f) \/ SendFails(f) \/ SendStored(f)
             \/ \E x \in Messages : SendSettled(x) \/ SendAborts(x) \/ PayloadExpires(x)
             \/ \E x \in Messages, committed \in BOOLEAN : ReconcileRow(x, committed)
             \/ \E c \in RecipientConns, x \in Messages : ListenerChecks(c, x) \/ ListenerForwards(c, x)
             \/ \E c \in Conns : Handshake(c) \/ PresenceExpires(c)
             \/ \E c \in Conns, clean \in BOOLEAN : SocketEnds(c, clean)
      PROVE  attempt' = attempt
  BY <1>9 DEF Client, vars, Change, ClientSend, ClientReady, ClientRetry, ClientGivesUp, Status,
     ClientNotice, SenderDrops, Refuse, SendDuplicate, SendFails, SendStored, SendSettled, SendAborts,
     PayloadExpires, ReconcileRow, ListenerChecks, ListenerForwards, Handshake, PresenceExpires,
     SocketEnds
<1>10. CASE RedisLoss
  BY <1>10 DEF RedisLoss
<1>11. CASE Server
  BY <1>2, <1>3, <1>4, <1>6, <1>7, <1>9, <1>11 DEF Server
<1>. QED
  BY <1>5, <1>8, <1>9, <1>10, <1>11 DEF Next, Worker, Environment

(* A frame is written by the page on its current socket.                      *)
LEMMA FrameStep ==
  ASSUME TypeOK, [Next]_vars, NEW f \in frames', f \notin frames
  PROVE  /\ f.conn = sconn /\ sconn # NoConn /\ live' = live /\ wire' = wire /\ row' = row
         /\ attempt' = attempt
         /\ \/ ClientSend(f.msg) /\ item'[f.msg].mode = IF f.kind = "offer" THEN "ephemeral" ELSE "stored"
            \/ ClientReady(f.msg) /\ f.kind = "send"
            \/ ClientRetry(f.msg) /\ f.kind = "send"
<1> USE DEF TypeOK, dbVars, redisVars, socketVars, clientVars
<1>1. ASSUME NEW m \in Messages, ClientSend(m)
      PROVE  /\ f.conn = sconn /\ sconn # NoConn /\ live' = live /\ wire' = wire /\ row' = row
             /\ attempt' = attempt /\ f.msg = m
             /\ item'[f.msg].mode = IF f.kind = "offer" THEN "ephemeral" ELSE "stored"
  BY <1>1 DEF ClientSend
<1>2. ASSUME NEW m \in Messages, ClientReady(m) \/ ClientRetry(m)
      PROVE  /\ f.conn = sconn /\ sconn # NoConn /\ live' = live /\ wire' = wire /\ row' = row
             /\ attempt' = attempt /\ f.msg = m /\ f.kind = "send"
  BY <1>2 DEF ClientReady, ClientRetry
<1>3. ASSUME NEW x \in Frame, NEW committed \in BOOLEAN,
             \/ Refuse(x) \/ Offer(x) \/ SendDuplicate(x) \/ SendFails(x) \/ SendStored(x)
             \/ SendRecord(x, committed)
      PROVE  FALSE
  BY <1>3 DEF Refuse, Offer, Create, SendDuplicate, SendFails, SendStored, SendRecord, GuardedSend, Take
<1>4. ASSUME NEW c \in Conns, NEW clean \in BOOLEAN, SocketEnds(c, clean) PROVE FALSE
  BY <1>4 DEF SocketEnds
<1>5. ASSUME \/ Worker \/ UNCHANGED vars \/ Change \/ RedisLoss \/ SenderDrops
             \/ \E m \in Messages : ClientGivesUp(m) \/ Status(m)
             \/ \E n \in Notice : ClientNotice(n)
             \/ \E x \in Messages : SendSettled(x) \/ SendAborts(x) \/ PayloadExpires(x) \/ DeadlinePasses(x)
             \/ \E x \in Messages, committed \in BOOLEAN :
                  SendDisconnected(x, committed) \/ SendPayload(x, committed)
             \/ \E c \in RecipientConns, x \in Messages :
                  Ready(c, x) \/ ListenerChecks(c, x) \/ ListenerForwards(c, x)
             \/ \E c \in RecipientConns, x \in Messages, committed \in BOOLEAN : Ack(c, x, committed)
             \/ \E c \in Conns : Handshake(c) \/ PresenceExpires(c)
      PROVE  FALSE
  BY <1>5 DEF Worker, vars, Change, RedisLoss, SenderDrops, ClientGivesUp, Status, ClientNotice,
     SendSettled, SendAborts, PayloadExpires, DeadlinePasses, SendDisconnected, SendPayload, SendEnds,
     Ready, ListenerChecks, ListenerForwards, Ack, Handshake, PresenceExpires, ReconcileSync,
     Reconcile, ReconcileRow
<1>6. CASE Client
  BY <1>1, <1>2, <1>5, <1>6 DEF Client
<1>. QED
  BY <1>3, <1>4, <1>5, <1>6 DEF Next, Server, Environment

(* Presence and the page's socket begin with the handshake of a fresh UUID,   *)
(* which is never fresh again.                                                *)
LEMMA SocketStep ==
  ASSUME TypeOK, [Next]_vars, NEW c \in Conns
  PROVE  /\ conn[c] # "fresh" => conn'[c] # "fresh"
         /\ c \in live' /\ c \notin live => conn[c] = "fresh"
         /\ c = sconn' /\ c # sconn => conn'[c] # "fresh" /\ sconn = NoConn /\ item' = item /\ wire' = wire
         /\ sconn # NoConn /\ sconn' = NoConn => SenderDrops
<1> USE DEF TypeOK, dbVars, redisVars, socketVars, clientVars
<1> DEFINE Claim ==
      /\ conn[c] # "fresh" => conn'[c] # "fresh"
      /\ c \in live' /\ c \notin live => conn[c] = "fresh"
      /\ c = sconn' /\ c # sconn => conn'[c] # "fresh" /\ sconn = NoConn /\ item' = item /\ wire' = wire
      /\ sconn # NoConn /\ sconn' = NoConn => SenderDrops
<1>1. ASSUME NEW d \in Conns, Handshake(d) PROVE Claim
  BY <1>1, ConnectionsAreDistinct DEF Handshake, Conns
<1>2. ASSUME NEW d \in Conns, NEW clean \in BOOLEAN, SocketEnds(d, clean) PROVE Claim
  BY <1>2 DEF SocketEnds
<1>3. ASSUME \E d \in Conns : PresenceExpires(d) PROVE Claim
  BY <1>3 DEF PresenceExpires
<1>4. CASE SenderDrops
  BY <1>4, ConnectionsAreDistinct DEF SenderDrops, Conns
<1>5. CASE RedisLoss
  BY <1>5 DEF RedisLoss
<1>6. ASSUME \/ Worker \/ UNCHANGED vars \/ Change
             \/ \E m \in Messages : ClientSend(m) \/ ClientReady(m) \/ ClientRetry(m)
                                    \/ ClientGivesUp(m) \/ Status(m)
             \/ \E n \in Notice : ClientNotice(n)
             \/ Server
             \/ \E x \in Messages : PayloadExpires(x) \/ DeadlinePasses(x)
      PROVE  conn' = conn /\ live' = live /\ sconn' = sconn
  BY <1>6 DEF Worker, vars, Change, ClientSend, ClientReady, ClientRetry, ClientGivesUp, Status,
     ClientNotice, Server, Refuse, Offer, Create, SendDuplicate, SendFails, SendStored, SendRecord,
     SendSettled, SendAborts, SendDisconnected, SendPayload, SendEnds, Ready, ListenerChecks,
     ListenerForwards, Ack, PayloadExpires, DeadlinePasses, ReconcileSync, Reconcile, ReconcileRow
<1>. QED
  BY <1>1, <1>2, <1>3, <1>4, <1>5, <1>6 DEF Next, Client, Environment

-----------------------------------------------------------------------------
(***************************************************************************)
(* Memory of an ephemeral message.  E(m): the page sent m as ephemeral.    *)
(***************************************************************************)
E(m) == item[m].mode = "ephemeral"

OfferFrame(f, m) == f \in frames /\ f.kind = "offer" /\ f.msg = m
SendFrame(f, m)  == f \in frames /\ f.kind = "send" /\ f.msg = m
NoOfferFrame(m)  == \A f \in frames : f.msg = m => f.kind = "send"
NoSendFrame(m)   == \A f \in frames : f.msg = m => f.kind = "offer"

Noticed(m, types) == \E n \in wire : n.msg = m /\ n.type \in types

(* Nothing anywhere speaks of a message that was not sent. *)
UnsentIsUnknown ==
  \A m \in Messages : item[m] = NoItem =>
    /\ \A f \in frames : f.msg # m
    /\ ~Noticed(m, {"ready", "delivered", "failed", "error"})
    /\ attempt[m] = NoAttempt /\ row[m] = NoRow

(* Who says ephemeral agrees with the page; who says stored, with the mode. *)
ModesAgree ==
  \A m \in Messages :
    /\ attempt[m] # NoAttempt \/ row[m].mode = "ephemeral" \/ ~NoOfferFrame(m) => E(m)
    /\ item[m].mode = "stored" => mode = "stored"

(* Frames and presence belong to sockets that were opened; a page without a   *)
(* socket waits for no ready.                                                 *)
SocketsWereOpened ==
  /\ \A f \in frames : conn[f.conn] # "fresh"
  /\ sconn # NoConn => conn[sconn] # "fresh"
  /\ sconn = NoConn => \A m \in Messages : item[m].status # "offered"

(* As long as the socket of a frame is present, Redis remembers the attempt   *)
(* that the frame answers: a loss of Redis loses both.                        *)
PresenceKeepsAttempt ==
  \A m \in Messages : E(m) =>
    /\ \A f \in frames : SendFrame(f, m) /\ f.conn \in live => attempt[m] # NoAttempt
    /\ item[m].status = "offered" /\ Noticed(m, {"ready"}) /\ sconn \in live
         => attempt[m] # NoAttempt

MemoryInv ==
  /\ PayloadInv
  /\ UnsentIsUnknown
  /\ ModesAgree
  /\ SocketsWereOpened
  /\ PresenceKeepsAttempt
  /\ EphemeralNeverStored

LEMMA UnsentStep == MemoryInv /\ [Next]_vars => UnsentIsUnknown'
<1> SUFFICES ASSUME MemoryInv, [Next]_vars, NEW m \in Messages, item'[m] = NoItem
             PROVE  /\ \A f \in frames' : f.msg # m
                    /\ \A n \in wire' : n.msg = m => n.type \notin {"ready", "delivered", "failed", "error"}
                    /\ attempt'[m] = NoAttempt /\ row'[m] = NoRow
  BY DEF UnsentIsUnknown, Noticed
<1>1. TypeOK
  BY DEF MemoryInv, PayloadInv
<1>2. item[m] = NoItem
  BY <1>1, ItemIsKept
<1>3. /\ \A f \in frames : f.msg # m
      /\ \A n \in wire : n.msg = m => n.type \notin {"ready", "delivered", "failed", "error"}
      /\ attempt[m] = NoAttempt /\ row[m] = NoRow
  BY <1>2 DEF MemoryInv, UnsentIsUnknown, Noticed
<1>4. between[m] = NoConn
  BY <1>3 DEF MemoryInv, PayloadInv, BetweenIsEphemeral, NoRow
<1>5. ASSUME NEW f \in Frame, f.msg = m, Take(f, "send") \/ Take(f, "offer") PROVE FALSE
  BY <1>3, <1>5 DEF Take
<1>6. attempt'[m] = NoAttempt
  BY <1>1, <1>3, <1>4, <1>5, AttemptStep DEF Offer, Create
<1>7. row'[m] = NoRow
  <2>1. ASSUME NEW f \in Frame, f.msg = m, SendRecord(f, TRUE) \/ SendStored(f) PROVE FALSE
    BY <1>5, <2>1 DEF SendRecord, SendStored, GuardedSend
  <2>2. row[m].status # "pending"
    BY <1>3 DEF NoRow
  <2>. QED
    BY <1>1, <1>3, <2>1, <2>2, RowStep
<1>8. ASSUME NEW f \in frames', f.msg = m PROVE FALSE
  <2>1. f \notin frames
    BY <1>3, <1>8
  <2>2. ClientSend(m) \/ ClientReady(m) \/ ClientRetry(m)
    BY <1>1, <1>8, <2>1, FrameStep
  <2>3. item'[m] # NoItem
    <3>1. CASE ClientSend(m)
      <4>1. \E view \in {"ephemeral", mode} :
              item'[m].status = IF view = "ephemeral" THEN "offered" ELSE "unknown"
        BY <1>1, <3>1 DEF ClientSend, TypeOK
      <4>. QED
        BY <4>1 DEF NoItem
    <3>2. CASE ClientReady(m) \/ ClientRetry(m)
      BY <1>2, <3>2 DEF ClientReady, ClientRetry, NoItem
    <3>. QED
      BY <2>2, <3>1, <3>2
  <2>. QED
    BY <2>3
<1>9. ASSUME NEW n \in wire', n.msg = m, n.type \in {"ready", "delivered", "failed", "error"}
      PROVE  FALSE
  <2>1. n \notin wire /\ n.type # "new"
    BY <1>3, <1>9
  <2>2. row'[m].status = "none" /\ row[m].status = "none"
    BY <1>3, <1>7 DEF NoRow
  <2>3. ASSUME NEW c \in RecipientConns, Ready(c, m) PROVE FALSE
    BY <1>3, <2>3 DEF Ready, ReadyGuard, NoAttempt
  <2>4. ASSUME NEW f \in Frame, f.msg = m, SendFails(f) \/ Refuse(f) PROVE FALSE
    BY <1>5, <2>4 DEF SendFails, Refuse, GuardedSend
  <2>5. ~SendSettled(m) /\ ~SendAborts(m)
    BY <1>4 DEF SendSettled, SendAborts
  <2>6. ~Reconcile(m, TRUE)
    BY <1>3 DEF Reconcile, WaitingAttempt, LivePhases, NoAttempt
  <2>. QED
    BY <1>1, <1>9, <2>1, <2>2, <2>3, <2>4, <2>5, <2>6, WireStep
<1>. QED
  BY <1>6, <1>7, <1>8, <1>9

LEMMA ModesStep == MemoryInv /\ [Next]_vars => ModesAgree'
<1> SUFFICES ASSUME MemoryInv, [Next]_vars, NEW m \in Messages
             PROVE  /\ attempt'[m] # NoAttempt => E(m)'
                    /\ row'[m].mode = "ephemeral" => E(m)'
                    /\ \A f \in frames' : f.msg = m /\ f.kind # "send" => E(m)'
                    /\ item'[m].mode = "stored" => mode' = "stored"
  BY DEF ModesAgree, NoOfferFrame
<1>1. TypeOK
  BY DEF MemoryInv, PayloadInv
<1>2. /\ attempt[m] # NoAttempt => E(m)
      /\ row[m].mode = "ephemeral" => E(m)
      /\ \A f \in frames : f.msg = m /\ f.kind # "send" => E(m)
      /\ item[m].mode = "stored" => mode = "stored"
  BY DEF MemoryInv, ModesAgree, NoOfferFrame
<1>3. E(m) => E(m)'
  BY <1>1, ItemIsKept DEF E, NoItem
<1>4. attempt'[m] # NoAttempt => E(m)
  <2>1. ASSUME NEW f \in Frame, f.msg = m, Offer(f) PROVE E(m)
    BY <1>2, <2>1 DEF Offer, Create, Take
  <2>2. between[m] # NoConn => E(m)
    BY <1>2 DEF MemoryInv, PayloadInv, BetweenIsEphemeral
  <2>. QED
    BY <1>1, <1>2, <2>1, <2>2, AttemptStep
<1>5. row'[m].mode = "ephemeral" => E(m)
  <2>1. CASE row[m] # NoRow
    BY <1>1, <1>2, <2>1, RowIsKept
  <2>2. ASSUME NEW f \in Frame, f.msg = m, SendRecord(f, TRUE) PROVE E(m)
    BY <1>2, <2>2 DEF SendRecord, NoAttempt
  <2>3. ASSUME NEW f \in Frame, f.msg = m, SendStored(f) PROVE row'[m].mode = "stored"
    BY <1>1, <2>3 DEF SendStored, TypeOK, NoRow
  <2>4. row[m] = NoRow => row[m].status # "pending" /\ row[m].mode # "ephemeral"
    BY DEF NoRow
  <2>. QED
    BY <1>1, <2>1, <2>2, <2>3, <2>4, RowStep
<1>6. ASSUME NEW f \in frames', f.msg = m, f.kind # "send" PROVE E(m)'
  <2>1. CASE f \in frames
    BY <1>2, <1>3, <1>6, <2>1
  <2>2. CASE f \notin frames
    <3>1. f.kind = "offer"
      BY <1>1, <1>6, TypeStep DEF TypeOK, Frame
    <3>. QED
      BY <1>1, <1>6, <2>2, <3>1, FrameStep DEF E
  <2>. QED
    BY <2>1, <2>2
<1>7. item'[m].mode = "stored" => mode' = "stored"
  <2>1. CASE ClientSend(m)
    BY <1>1, <2>1 DEF ClientSend, TypeOK, dbVars
  <2>2. CASE item[m].mode = item'[m].mode
    <3>1. mode = "stored" => mode' = "stored"
      BY <1>1 DEF TypeOK, Next, Client, Server, Worker, Environment, vars, dbVars, redisVars,
         clientVars, socketVars, Change, Accept, VoteEnds, Upgrade, Close, ClientSend, ClientReady,
         ClientRetry, ClientGivesUp, Status, ClientNotice, SenderDrops, Refuse, Offer, Create, SendDuplicate,
         SendFails, SendStored, SendRecord, SendSettled, SendAborts, SendDisconnected, SendPayload,
         SendEnds, Ready, ListenerChecks, ListenerForwards, Ack, PayloadExpires, DeadlinePasses,
         ReconcileSync, Reconcile, ReconcileRow, Handshake, PresenceExpires, SocketEnds, RedisLoss
    <3>. QED
      BY <1>2, <2>2, <3>1
  <2>. QED
    BY <1>1, <2>1, <2>2, ItemStep
<1>. QED
  BY <1>3, <1>4, <1>5, <1>6, <1>7

LEMMA SocketsStep == MemoryInv /\ [Next]_vars => SocketsWereOpened'
<1> SUFFICES ASSUME MemoryInv, [Next]_vars PROVE SocketsWereOpened'
  OBVIOUS
<1>1. TypeOK /\ TypeOK'
  BY TypeStep DEF MemoryInv, PayloadInv
<1>2. SocketsWereOpened
  BY DEF MemoryInv
<1>3. ASSUME NEW c \in Conns, conn[c] # "fresh" PROVE conn'[c] # "fresh"
  BY <1>1, <1>3, SocketStep
<1>4. ASSUME NEW f \in frames' PROVE conn'[f.conn] # "fresh"
  <2>1. f.conn \in Conns
    BY <1>1 DEF TypeOK, Frame, Conns
  <2>2. CASE f \in frames
    BY <1>2, <1>3, <2>1, <2>2 DEF SocketsWereOpened
  <2>3. CASE f \notin frames
    <3>1. f.conn = sconn /\ sconn # NoConn
      BY <1>1, <2>3, FrameStep
    <3>. QED
      BY <1>2, <1>3, <2>1, <3>1 DEF SocketsWereOpened
  <2>. QED
    BY <2>2, <2>3
<1>5. ASSUME sconn' # NoConn PROVE conn'[sconn'] # "fresh"
  <2>1. sconn' \in Conns
    BY <1>1, <1>5 DEF TypeOK, Conns
  <2>2. CASE sconn' = sconn
    BY <1>2, <1>3, <1>5, <2>1, <2>2 DEF SocketsWereOpened
  <2>3. CASE sconn' # sconn
    BY <1>1, <2>1, <2>3, SocketStep
  <2>. QED
    BY <2>2, <2>3
<1>6. ASSUME sconn' = NoConn, NEW m \in Messages PROVE item'[m].status # "offered"
  <2>1. CASE sconn = NoConn
    <3>1. item[m].status # "offered"
      BY <1>2, <2>1 DEF SocketsWereOpened
    <3>2. ~ClientSend(m)
      BY <2>1 DEF ClientSend
    <3>. QED
      BY <1>1, <3>1, <3>2, ItemStep
  <2>2. CASE sconn # NoConn
    <3>1. sconn \in Conns
      BY <1>1, <2>2 DEF TypeOK, Conns
    <3>2. SenderDrops
      BY <1>1, <1>6, <2>2, <3>1, SocketStep
    <3>3. CASE item[m].status = "offered"
      <4>1. item[m] \in ItemRecords
        BY <1>1, <3>3, ItemTypes DEF TypeOK, NoItem
      <4>. QED
        BY <3>2, <3>3, <4>1 DEF SenderDrops, ForgetOffersOnClose, ItemRecords
    <3>4. CASE item[m].status # "offered"
      BY <3>2, <3>4 DEF SenderDrops, ForgetOffersOnClose
    <3>. QED
      BY <3>3, <3>4
  <2>. QED
    BY <2>1, <2>2
<1>. QED
  BY <1>4, <1>5, <1>6 DEF SocketsWereOpened

LEMMA PresenceStep == MemoryInv /\ [Next]_vars => PresenceKeepsAttempt'
<1> SUFFICES ASSUME MemoryInv, [Next]_vars, NEW m \in Messages, E(m)', attempt'[m] = NoAttempt
             PROVE  /\ \A f \in frames' : f.kind = "send" /\ f.msg = m => f.conn \notin live'
                    /\ item'[m].status = "offered" /\ sconn' \in live'
                         => \A n \in wire' : n.msg = m => n.type \notin {"ready"}
  BY DEF PresenceKeepsAttempt, SendFrame, Noticed
<1>1. TypeOK /\ TypeOK'
  BY TypeStep DEF MemoryInv, PayloadInv
<1>2. SocketsWereOpened /\ PresenceKeepsAttempt /\ UnsentIsUnknown
  BY DEF MemoryInv
<1>3. CASE RedisLoss
  BY <1>3 DEF RedisLoss
<1>4. CASE attempt[m] = NoAttempt
  <2>1. item[m] # NoItem => E(m)
    BY <1>1, ItemIsKept DEF E
  <2>2. ASSUME NEW c \in Conns, conn[c] # "fresh", c \in live' PROVE c \in live
    BY <1>1, <2>2, SocketStep
  <2>3. ASSUME NEW f \in frames', f.kind = "send", f.msg = m, f.conn \in live' PROVE FALSE
    <3>1. f.conn \in Conns
      BY <1>1 DEF TypeOK, Frame, Conns
    <3>2. CASE f \in frames
      <4>1. f.conn \in live
        BY <1>2, <2>2, <2>3, <3>1, <3>2 DEF SocketsWereOpened
      <4>2. item[m] # NoItem
        BY <1>2, <2>3, <3>2 DEF UnsentIsUnknown
      <4>. QED
        BY <1>2, <1>4, <2>1, <2>3, <3>2, <4>1, <4>2 DEF PresenceKeepsAttempt, SendFrame
    <3>3. CASE f \notin frames
      <4>1. f.conn = sconn /\ sconn # NoConn /\ live' = live
        BY <1>1, <3>3, FrameStep
      <4>2. ClientReady(m)
        <5>1. ~(ClientSend(m) /\ item'[m].mode = "stored")
          BY DEF E
        <5>2. ~ClientRetry(m)
          <6>1. ASSUME ClientRetry(m) PROVE item[m].mode = "stored" /\ item[m] # NoItem
            BY <6>1 DEF ClientRetry, NoItem
          <6>. QED
            BY <2>1, <6>1 DEF E
        <5>. QED
          BY <1>1, <2>3, <3>3, <5>1, <5>2, FrameStep
      <4>3. item[m].status = "offered" /\ Noticed(m, {"ready"}) /\ item[m] # NoItem
        BY <4>2 DEF ClientReady, Noticed, Note, NoItem
      <4>. QED
        BY <1>2, <1>4, <2>1, <2>3, <4>1, <4>3 DEF PresenceKeepsAttempt
    <3>. QED
      BY <3>2, <3>3
  <2>4. ASSUME item'[m].status = "offered", sconn' \in live', NEW n \in wire', n.msg = m, n.type = "ready"
        PROVE  FALSE
    <3>1. sconn' # NoConn /\ sconn' \in Conns
      BY <1>1, <2>4, ConnectionsAreDistinct DEF TypeOK, Conns
    <3>2. CASE n \notin wire
      <4>1. PICK c \in RecipientConns : Ready(c, m)
        BY <1>1, <2>4, <3>2, WireStep
      <4>. QED
        BY <1>4, <4>1 DEF Ready, ReadyGuard, NoAttempt
    <3>3. CASE n \in wire
      <4>1. item[m] # NoItem /\ Noticed(m, {"ready"})
        BY <1>2, <2>4, <3>3 DEF UnsentIsUnknown, Noticed
      <4>2. item'[m] = item[m]
        BY <1>1, <2>4, <4>1, ItemStep
      <4>3. sconn # NoConn
        BY <1>2, <2>4, <4>2 DEF SocketsWereOpened
      <4>4. sconn' = sconn
        BY <1>1, <3>1, <4>3, SocketStep
      <4>5. sconn \in live
        BY <1>2, <2>2, <2>4, <3>1, <4>3, <4>4 DEF SocketsWereOpened
      <4>. QED
        BY <1>2, <1>4, <2>1, <2>4, <4>1, <4>2, <4>5 DEF PresenceKeepsAttempt
    <3>. QED
      BY <3>2, <3>3
  <2>. QED
    BY <2>3, <2>4
<1>. QED
  BY <1>1, <1>3, <1>4, AttemptStep

LEMMA NeverStoredStep == MemoryInv /\ [Next]_vars => EphemeralNeverStored'
<1> SUFFICES ASSUME MemoryInv, [Next]_vars, NEW m \in Messages, E(m)'
             PROVE  row'[m].mode # "stored"
  BY DEF EphemeralNeverStored, E
<1>1. TypeOK
  BY DEF MemoryInv, PayloadInv
<1>2. CASE item[m] = NoItem
  <2>1. row[m] = NoRow /\ \A f \in frames : f.msg # m
    BY <1>2 DEF MemoryInv, UnsentIsUnknown
  <2>2. ASSUME NEW f \in Frame, f.msg = m, SendRecord(f, TRUE) \/ SendStored(f) PROVE FALSE
    BY <2>1, <2>2 DEF SendRecord, SendStored, GuardedSend, Take
  <2>3. row[m].status # "pending" /\ row[m].mode # "stored"
    BY <2>1 DEF NoRow
  <2>. QED
    BY <1>1, <2>2, <2>3, RowStep
<1>3. CASE item[m] # NoItem
  <2>1. E(m) /\ row[m].mode # "stored"
    BY <1>1, <1>3, ItemIsKept DEF E, MemoryInv, EphemeralNeverStored
  <2>2. ASSUME NEW f \in Frame, f.msg = m, SendStored(f) PROVE FALSE
    <3>1. f \in frames /\ f.kind = "send" /\ f.conn \in live /\ attempt[m] = NoAttempt
      BY <2>2 DEF SendStored, GuardedSend, Take, Connected
    <3>. QED
      BY <2>1, <2>2, <3>1 DEF MemoryInv, PresenceKeepsAttempt, SendFrame
  <2>3. ASSUME NEW f \in Frame, f.msg = m, SendRecord(f, TRUE) PROVE row'[m].mode = "ephemeral"
    BY <1>1, <2>3 DEF SendRecord, Recorded, TypeOK
  <2>. QED
    BY <1>1, <2>1, <2>2, <2>3, RowStep
<1>. QED
  BY <1>2, <1>3

LEMMA MemoryInit == Init => MemoryInv
BY TypeInit DEF Init, MemoryInv, PayloadInv, BetweenIsEphemeral, CiphertextOnlyWhileWaiting,
   UnsentIsUnknown, Noticed, ModesAgree, NoOfferFrame, E, SocketsWereOpened, PresenceKeepsAttempt,
   SendFrame, EphemeralNeverStored, NoItem, NoRow, Conns

LEMMA MemoryStep == MemoryInv /\ [Next]_vars => MemoryInv'
BY PayloadInvStep, UnsentStep, ModesStep, SocketsStep, PresenceStep, NeverStoredStep DEF MemoryInv

(* An ephemeral message is never recorded as a stored one, although Redis may *)
(* forget that it was ephemeral at any moment: presence and the attempt are   *)
(* read together, so whoever lost one lost the other.                         *)
THEOREM EphemeralIsNeverStored == Spec => []EphemeralNeverStored
<1>1. MemoryInv => EphemeralNeverStored
  BY DEF MemoryInv
<1>. QED
  BY <1>1, MemoryInit, MemoryStep, PTL DEF Spec

-----------------------------------------------------------------------------
(* What the sender is told and shown is true, and the protocol implements      *)
(* DeliveryPromise.                                                            *)

(* One offer and one send are all that an ephemeral message ever has, and     *)
(* each comes after the other is used up.                                     *)
FramesAreSentOnce ==
  \A m \in Messages : E(m) =>
    /\ \A f, g \in frames : f.msg = m /\ g.msg = m => f = g
    /\ item[m].status = "offered" => NoSendFrame(m)
    /\ row[m] # NoRow => NoSendFrame(m) /\ item[m].status # "offered"
    /\ (\/ attempt[m] # NoAttempt
        \/ row[m] # NoRow
        \/ Noticed(m, {"ready", "delivered", "failed", "error"})) => NoOfferFrame(m)

(* Between its two transactions a send has not put the ciphertext in Redis,   *)
(* so no ack can settle it.                                                   *)
CommitPrecedesPayload ==
  \A m \in Messages : between[m] # NoConn =>
    ~payload[m] /\ row[m].mode = "ephemeral" /\ row[m].status # "delivered"

(* A message that can no longer be delivered: settled, overdue, or not        *)
(* recorded and without the frame or the attempt that could record it.        *)
Doomed(m) ==
  \/ row[m].status \in {"failed", "expired"}
  \/ row[m].status = "pending" /\ row[m].due
  \/ row[m] = NoRow /\ item[m].status # "offered" /\ NoSendFrame(m)
  \/ row[m] = NoRow /\ attempt[m].phase \in {"absent", "failed"} /\ NoOfferFrame(m)

GivenUp(m) == Noticed(m, {"failed", "error"}) \/ item[m].status \in {"failed", "expired"}

FailureIsFinal == \A m \in Messages : E(m) /\ GivenUp(m) => Doomed(m)

DeliveryIsCommitted ==
  \A m \in Messages :
    Noticed(m, {"delivered"}) \/ item[m].status = "delivered" => row[m].status = "delivered"

DeliveryInv ==
  /\ MemoryInv
  /\ FramesAreSentOnce
  /\ CommitPrecedesPayload
  /\ FailureIsFinal
  /\ DeliveryIsCommitted

-----------------------------------------------------------------------------
(* The frames of an ephemeral message.                                        *)

LEMMA FramesStep == DeliveryInv /\ [Next]_vars => FramesAreSentOnce'
<1> SUFFICES ASSUME DeliveryInv, [Next]_vars, NEW m \in Messages, E(m)'
             PROVE  /\ \A f, g \in frames' : f.msg = m /\ g.msg = m => f = g
                    /\ item'[m].status = "offered" => NoSendFrame(m)'
                    /\ row'[m] # NoRow => NoSendFrame(m)' /\ item'[m].status # "offered"
                    /\ (\/ attempt'[m] # NoAttempt
                        \/ row'[m] # NoRow
                        \/ Noticed(m, {"ready", "delivered", "failed", "error"})') => NoOfferFrame(m)'
  BY DEF FramesAreSentOnce
<1>1. TypeOK /\ TypeOK' /\ MemoryInv
  BY TypeStep DEF DeliveryInv, MemoryInv, PayloadInv
<1>2. CASE item[m] = NoItem
  <2>1. /\ \A f \in frames : f.msg # m
        /\ ~Noticed(m, {"ready", "delivered", "failed", "error"})
        /\ attempt[m] = NoAttempt /\ row[m] = NoRow
    BY <1>1, <1>2 DEF MemoryInv, UnsentIsUnknown
  <2>2. ClientSend(m)
    <3>1. item'[m] # item[m]
      BY <1>2 DEF E, NoItem
    <3>. QED
      BY <1>1, <1>2, <3>1, ItemStep
  <2>3. attempt' = attempt /\ row' = row /\ wire' = wire
    BY <2>2 DEF ClientSend, dbVars, redisVars
  <2>4. ASSUME NEW f \in frames', f.msg = m PROVE f = [kind |-> "offer", msg |-> m, conn |-> sconn]
    BY <1>1, <2>1, <2>2, <2>4 DEF ClientSend, E, TypeOK
  <2>. QED
    BY <2>1, <2>3, <2>4 DEF NoSendFrame, Noticed
<1>3. CASE item[m] # NoItem
  <2>1. E(m)
    BY <1>1, <1>3, ItemIsKept DEF E
  <2>2. /\ \A f, g \in frames : f.msg = m /\ g.msg = m => f = g
        /\ item[m].status = "offered" => NoSendFrame(m)
        /\ row[m] # NoRow => NoSendFrame(m) /\ item[m].status # "offered"
        /\ (\/ attempt[m] # NoAttempt
            \/ row[m] # NoRow
            \/ Noticed(m, {"ready", "delivered", "failed", "error"})) => NoOfferFrame(m)
    BY <2>1 DEF DeliveryInv, FramesAreSentOnce
  <2>3. item'[m].status = "offered" => item'[m] = item[m]
    BY <1>1, <1>3, ItemStep
  (* A new frame is the answer to a ready. *)
  <2>4. ASSUME NEW f \in frames', f \notin frames, f.msg = m
        PROVE  f.kind = "send" /\ f.conn = sconn /\ ClientReady(m)
    <3>1. ~ClientSend(m)
      BY <1>3 DEF ClientSend
    <3>2. ~ClientRetry(m)
      BY <2>1 DEF ClientRetry, E
    <3>. QED
      BY <1>1, <2>4, <3>1, <3>2, FrameStep
  <2>5. ASSUME ClientReady(m)
        PROVE  /\ \A f \in frames : f.msg # m
               /\ item'[m].status # "offered" /\ row[m] = NoRow /\ row' = row
    <3>1. item[m].status = "offered" /\ Noticed(m, {"ready", "delivered", "failed", "error"})
      BY <2>5 DEF ClientReady, Noticed, Note
    <3>2. item[m] \in ItemRecords
      BY <1>1, <1>3 DEF TypeOK, Item
    <3>3. item'[m].status = "unknown"
      BY <1>1, <2>5, <3>2 DEF ClientReady, TypeOK, ItemRecords
    <3>4. NoSendFrame(m) /\ NoOfferFrame(m) /\ row[m] = NoRow
      BY <2>2, <3>1
    <3>. QED
      BY <2>5, <3>3, <3>4 DEF NoSendFrame, NoOfferFrame, ClientReady, dbVars
  <2>6. ASSUME NEW f \in frames', NEW g \in frames', f.msg = m, g.msg = m PROVE f = g
    <3>1. ClientReady(m) => f \notin frames /\ g \notin frames
      BY <2>5, <2>6
    <3>2. f \in Frame /\ g \in Frame
      BY <1>1 DEF TypeOK
    <3>3. CASE ClientReady(m)
      BY <2>4, <2>6, <3>1, <3>2, <3>3 DEF Frame
    <3>4. CASE ~ClientReady(m)
      BY <2>2, <2>4, <2>6, <3>4
    <3>. QED
      BY <3>3, <3>4
  <2>7. item'[m].status = "offered" => NoSendFrame(m)'
    <3>1. ASSUME item'[m].status = "offered", NEW f \in frames', f.msg = m PROVE f \in frames
      BY <2>4, <2>5, <3>1
    <3>. QED
      BY <2>2, <2>3, <3>1 DEF NoSendFrame
  (* A frame the server takes is the last one. *)
  <2>8. ASSUME NEW f \in Frame, f.msg = m, Take(f, "send") \/ Take(f, "offer")
        PROVE  \A g \in frames' : g.msg # m
    <3>1. f \in frames /\ frames' = frames \ {f}
      BY <2>8 DEF Take
    <3>. QED
      BY <2>2, <2>8, <3>1
  <2>9. row'[m] # NoRow => NoSendFrame(m)' /\ item'[m].status # "offered"
    <3>1. CASE row[m] # NoRow
      <4>1. ~ClientReady(m)
        BY <2>5, <3>1
      <4>. QED
        BY <2>2, <2>3, <2>4, <3>1, <4>1 DEF NoSendFrame
    <3>2. CASE row[m] = NoRow /\ row'[m] # NoRow
      <4>1. row[m].status # "pending"
        BY <3>2 DEF NoRow
      <4>2. PICK f \in Frame : f.msg = m /\ (SendRecord(f, TRUE) \/ SendStored(f))
        BY <1>1, <3>2, <4>1, RowStep
      <4>3. Take(f, "send")
        BY <4>2 DEF SendRecord, SendStored, GuardedSend
      <4>4. \A g \in frames' : g.msg # m
        BY <2>8, <4>2, <4>3
      <4>5. item[m].status # "offered"
        BY <2>2, <4>2, <4>3 DEF Take, NoSendFrame
      <4>. QED
        BY <2>3, <4>4, <4>5 DEF NoSendFrame
    <3>. QED
      BY <3>1, <3>2
  <2>10. NoOfferFrame(m) => NoOfferFrame(m)'
    BY <2>4 DEF NoOfferFrame
  <2>11. row'[m] # NoRow => NoOfferFrame(m)'
    <3>1. CASE row[m] # NoRow
      BY <2>2, <2>10, <3>1
    <3>2. CASE row[m] = NoRow /\ row'[m] # NoRow
      <4>1. row[m].status # "pending"
        BY <3>2 DEF NoRow
      <4>2. PICK f \in Frame : f.msg = m /\ (SendRecord(f, TRUE) \/ SendStored(f))
        BY <1>1, <3>2, <4>1, RowStep
      <4>3. Take(f, "send")
        BY <4>2 DEF SendRecord, SendStored, GuardedSend
      <4>. QED
        BY <2>8, <4>2, <4>3 DEF NoOfferFrame
    <3>. QED
      BY <3>1, <3>2
  <2>12. attempt'[m] # NoAttempt => NoOfferFrame(m)'
    <3>1. ASSUME NEW f \in Frame, f.msg = m, Offer(f) PROVE NoOfferFrame(m)'
      BY <2>8, <3>1 DEF Offer, Create, NoOfferFrame
    <3>2. between[m] # NoConn => row[m] # NoRow
      BY <1>1 DEF MemoryInv, PayloadInv, BetweenIsEphemeral, NoRow
    <3>. QED
      BY <1>1, <2>2, <2>10, <3>1, <3>2, AttemptStep
  <2>13. Noticed(m, {"ready", "delivered", "failed", "error"})' => NoOfferFrame(m)'
    <3> SUFFICES ASSUME NEW n \in wire', n.msg = m, n.type \in {"ready", "delivered", "failed", "error"}
                 PROVE  NoOfferFrame(m)'
      BY DEF Noticed
    <3>1. CASE n \in wire
      BY <2>2, <2>10, <3>1 DEF Noticed
    <3>2. ASSUME NEW c \in RecipientConns, Ready(c, m) PROVE attempt[m] # NoAttempt
      BY <3>2 DEF Ready, ReadyGuard, NoAttempt
    <3>3. row'[m].status \in Terminal => row'[m] # NoRow
      BY DEF Terminal, NoRow
    <3>4. ASSUME NEW f \in Frame, f.msg = m, SendFails(f) \/ Refuse(f) PROVE NoOfferFrame(m)'
      BY <2>8, <3>4 DEF SendFails, Refuse, GuardedSend, NoOfferFrame
    <3>5. SendSettled(m) \/ SendAborts(m) => row[m] # NoRow
      BY <1>1 DEF MemoryInv, PayloadInv, BetweenIsEphemeral, NoRow, SendSettled, SendAborts
    <3>6. Reconcile(m, TRUE) => attempt[m] # NoAttempt
      BY DEF Reconcile, WaitingAttempt, LivePhases, NoAttempt
    <3>7. CASE n \notin wire
      BY <1>1, <2>2, <2>10, <2>11, <3>2, <3>3, <3>4, <3>5, <3>6, <3>7, WireStep DEF Terminal
    <3>. QED
      BY <3>1, <3>7
  <2>. QED
    BY <2>6, <2>7, <2>9, <2>11, <2>12, <2>13
<1>. QED
  BY <1>2, <1>3

LEMMA CommitStep == DeliveryInv /\ [Next]_vars => CommitPrecedesPayload'
<1> SUFFICES ASSUME DeliveryInv, [Next]_vars, NEW m \in Messages, between'[m] # NoConn
             PROVE  ~payload'[m] /\ row'[m].mode = "ephemeral" /\ row'[m].status # "delivered"
  BY DEF CommitPrecedesPayload
<1>1. TypeOK /\ PayloadInv
  BY DEF DeliveryInv, MemoryInv, PayloadInv
<1>2. ASSUME NEW f \in Frame, f.msg = m, SendRecord(f, TRUE)
      PROVE  ~payload'[m] /\ row'[m].mode = "ephemeral" /\ row'[m].status = "pending"
  <2>1. row[m] = NoRow
    BY <1>2 DEF SendRecord, GuardedSend
  <2>2. ~payload[m]
    BY <1>1, <2>1 DEF PayloadInv, CiphertextOnlyWhileWaiting, NoRow
  <2>3. ~payload'[m]
    BY <1>1, <1>2, <2>2 DEF SendRecord, Save, TypeOK
  <2>. QED
    BY <1>1, <1>2, <2>3 DEF SendRecord, Recorded, TypeOK
<1>3. CASE between[m] # NoConn
  <2>1. ~payload[m] /\ row[m].mode = "ephemeral" /\ row[m].status # "delivered" /\ row[m] # NoRow
    BY <1>3 DEF DeliveryInv, CommitPrecedesPayload, NoRow
  <2>2. ASSUME NEW committed \in BOOLEAN, SendPayload(m, committed) PROVE FALSE
    BY <1>1, <2>2 DEF SendPayload, SendEnds, TypeOK
  <2>3. ASSUME NEW c \in RecipientConns, row[m].status = "pending", Ack(c, m, TRUE) PROVE FALSE
    BY <2>1, <2>3 DEF Ack, AckGuard
  <2>4. ~payload'[m]
    BY <1>1, <2>1, <2>2, PayloadAppears
  <2>. QED
    BY <1>1, <2>1, <2>3, <2>4, RowStep
<1>. QED
  BY <1>1, <1>2, <1>3, BetweenStep

-----------------------------------------------------------------------------
(* What the page shows, and what can no longer happen.                        *)

(* An outcome on the page comes from a notice, its timer, its socket or a poll.*)
LEMMA ItemSettles ==
  ASSUME TypeOK, [Next]_vars, NEW m \in Messages,
         item'[m].status \in Terminal, item[m].status # item'[m].status
  PROVE  \/ /\ \E n \in wire : n.msg = m /\ n.type \in {"delivered", "failed", "error"}
                                /\ item'[m].status = IF n.type = "delivered" THEN "delivered" ELSE "failed"
            /\ UNCHANGED <<row, frames>>
         \/ /\ item[m].status = "offered" /\ item'[m].status \in {"failed", "expired"}
            /\ UNCHANGED <<row, frames>>
         \/ item'[m].status = row'[m].status
<1> USE DEF TypeOK, dbVars, redisVars, socketVars, clientVars
<1> DEFINE Told == \E n \in wire : n.msg = m /\ n.type \in {"delivered", "failed", "error"}
                                  /\ item'[m].status = IF n.type = "delivered" THEN "delivered" ELSE "failed"
           Lost == item[m].status = "offered" /\ item'[m].status \in {"failed", "expired"}
<1>1. ASSUME NEW x \in Messages, NEW s,
             item' = [item EXCEPT ![x].status = s], item[x] # NoItem
      PROVE  x = m /\ item'[m].status = s
  <2>1. x = m
    BY <1>1
  <2>2. item[m] \in ItemRecords
    BY <1>1, <2>1 DEF Item
  <2>. QED
    BY <1>1, <2>1, <2>2 DEF ItemRecords
<1>2. ASSUME NEW n \in Notice, ClientNotice(n) PROVE Told /\ UNCHANGED <<row, frames>>
  <2>1. n.msg \in Messages /\ item[n.msg] # NoItem
    BY <1>2 DEF ClientNotice, Notice
  <2>2. CASE n.type # "error"
    BY <1>1, <1>2, <2>1, <2>2 DEF ClientNotice
  <2>3. CASE n.type = "error" /\ item[n.msg].mode = "ephemeral"
    BY <1>1, <1>2, <2>1, <2>3 DEF ClientNotice
  <2>4. CASE n.type = "error" /\ item[n.msg].mode # "ephemeral"
    <3>1. item' = [item EXCEPT ![n.msg].status = "unknown"]
      BY <1>2, <2>4 DEF ClientNotice
    <3>2. item'[m].status = "unknown"
      BY <1>1, <2>1, <3>1
    <3>. QED
      BY <3>2 DEF Terminal
  <2>. QED
    BY <2>2, <2>3, <2>4
<1>3. ASSUME NEW x \in Messages, ClientGivesUp(x) PROVE Lost /\ UNCHANGED <<row, frames>>
  <2>1. item[x] # NoItem
    BY <1>3 DEF ClientGivesUp, NoItem
  <2>2. x = m /\ item'[m].status = "expired"
    BY <1>1, <1>3, <2>1 DEF ClientGivesUp
  <2>. QED
    BY <1>3, <2>2 DEF ClientGivesUp
<1>4. CASE SenderDrops
  <2>1. item[m].status = "offered" /\ item'[m] = [item[m] EXCEPT !.status = "failed"]
    BY <1>4 DEF SenderDrops, ForgetOffersOnClose
  <2>2. item[m] \in ItemRecords
    BY <2>1, ItemTypes DEF NoItem
  <2>. QED
    BY <1>4, <2>1, <2>2 DEF SenderDrops, ItemRecords
<1>5. ASSUME NEW x \in Messages, Status(x) PROVE item'[m].status = row'[m].status
  <2>1. item[x] # NoItem
    BY <1>5 DEF Status, NoItem
  <2>2. x = m /\ item'[m].status = row'[x].status
    BY <1>1, <1>5, <2>1 DEF Status
  <2>. QED
    BY <2>2
<1>6. ASSUME NEW x \in Messages, ClientReady(x) \/ ClientRetry(x) PROVE FALSE
  <2>1. item[x] # NoItem
    BY <1>6 DEF ClientReady, ClientRetry, NoItem
  <2>2. item'[m].status = "unknown"
    BY <1>1, <1>6, <2>1 DEF ClientReady, ClientRetry
  <2>. QED
    BY <2>2 DEF Terminal
<1>7. ASSUME NEW x \in Messages, ClientSend(x) PROVE FALSE
  <2>1. x = m
    BY <1>7 DEF ClientSend
  <2>2. item'[m].status \in {"offered", "unknown"}
    BY <1>7, <2>1 DEF ClientSend
  <2>. QED
    BY <2>2 DEF Terminal
<1>8. ASSUME Server \/ Worker \/ Environment \/ UNCHANGED vars PROVE FALSE
  BY <1>8 DEF Server, Worker, Environment, vars, Change, Refuse, Offer, Create, SendDuplicate,
     SendFails, SendStored, SendRecord, SendSettled, SendAborts, SendDisconnected, SendPayload,
     SendEnds, Ready, ListenerChecks, ListenerForwards, Ack, PayloadExpires, DeadlinePasses,
     ReconcileSync, Reconcile, ReconcileRow, Handshake, PresenceExpires, SocketEnds, RedisLoss
<1>. QED
  BY <1>2, <1>3, <1>4, <1>5, <1>6, <1>7, <1>8 DEF Next, Client

(* An attempt that is absent or failed comes alive only by an offer or by the *)
(* second transaction of a recorded send.                                     *)
LEMMA AttemptRevives ==
  ASSUME TypeOK, [Next]_vars, NEW m \in Messages, attempt[m].phase \in {"absent", "failed"},
         attempt'[m].phase \notin {"absent", "failed"}, row[m] = NoRow, between[m] = NoConn
  PROVE  \E f \in Frame : f.msg = m /\ Take(f, "offer")
<1> USE DEF TypeOK, dbVars, redisVars, socketVars, clientVars
<1>1. ASSUME NEW x \in Messages, NEW phase, NEW c, NEW due, Save(x, phase, c, due)
      PROVE  x = m
  BY <1>1 DEF Save
<1>2. ASSUME NEW f \in Frame, NEW committed \in BOOLEAN, SendRecord(f, committed) PROVE FALSE
  <2>1. f.msg \in Messages /\ attempt[f.msg].phase = "ready"
    BY <1>2 DEF SendRecord, Frame
  <2>2. f.msg = m
    BY <1>1, <1>2, <2>1 DEF SendRecord
  <2>. QED
    BY <2>1, <2>2
<1>3. ASSUME NEW x \in Messages, NEW committed \in BOOLEAN,
             SendDisconnected(x, committed) \/ SendPayload(x, committed)
      PROVE  FALSE
  <2>1. x = m
    BY <1>1, <1>3 DEF SendDisconnected, SendPayload
  <2>. QED
    BY <1>3, <2>1 DEF SendDisconnected, SendPayload
<1>4. ASSUME NEW x \in Messages, NEW committed \in BOOLEAN,
             ReconcileSync(x) \/ Reconcile(x, committed)
      PROVE  FALSE
  <2>1. x = m
    BY <1>1, <1>4 DEF ReconcileSync, Reconcile, Cancel
  <2>. QED
    BY <1>4, <2>1 DEF ReconcileSync, Reconcile, WaitingAttempt, LivePhases
<1>5. ASSUME NEW c \in RecipientConns, NEW x \in Messages, NEW committed \in BOOLEAN,
             Ack(c, x, committed)
      PROVE  FALSE
  <2>1. row[x].mode = "ephemeral"
    BY <1>5 DEF Ack
  <2>2. x = m
    BY <1>1, <1>5, <2>1 DEF Ack
  <2>. QED
    BY <2>1, <2>2 DEF NoRow
<1>6. ASSUME NEW c \in RecipientConns, NEW x \in Messages, Ready(c, x) PROVE FALSE
  <2>1. x = m
    BY <1>6 DEF Ready
  <2>. QED
    BY <1>6, <2>1 DEF Ready, ReadyGuard
<1>7. ASSUME NEW x \in Messages, DeadlinePasses(x) PROVE FALSE
  <2>1. x = m /\ WaitingAttempt(m)
    BY <1>7 DEF DeadlinePasses
  <2>. QED
    BY <2>1 DEF WaitingAttempt, LivePhases
<1>8. ASSUME NEW f \in Frame, Offer(f) PROVE f.msg = m /\ Take(f, "offer")
  BY <1>8 DEF Offer, Create, Frame
<1>9. ASSUME \/ Client \/ UNCHANGED vars \/ Change
             \/ \E f \in Frame : Refuse(f) \/ SendDuplicate(f) \/ SendFails(f) \/ SendStored(f)
             \/ \E x \in Messages : SendSettled(x) \/ SendAborts(x) \/ PayloadExpires(x)
             \/ \E x \in Messages, committed \in BOOLEAN : ReconcileRow(x, committed)
             \/ \E c \in RecipientConns, x \in Messages : ListenerChecks(c, x) \/ ListenerForwards(c, x)
             \/ \E c \in Conns : Handshake(c) \/ PresenceExpires(c)
             \/ \E c \in Conns, clean \in BOOLEAN : SocketEnds(c, clean)
      PROVE  FALSE
  BY <1>9 DEF Client, vars, Change, ClientSend, ClientReady, ClientRetry, ClientGivesUp, Status,
     ClientNotice, SenderDrops, Refuse, SendDuplicate, SendFails, SendStored, SendSettled, SendAborts,
     PayloadExpires, ReconcileRow, ListenerChecks, ListenerForwards, Handshake, PresenceExpires,
     SocketEnds
<1>10. CASE RedisLoss
  BY <1>10 DEF RedisLoss, NoAttempt
<1>11. CASE Server
  BY <1>2, <1>3, <1>5, <1>6, <1>8, <1>9, <1>11 DEF Server
<1>. QED
  BY <1>4, <1>7, <1>9, <1>10, <1>11 DEF Next, Worker, Environment

(* Doomed for good: neither a frame, nor an attempt, nor an ack can save it.  *)
LEMMA DoomedStays ==
  ASSUME DeliveryInv, [Next]_vars, NEW m \in Messages, E(m), Doomed(m)
  PROVE  Doomed(m)'
<1>1. TypeOK /\ TypeOK' /\ MemoryInv /\ EphemeralNeverStored'
  BY TypeStep, NeverStoredStep DEF DeliveryInv, MemoryInv, PayloadInv
<1>2. item[m] # NoItem /\ E(m)'
  <2>1. item[m] # NoItem
    BY DEF E, NoItem
  <2>. QED
    BY <1>1, <2>1, ItemIsKept DEF E
<1>3. CASE row[m].status \in {"failed", "expired"}
  <2>1. row[m].status # "pending" /\ row[m] # NoRow
    BY <1>3 DEF NoRow
  <2>2. row'[m] = row[m]
    BY <1>1, <2>1, RowStep
  <2>. QED
    BY <1>3, <2>2 DEF Doomed
<1>4. CASE row[m].status = "pending" /\ row[m].due
  <2>1. row[m] # NoRow /\ row[m].mode # "stored"
    BY <1>1, <1>4 DEF NoRow, MemoryInv, EphemeralNeverStored, E
  <2>2. ASSUME NEW c \in RecipientConns, Ack(c, m, TRUE) PROVE FALSE
    BY <1>4, <2>1, <2>2 DEF Ack, AckGuard
  <2>. QED
    BY <1>1, <1>4, <2>1, <2>2, RowStep DEF Doomed
<1>5. CASE row[m] = NoRow
  <2>1. row[m].status # "pending" /\ between[m] = NoConn
    BY <1>1, <1>5 DEF MemoryInv, PayloadInv, BetweenIsEphemeral, NoRow
  <2>2. ASSUME NEW f \in Frame, f.msg = m, SendStored(f) PROVE FALSE
    BY <1>1, <1>2, <2>2 DEF SendStored, NoRow, EphemeralNeverStored, E, TypeOK
  <2>3. ASSUME NEW f \in frames', f \notin frames, f.msg = m
        PROVE  f.kind = "send" /\ item[m].status = "offered"
    <3>1. ~ClientSend(m) /\ ~ClientRetry(m)
      BY <1>2 DEF ClientSend, ClientRetry, E
    <3>2. ClientReady(m) /\ f.kind = "send"
      BY <1>1, <2>3, <3>1, FrameStep
    <3>. QED
      BY <3>2 DEF ClientReady
  <2>4. CASE item[m].status # "offered" /\ NoSendFrame(m)
    <3>1. ASSUME NEW f \in Frame, f.msg = m, SendRecord(f, TRUE) PROVE FALSE
      BY <2>4, <3>1 DEF SendRecord, GuardedSend, Take, NoSendFrame
    <3>2. row'[m] = NoRow
      BY <1>1, <1>5, <2>1, <2>2, <3>1, RowStep
    <3>3. item'[m].status # "offered"
      BY <1>1, <1>2, <2>4, ItemStep
    <3>4. NoSendFrame(m)'
      BY <2>3, <2>4 DEF NoSendFrame
    <3>. QED
      BY <3>2, <3>3, <3>4 DEF Doomed
  <2>5. CASE attempt[m].phase \in {"absent", "failed"} /\ NoOfferFrame(m)
    <3>1. ASSUME NEW f \in Frame, f.msg = m, SendRecord(f, TRUE) PROVE FALSE
      BY <2>5, <3>1 DEF SendRecord
    <3>2. row'[m] = NoRow
      BY <1>1, <1>5, <2>1, <2>2, <3>1, RowStep
    <3>3. NoOfferFrame(m)'
      BY <2>3, <2>5 DEF NoOfferFrame
    <3>4. ASSUME NEW f \in Frame, f.msg = m, Take(f, "offer") PROVE FALSE
      BY <2>5, <3>4 DEF Take, NoOfferFrame
    <3>5. attempt'[m].phase \in {"absent", "failed"}
      BY <1>1, <1>5, <2>1, <2>5, <3>4, AttemptRevives
    <3>. QED
      BY <3>2, <3>3, <3>5 DEF Doomed
  <2>6. row[m].status \notin {"failed", "expired", "pending"}
    BY <1>5 DEF NoRow
  <2>. QED
    BY <2>4, <2>5, <2>6 DEF Doomed
<1>. QED
  BY <1>3, <1>4, <1>5 DEF Doomed

LEMMA FailureStep == DeliveryInv /\ [Next]_vars => FailureIsFinal'
<1> SUFFICES ASSUME DeliveryInv, [Next]_vars, NEW m \in Messages, E(m)', GivenUp(m)'
             PROVE  Doomed(m)'
  BY DEF FailureIsFinal
<1>1. TypeOK /\ TypeOK' /\ MemoryInv
  BY TypeStep DEF DeliveryInv, MemoryInv, PayloadInv
<1>2. CASE item[m] = NoItem
  <2>1. ClientSend(m)
    <3>1. item'[m] # item[m]
      BY <1>2 DEF E, NoItem
    <3>. QED
      BY <1>1, <1>2, <3>1, ItemStep
  <2>2. wire' = wire /\ ~Noticed(m, {"failed", "error"})
    BY <1>1, <1>2, <2>1 DEF ClientSend, MemoryInv, UnsentIsUnknown, Noticed
  <2>3. item'[m].status \in {"offered", "unknown"}
    BY <1>1, <2>1 DEF ClientSend, TypeOK
  <2>. QED
    BY <2>2, <2>3 DEF GivenUp, Noticed
<1>3. CASE item[m] # NoItem
  <2>1. E(m)
    BY <1>1, <1>3, ItemIsKept DEF E
  <2>2. GivenUp(m) => Doomed(m)'
    BY <2>1, DoomedStays DEF DeliveryInv, FailureIsFinal
  <2>3. /\ \A f, g \in frames : f.msg = m /\ g.msg = m => f = g
        /\ item[m].status = "offered" => NoSendFrame(m)
        /\ row[m] # NoRow => NoSendFrame(m) /\ item[m].status # "offered"
        /\ attempt[m] # NoAttempt \/ row[m] # NoRow => NoOfferFrame(m)
    BY <2>1 DEF DeliveryInv, FramesAreSentOnce
  <2>4. item'[m].status = "offered" => item'[m] = item[m]
    BY <1>1, <1>3, ItemStep
  <2>5. between[m] # NoConn => row[m].mode = "ephemeral" /\ row[m].status \in {"pending", "failed", "expired"}
    <3>1. row[m] \in Row
      BY <1>1 DEF TypeOK
    <3>. QED
      BY <3>1 DEF DeliveryInv, CommitPrecedesPayload, Row, RowRecords, NoRow, Terminal
  (* The page gives the message up. *)
  <2>6. CASE item'[m].status \in {"failed", "expired"} /\ ~GivenUp(m)
    <3>1. item'[m].status \in Terminal /\ item[m].status # item'[m].status
      BY <2>6 DEF GivenUp, Terminal
    <3>2. CASE item'[m].status = row'[m].status
      BY <2>6, <3>2 DEF Doomed
    <3>3. CASE /\ \E n \in wire : n.msg = m /\ n.type \in {"delivered", "failed", "error"}
                                /\ item'[m].status = IF n.type = "delivered" THEN "delivered" ELSE "failed"
      BY <2>6, <3>3 DEF GivenUp, Noticed
    <3>4. CASE item[m].status = "offered" /\ UNCHANGED <<row, frames>>
      <4>1. row'[m] = NoRow /\ NoSendFrame(m)'
        BY <2>3, <3>4 DEF NoSendFrame
      <4>. QED
        BY <2>6, <4>1 DEF Doomed
    <3>. QED
      BY <1>1, <3>1, <3>2, <3>3, <3>4, ItemSettles
  (* The server does. *)
  <2>7. ASSUME NEW n \in wire', n \notin wire, n.msg = m, n.type \in {"failed", "error"}
        PROVE  Doomed(m)'
    <3>1. CASE row'[m].status \in {"failed", "expired"}
      BY <3>1 DEF Doomed
    <3>2. ASSUME NEW f \in Frame, f.msg = m, SendFails(f) \/ Refuse(f) PROVE Doomed(m)'
      <4>1. f \in frames /\ f.kind \in {"send", "offer"} /\ frames' = frames \ {f}
            /\ row' = row /\ attempt' = attempt /\ item' = item
        BY <3>2 DEF SendFails, Refuse, GuardedSend, Take, dbVars, redisVars, clientVars
      <4>2. \A g \in frames' : g.msg # m
        BY <2>3, <3>2, <4>1
      <4>3. row'[m] = NoRow
        BY <2>3, <3>2, <4>1 DEF NoSendFrame, NoOfferFrame
      <4>4. CASE f.kind = "send"
        BY <2>3, <3>2, <4>1, <4>2, <4>3, <4>4 DEF Doomed, NoSendFrame
      <4>5. CASE f.kind = "offer"
        <5>1. attempt'[m].phase = "absent"
          BY <2>3, <3>2, <4>1, <4>5 DEF NoOfferFrame, NoAttempt
        <5>. QED
          BY <4>2, <4>3, <5>1 DEF Doomed, NoOfferFrame
      <4>. QED
        BY <4>1, <4>4, <4>5
    <3>3. CASE SendSettled(m)
      BY <2>5, <3>3 DEF SendSettled, Doomed
    <3>4. CASE SendAborts(m) /\ row[m].due
      BY <2>5, <3>4 DEF SendAborts, Doomed
    <3>5. CASE Reconcile(m, TRUE) /\ row[m] = NoRow
      <4>1. row'[m] = NoRow
        BY <1>1, <3>5 DEF Reconcile, Finish, NoRow, TypeOK
      <4>2. attempt'[m].phase = "failed"
        BY <1>1, <3>5 DEF Reconcile, Cancel, Save, TypeOK
      <4>3. attempt[m] # NoAttempt /\ frames' = frames
        BY <3>5 DEF Reconcile, WaitingAttempt, LivePhases, NoAttempt
      <4>4. NoOfferFrame(m)'
        BY <2>3, <4>3 DEF NoOfferFrame
      <4>. QED
        BY <4>1, <4>2, <4>4 DEF Doomed
    <3>. QED
      BY <1>1, <2>7, <3>1, <3>2, <3>3, <3>4, <3>5, WireStep
  <2>. QED
    BY <2>2, <2>6, <2>7 DEF GivenUp, Noticed
<1>. QED
  BY <1>2, <1>3

LEMMA DeliveredStep == DeliveryInv /\ [Next]_vars => DeliveryIsCommitted'
<1> SUFFICES ASSUME DeliveryInv, [Next]_vars, NEW m \in Messages,
                    Noticed(m, {"delivered"})' \/ item'[m].status = "delivered"
             PROVE  row'[m].status = "delivered"
  BY DEF DeliveryIsCommitted
<1>1. TypeOK
  BY DEF DeliveryInv, MemoryInv, PayloadInv
<1>2. Noticed(m, {"delivered"}) \/ item[m].status = "delivered" => row'[m].status = "delivered"
  <2>1. ASSUME row[m].status = "delivered" PROVE row'[m] = row[m]
    <3>1. row[m].status # "pending" /\ row[m] # NoRow
      BY <2>1 DEF NoRow
    <3>. QED
      BY <1>1, <3>1, RowStep
  <2>. QED
    BY <2>1 DEF DeliveryInv, DeliveryIsCommitted
<1>3. ASSUME NEW n \in wire', n.msg = m, n.type = "delivered", n \notin wire
      PROVE  row'[m].status = "delivered"
  BY <1>1, <1>3, WireStep
<1>4. ASSUME item'[m].status = "delivered", item[m].status # "delivered"
      PROVE  row'[m].status = "delivered"
  BY <1>1, <1>2, <1>4, ItemSettles DEF Terminal, Noticed
<1>. QED
  BY <1>2, <1>3, <1>4 DEF Noticed

-----------------------------------------------------------------------------
(* The theorems                                                               *)

LEMMA DeliveryInit == Init => DeliveryInv
BY MemoryInit, TypeInit DEF Init, DeliveryInv, FramesAreSentOnce, CommitPrecedesPayload,
   FailureIsFinal, GivenUp, DeliveryIsCommitted, Noticed, NoOfferFrame, NoItem, E

LEMMA DeliveryStep == DeliveryInv /\ [Next]_vars => DeliveryInv'
BY MemoryStep, FramesStep, CommitStep, FailureStep, DeliveredStep DEF DeliveryInv

THEOREM DeliveryInvariant == Spec => []DeliveryInv
BY DeliveryInit, DeliveryStep, PTL DEF Spec

LEMMA DoomedIsUndelivered == ASSUME NEW m \in Messages, Doomed(m) PROVE row[m].status # "delivered"
BY DEF Doomed, NoRow

(* No rollback, crash, late answer or loss of Redis makes a published notice  *)
(* false: delivered means committed, failed means never delivered.            *)
THEOREM NoticesAreTrue == Spec => []NoticesAreTruthful
<1>1. ASSUME DeliveryInv PROVE NoticesAreTruthful
  <2> SUFFICES ASSUME NEW n \in wire
               PROVE  /\ n.type = "delivered" => row[n.msg].status = "delivered"
                      /\ n.type = "failed" /\ item[n.msg].mode = "ephemeral"
                           => row[n.msg].status # "delivered"
    BY DEF NoticesAreTruthful
  <2>1. n.msg \in Messages
    BY <1>1 DEF DeliveryInv, MemoryInv, PayloadInv, TypeOK, Notice
  <2>2. n.type = "delivered" => row[n.msg].status = "delivered"
    BY <1>1, <2>1 DEF DeliveryInv, DeliveryIsCommitted, Noticed
  <2>3. n.type = "failed" /\ item[n.msg].mode = "ephemeral" => Doomed(n.msg)
    BY <1>1, <2>1 DEF DeliveryInv, FailureIsFinal, GivenUp, Noticed, E
  <2>. QED
    BY <2>1, <2>2, <2>3, DoomedIsUndelivered
<1>. QED
  BY <1>1, DeliveryInvariant, PTL

(* The sender's page never shows an outcome that is not, or will not be, the  *)
(* outcome of the message: not after its own timer, nor after a lost socket   *)
(* whose frames the server still handles, nor after polling.                  *)
THEOREM ThePageIsRight == Spec => []SenderIsNeverMisled
<1>1. ASSUME DeliveryInv PROVE SenderIsNeverMisled
  <2> SUFFICES ASSUME NEW m \in Messages
               PROVE  /\ item[m].status = "delivered" => row[m].status = "delivered"
                      /\ item[m].mode = "ephemeral" /\ item[m].status \in {"failed", "expired"}
                           => row[m].status # "delivered"
    BY DEF SenderIsNeverMisled
  <2>1. item[m].status = "delivered" => row[m].status = "delivered"
    BY <1>1 DEF DeliveryInv, DeliveryIsCommitted
  <2>2. item[m].mode = "ephemeral" /\ item[m].status \in {"failed", "expired"} => Doomed(m)
    BY <1>1 DEF DeliveryInv, FailureIsFinal, GivenUp, E
  <2>. QED
    BY <2>1, <2>2, DoomedIsUndelivered
<1>. QED
  BY <1>1, DeliveryInvariant, PTL

-----------------------------------------------------------------------------
(* The refinement: what each step does to the fate of a message and to what    *)
(* its sender was told.                                                        *)


Fate(m) == IF row[m].mode = "ephemeral" THEN row[m].status ELSE "none"
Told(m) == {t \in {"delivered", "failed"} : E(m) /\ Noticed(m, {t})}
Outcomes == {"delivered", "failed", "expired"}
Announcement(outcome) == IF outcome = "delivered" THEN "delivered" ELSE "failed"

fates == [m \in Messages |-> Fate(m)]
tolds == [m \in Messages |-> Told(m)]

(* A step of one message of DeliveryPromise, or none.                         *)
Same(m)    == Fate(m)' = Fate(m) /\ Told(m)' = Told(m)
Records(m) == Fate(m) = "none" /\ Told(m) = {} /\ Fate(m)' = "pending" /\ Told(m)' = Told(m)
Settles(m) == /\ Fate(m) = "pending" /\ Fate(m)' \in Outcomes
              /\ Told(m)' = Told(m) \/ Told(m)' = Told(m) \cup {Announcement(Fate(m)')}
Tells(m)   == /\ Fate(m)' = Fate(m)
              /\ \/ Fate(m) \in Outcomes /\ Told(m)' = Told(m) \cup {Announcement(Fate(m))}
                 \/ Fate(m) = "none" /\ Told(m)' = Told(m) \cup {"failed"}

LEMMA WireGrows == ASSUME [Next]_vars PROVE wire \subseteq wire'
BY DEF Next, Client, Server, Worker, Environment, vars, dbVars, redisVars,
   clientVars, socketVars, Change, ClientSend, ClientReady, ClientRetry, ClientGivesUp, Status,
   ClientNotice, SenderDrops, Refuse, Offer, Create, SendDuplicate, SendFails, SendStored, SendRecord,
   SendSettled, SendAborts, SendDisconnected, SendPayload, SendEnds, Ready, ListenerChecks,
   ListenerForwards, Ack, PayloadExpires, DeadlinePasses, ReconcileSync, Reconcile, ReconcileRow,
   Handshake, PresenceExpires, SocketEnds, RedisLoss, Announce

(* What was told agrees with the fate.                                        *)
LEMMA ToldIsTrue ==
  ASSUME DeliveryInv, NEW m \in Messages
  PROVE  /\ Fate(m) = "pending" \/ Fate(m) = "none" => "delivered" \notin Told(m)
         /\ Fate(m) \in Outcomes => Told(m) \subseteq {Announcement(Fate(m))}
         /\ Fate(m) \in {"none", "pending"} \cup Outcomes
         /\ Fate(m) # "none" => E(m)
<1>1. TypeOK
  BY DEF DeliveryInv, MemoryInv, PayloadInv
<1>2. row[m] \in Row
  BY <1>1 DEF TypeOK
<1>3. "delivered" \in Told(m) => Fate(m) = "delivered"
  <2>1. row[m].mode # "stored" \/ ~E(m)
    BY DEF DeliveryInv, MemoryInv, EphemeralNeverStored, E
  <2>2. row[m].status = "delivered" => row[m].mode \in {"stored", "ephemeral"}
    BY <1>2, RowTypes DEF RowRecords, NoRow
  <2>3. "delivered" \in Told(m) => E(m) /\ row[m].status = "delivered"
    BY DEF Told, DeliveryInv, DeliveryIsCommitted
  <2>. QED
    BY <2>1, <2>2, <2>3 DEF Fate
<1>4. "failed" \in Told(m) => row[m].status # "delivered"
  <2>1. "failed" \in Told(m) => E(m) /\ GivenUp(m)
    BY DEF Told, GivenUp, Noticed
  <2>. QED
    BY <2>1, DoomedIsUndelivered DEF DeliveryInv, FailureIsFinal
<1>5. Fate(m) \in {"none", "pending"} \cup Outcomes
  BY <1>2, RowTypes DEF Fate, RowRecords, NoRow, Terminal, Outcomes
<1>6. Fate(m) # "none" => E(m)
  BY DEF Fate, DeliveryInv, MemoryInv, ModesAgree
<1>7. Told(m) \subseteq {"delivered", "failed"}
  BY DEF Told
<1>8. Fate(m) = "delivered" => row[m].status = "delivered"
  BY DEF Fate
<1>9. CASE Fate(m) = "delivered"
  BY <1>4, <1>5, <1>6, <1>7, <1>8, <1>9 DEF Announcement, Outcomes
<1>10. CASE Fate(m) # "delivered"
  BY <1>3, <1>5, <1>6, <1>7, <1>10 DEF Announcement, Outcomes
<1>. QED
  BY <1>9, <1>10

(* Only the types and the messages of the notices matter. *)
LEMMA ToldGrows ==
  ASSUME DeliveryInv, [Next]_vars, NEW m \in Messages
  PROVE  /\ Told(m) \subseteq Told(m)'
         /\ (\A n \in wire' : n.msg = m /\ n.type \in {"delivered", "failed"} => n \in wire)
              => Told(m)' = Told(m)
<1>1. TypeOK
  BY DEF DeliveryInv, MemoryInv, PayloadInv
<1>2. E(m) => E(m)'
  <2>1. E(m) => item[m] # NoItem
    BY DEF E, NoItem
  <2>. QED
    BY <1>1, <2>1, ItemIsKept DEF E
<1>3. ~E(m) /\ E(m)' => ~Noticed(m, {"delivered"}) /\ ~Noticed(m, {"failed"})
  <2>1. ~E(m) /\ E(m)' => item[m] = NoItem
    BY <1>1, ItemIsKept DEF E
  <2>. QED
    BY <2>1 DEF DeliveryInv, MemoryInv, UnsentIsUnknown, Noticed
<1>4. \A t \in {"delivered", "failed"} : Noticed(m, {t}) => Noticed(m, {t})'
  BY WireGrows DEF Noticed
<1>5. Told(m) \subseteq Told(m)'
  BY <1>2, <1>4 DEF Told
<1>6. ASSUME \A n \in wire' : n.msg = m /\ n.type \in {"delivered", "failed"} => n \in wire
      PROVE  \A t \in {"delivered", "failed"} : Noticed(m, {t})' => Noticed(m, {t})
  BY <1>6 DEF Noticed
<1>7. ASSUME \A n \in wire' : n.msg = m /\ n.type \in {"delivered", "failed"} => n \in wire
      PROVE  Told(m)' \subseteq Told(m)
  BY <1>3, <1>6, <1>7 DEF Told
<1>. QED
  BY <1>5, <1>7

ToldMatchesFate ==
  \A m \in Messages :
    /\ Fate(m) = "pending" \/ Fate(m) = "none" => "delivered" \notin Told(m)
    /\ Fate(m) \in Outcomes => Told(m) \subseteq {Announcement(Fate(m))}

LEMMA ToldMatches == DeliveryInv => ToldMatchesFate
BY ToldIsTrue DEF ToldMatchesFate

LEMMA ToldMatchesNext == DeliveryInv' => ToldMatchesFate'
BY ToldMatches, PTL

-----------------------------------------------------------------------------
(* What a step does to one message.                                           *)

LEMMA RecordStep ==
  ASSUME DeliveryInv, DeliveryInv', [Next]_vars, NEW m \in Messages,
         NEW f \in Frame, f.msg = m, SendRecord(f, TRUE) \/ SendStored(f)
  PROVE  Same(m) \/ Records(m)
<1>1. TypeOK
  BY DEF DeliveryInv, MemoryInv, PayloadInv
<1>2. row[m] = NoRow
  BY DEF SendRecord, SendStored, GuardedSend
<1>3. Fate(m) = "none"
  BY <1>2 DEF Fate, NoRow
<1>4. Told(m)' = Told(m)
  <2>1. wire' = wire
    BY DEF SendRecord, SendStored
  <2>. QED
    BY <2>1, ToldGrows
<1>5. CASE SendStored(f)
  <2>1. row'[m].mode = "stored"
    BY <1>1, <1>5 DEF SendStored, TypeOK, NoRow
  <2>. QED
    BY <1>3, <1>4, <2>1 DEF Same, Fate
<1>6. CASE SendRecord(f, TRUE)
  <2>1. row'[m] = Recorded(f)
    BY <1>1, <1>6 DEF SendRecord, TypeOK
  <2>2. Fate(m)' = "pending"
    BY <2>1 DEF Fate, Recorded
  <2>3. "failed" \notin Told(m)
    <3>1. SUFFICES ASSUME "failed" \in Told(m) PROVE FALSE
      OBVIOUS
    <3>2. E(m) /\ Doomed(m)
      BY <3>1 DEF Told, DeliveryInv, FailureIsFinal, GivenUp, Noticed
    <3>3. Doomed(m)'
      BY <3>2, DoomedStays
    <3>. QED
      BY <2>1, <3>3 DEF Doomed, Recorded, NoRow
  <2>4. "delivered" \notin Told(m)
    BY <1>3, ToldIsTrue
  <2>5. Told(m) = {}
    BY <2>3, <2>4 DEF Told
  <2>. QED
    BY <1>3, <1>4, <2>2, <2>5 DEF Records
<1>. QED
  BY <1>5, <1>6

LEMMA MessageStep ==
  ASSUME DeliveryInv, DeliveryInv', [Next]_vars, NEW m \in Messages
  PROVE  Same(m) \/ Records(m) \/ Settles(m) \/ Tells(m)
<1>1. TypeOK
  BY DEF DeliveryInv, MemoryInv, PayloadInv
<1>2. /\ Told(m) \subseteq Told(m)'
      /\ (\A n \in wire' : n.msg = m /\ n.type \in {"delivered", "failed"} => n \in wire)
           => Told(m)' = Told(m)
  BY ToldGrows
<1>3. /\ Fate(m)' = "pending" \/ Fate(m)' = "none" => "delivered" \notin Told(m)'
      /\ Fate(m)' \in Outcomes => Told(m)' \subseteq {Announcement(Fate(m)')}
      /\ Told(m)' \subseteq {"delivered", "failed"}
  BY ToldMatchesNext DEF ToldMatchesFate, Told
<1>4. Fate(m) \in {"none", "pending"} \cup Outcomes
  BY ToldIsTrue
<1>5. CASE row'[m] = row[m]
  <2>1. Fate(m)' = Fate(m)
    BY <1>5 DEF Fate
  <2>2. CASE Fate(m) = "pending"
    <3>1. row[m].status = "pending" /\ row'[m].status = "pending" /\ row[m] # NoRow
      BY <1>5, <2>2 DEF Fate, NoRow
    <3>2. ASSUME NEW n \in wire', n.msg = m, n.type \in {"delivered", "failed"} PROVE n \in wire
      <4>1. ASSUME NEW f \in Frame, f.msg = m, SendFails(f) PROVE FALSE
        BY <3>1, <4>1 DEF SendFails, GuardedSend
      <4>2. ~SendSettled(m)
        BY <3>1 DEF SendSettled
      <4>. QED
        BY <1>1, <3>1, <3>2, <4>1, <4>2, WireStep
    <3>. QED
      BY <1>2, <2>1, <3>2 DEF Same
  <2>3. CASE Fate(m) = "none"
    <3>1. Told(m)' \subseteq {"failed"}
      BY <1>3, <2>1, <2>3
    <3>2. Told(m)' = Told(m) \/ Told(m)' = Told(m) \cup {"failed"}
      BY <1>2, <3>1
    <3>. QED
      BY <2>1, <2>3, <3>2 DEF Same, Tells
  <2>4. CASE Fate(m) \in Outcomes
    <3>1. Told(m)' \subseteq {Announcement(Fate(m))}
      BY <1>3, <2>1, <2>4
    <3>2. Told(m)' = Told(m) \/ Told(m)' = Told(m) \cup {Announcement(Fate(m))}
      BY <1>2, <3>1
    <3>. QED
      BY <2>1, <2>4, <3>2 DEF Same, Tells
  <2>. QED
    BY <1>4, <2>2, <2>3, <2>4
<1>6. CASE /\ row[m].status = "pending" /\ row'[m].mode = row[m].mode
           /\ row'[m].status \in {"pending"} \cup Outcomes
  <2>1. CASE row[m].mode # "ephemeral"
    <3>1. Fate(m) = "none" /\ Fate(m)' = "none"
      BY <1>6, <2>1 DEF Fate
    <3>2. Told(m)' \subseteq {"failed"}
      BY <1>3, <3>1
    <3>3. Told(m)' = Told(m) \/ Told(m)' = Told(m) \cup {"failed"}
      BY <1>2, <3>2
    <3>. QED
      BY <3>1, <3>3 DEF Same, Tells
  <2>2. CASE row[m].mode = "ephemeral"
    <3>1. Fate(m) = "pending" /\ Fate(m)' = row'[m].status
      BY <1>6, <2>2 DEF Fate
    <3>2. CASE row'[m].status = "pending"
      <4>1. row[m] # NoRow
        BY <1>6 DEF NoRow
      <4>2. ASSUME NEW n \in wire', n.msg = m, n.type \in {"delivered", "failed"} PROVE n \in wire
        <5>1. ASSUME NEW f \in Frame, f.msg = m, SendFails(f) PROVE FALSE
          BY <4>1, <5>1 DEF SendFails, GuardedSend
        <5>2. ~SendSettled(m)
          BY <1>6 DEF SendSettled
        <5>. QED
          BY <1>1, <3>2, <4>1, <4>2, <5>1, <5>2, WireStep
      <4>. QED
        BY <1>2, <3>1, <3>2, <4>2 DEF Same
    <3>3. CASE row'[m].status \in Outcomes
      <4>1. Told(m)' \subseteq {Announcement(Fate(m)')}
        BY <1>3, <3>1, <3>3
      <4>2. Told(m)' = Told(m) \/ Told(m)' = Told(m) \cup {Announcement(Fate(m)')}
        BY <1>2, <4>1
      <4>. QED
        BY <3>1, <3>3, <4>2 DEF Settles
    <3>. QED
      BY <1>6, <3>2, <3>3
  <2>. QED
    BY <2>1, <2>2
<1>. QED
  BY <1>1, <1>5, <1>6, RecordStep, RowStep DEF Outcomes

-----------------------------------------------------------------------------
(* A step concerns one message: the others keep row and notices.              *)
OthersKeep(m) ==
  \A x \in Messages : x # m =>
    row'[x] = row[x] /\ \A n \in wire' : n.msg = x => n \in wire

LEMMA OneMessage ==
  ASSUME TypeOK, [Next]_vars
  PROVE  (row' = row /\ wire' = wire) \/ \E m \in Messages : OthersKeep(m)
<1> USE DEF TypeOK, dbVars, redisVars, socketVars, clientVars
<1>1. ASSUME NEW f \in Frame, NEW committed \in BOOLEAN,
             \/ Refuse(f) \/ SendFails(f) \/ SendDuplicate(f) \/ SendStored(f)
             \/ SendRecord(f, committed)
      PROVE  \E m \in Messages : OthersKeep(m)
  <2>1. f.msg \in Messages
    BY DEF Frame
  <2>2. CASE Refuse(f)
    BY <2>1, <2>2 DEF Refuse, OthersKeep, Note
  <2>3. CASE SendFails(f)
    BY <2>1, <2>3 DEF SendFails, OthersKeep, Note
  <2>4. CASE SendDuplicate(f)
    <3>1. \A n \in wire' : n \in wire \/ n.msg = f.msg
      BY <2>4 DEF SendDuplicate, Announce, Note
    <3>. QED
      BY <2>1, <2>4, <3>1 DEF SendDuplicate, OthersKeep
  <2>5. CASE SendStored(f)
    BY <2>1, <2>5 DEF SendStored, OthersKeep
  <2>6. CASE SendRecord(f, committed)
    BY <2>1, <2>6 DEF SendRecord, OthersKeep
  <2>. QED
    BY <1>1, <2>2, <2>3, <2>4, <2>5, <2>6
<1>2. ASSUME NEW m \in Messages, NEW committed \in BOOLEAN,
             \/ SendSettled(m) \/ SendAborts(m) \/ SendDisconnected(m, committed)
             \/ SendPayload(m, committed)
      PROVE  OthersKeep(m)
  <2>1. \A n \in wire' : n \in wire \/ n.msg = m
    BY <1>2 DEF SendSettled, SendAborts, SendDisconnected, SendPayload, SendEnds, Note
  <2>2. \A x \in Messages : x # m => row'[x] = row[x]
    BY <1>2 DEF SendSettled, SendAborts, SendDisconnected, SendPayload
  <2>. QED
    BY <2>1, <2>2 DEF OthersKeep
<1>3. ASSUME NEW c \in RecipientConns, NEW m \in Messages, NEW committed \in BOOLEAN,
             Ready(c, m) \/ Ack(c, m, committed)
      PROVE  OthersKeep(m)
  <2>1. \A n \in wire' : n \in wire \/ n.msg = m
    BY <1>3 DEF Ready, Ack, Announce, Note
  <2>2. \A x \in Messages : x # m => row'[x] = row[x]
    BY <1>3 DEF Ready, Ack
  <2>. QED
    BY <2>1, <2>2 DEF OthersKeep
<1>4. ASSUME NEW m \in Messages, NEW committed \in BOOLEAN,
             Reconcile(m, committed) \/ ReconcileRow(m, committed)
      PROVE  OthersKeep(m)
  <2>1. \A n \in wire' : n \in wire \/ n.msg = m
    BY <1>4 DEF Reconcile, ReconcileRow, Announce, Note
  <2>2. \A x \in Messages : x # m => row'[x] = row[x]
    BY <1>4 DEF Reconcile, ReconcileRow
  <2>. QED
    BY <2>1, <2>2 DEF OthersKeep
<1>5. ASSUME NEW m \in Messages, DeadlinePasses(m) \/ Status(m) PROVE OthersKeep(m)
  BY <1>5 DEF DeadlinePasses, Status, OthersKeep
<1>6. ASSUME \/ UNCHANGED vars \/ Change \/ RedisLoss \/ SenderDrops
             \/ \E m \in Messages : ClientSend(m) \/ ClientReady(m) \/ ClientRetry(m) \/ ClientGivesUp(m)
             \/ \E n \in Notice : ClientNotice(n)
             \/ \E f \in Frame : Offer(f)
             \/ \E m \in Messages : ReconcileSync(m) \/ PayloadExpires(m)
             \/ \E c \in RecipientConns, m \in Messages : ListenerChecks(c, m) \/ ListenerForwards(c, m)
             \/ \E c \in Conns : Handshake(c) \/ PresenceExpires(c)
             \/ \E c \in Conns, clean \in BOOLEAN : SocketEnds(c, clean)
      PROVE  row' = row /\ wire' = wire
  BY <1>6 DEF vars, Change, RedisLoss, SenderDrops, ClientSend, ClientReady, ClientRetry, ClientGivesUp,
     ClientNotice, Offer, Create, ReconcileSync, PayloadExpires, ListenerChecks, ListenerForwards, Handshake,
     PresenceExpires, SocketEnds
<1>7. CASE Client
  BY <1>5, <1>6, <1>7 DEF Client
<1>8. CASE Server
  BY <1>1, <1>2, <1>3, <1>6, <1>8 DEF Server
<1>9. CASE Worker
  BY <1>4, <1>6, <1>9 DEF Worker
<1>10. CASE Environment
  BY <1>5, <1>6, <1>10 DEF Environment
<1>. QED
  BY <1>6, <1>7, <1>8, <1>9, <1>10 DEF Next

LEMMA OthersStaySame ==
  ASSUME DeliveryInv, [Next]_vars, NEW x \in Messages, row'[x] = row[x],
         \A n \in wire' : n.msg = x => n \in wire
  PROVE  Same(x)
<1>1. Told(x)' = Told(x)
  BY ToldGrows
<1>2. Fate(x)' = Fate(x)
  BY DEF Fate
<1>. QED
  BY <1>1, <1>2 DEF Same

-----------------------------------------------------------------------------
(* The refinement                                                             *)

Mapped ==
  /\ [m \in Messages |-> IF row[m].mode = "ephemeral" THEN row[m].status ELSE "none"] = fates
  /\ [m \in Messages |-> IF item[m].mode = "ephemeral"
       THEN {n.type : n \in {x \in wire : x.msg = m /\ x.type \in {"delivered", "failed"}}}
       ELSE {}] = tolds

LEMMA MappedState == Mapped
<1>1. ASSUME NEW m \in Messages
      PROVE  Told(m) = IF item[m].mode = "ephemeral"
                       THEN {n.type : n \in {x \in wire : x.msg = m /\ x.type \in {"delivered", "failed"}}}
                       ELSE {}
  BY DEF Told, E, Noticed
<1>. QED
  BY <1>1 DEF fates, tolds, Fate, Mapped

LEMMA MappedStateNext == Mapped'
BY MappedState, PTL

(* The steps of DeliveryPromise, over the mapped state.                       *)
PromiseStep ==
  \E m \in Messages :
    \/ /\ fates[m] = "none" /\ tolds[m] = {}
       /\ fates' = [fates EXCEPT ![m] = "pending"] /\ tolds' = tolds
    \/ /\ \/ /\ fates[m] \in Outcomes
             /\ tolds' = [tolds EXCEPT ![m] = @ \cup {Announcement(fates[m])}]
          \/ /\ fates[m] = "none"
             /\ tolds' = [tolds EXCEPT ![m] = @ \cup {"failed"}]
       /\ fates' = fates
    \/ \E outcome \in Outcomes :
         /\ fates[m] = "pending"
         /\ fates' = [fates EXCEPT ![m] = outcome]
         /\ \/ tolds' = tolds
            \/ tolds' = [tolds EXCEPT ![m] = @ \cup {Announcement(outcome)}]

LEMMA PromiseStepIsMade ==
  ASSUME DeliveryInv, DeliveryInv', [Next]_vars
  PROVE  PromiseStep \/ (fates' = fates /\ tolds' = tolds)
<1>1. /\ fates = [m \in Messages |-> Fate(m)] /\ fates' = [m \in Messages |-> Fate(m)']
      /\ tolds = [m \in Messages |-> Told(m)] /\ tolds' = [m \in Messages |-> Told(m)']
  BY DEF fates, tolds
<1>2. CASE row' = row /\ wire' = wire
  <2>1. \A m \in Messages : Same(m)
    BY <1>2, OthersStaySame
  <2>2. \A m \in Messages : Fate(m)' = Fate(m) /\ Told(m)' = Told(m)
    BY <2>1 DEF Same
  <2>. QED
    BY <1>1, <2>2
<1>3. ASSUME NEW m \in Messages, OthersKeep(m)
      PROVE  PromiseStep \/ (fates' = fates /\ tolds' = tolds)
  <2>1. \A x \in Messages : x # m => Same(x)
    BY <1>3, OthersStaySame DEF OthersKeep
  <2>2. \A x \in Messages : x # m => Fate(x)' = Fate(x) /\ Told(x)' = Told(x)
    BY <2>1 DEF Same
  <2>3. /\ fates[m] = Fate(m) /\ tolds[m] = Told(m)
        /\ fates' = [fates EXCEPT ![m] = Fate(m)']
        /\ tolds' = [tolds EXCEPT ![m] = Told(m)']
    BY <1>1, <2>2
  <2>4. /\ Fate(m)' = Fate(m) => fates' = fates
        /\ Told(m)' = Told(m) => tolds' = tolds
    BY <1>1, <2>2
  <2>5. CASE Same(m)
    BY <2>4, <2>5 DEF Same
  <2>6. CASE Records(m)
    BY <2>3, <2>4, <2>6 DEF Records, PromiseStep
  <2>7. CASE Settles(m)
    <3>1. PICK outcome \in Outcomes : Fate(m)' = outcome
      BY <2>7 DEF Settles
    <3>2. \/ tolds' = tolds
          \/ tolds' = [tolds EXCEPT ![m] = @ \cup {Announcement(outcome)}]
      BY <2>3, <2>4, <2>7, <3>1 DEF Settles
    <3>3. fates[m] = "pending" /\ fates' = [fates EXCEPT ![m] = outcome]
      BY <2>3, <2>7, <3>1 DEF Settles
    <3>. QED
      BY <3>2, <3>3 DEF PromiseStep
  <2>8. CASE Tells(m)
    BY <2>3, <2>4, <2>8 DEF Tells, PromiseStep
  <2>. QED
    BY <2>5, <2>6, <2>7, <2>8, MessageStep
<1>. QED
  BY <1>2, <1>3, OneMessage DEF DeliveryInv, MemoryInv, PayloadInv

LEMMA PromiseInit == Init => Promise!Init
<1> SUFFICES ASSUME Init PROVE Promise!Init
  OBVIOUS
<1>1. \A m \in Messages : Fate(m) = "none" /\ Told(m) = {}
  BY DEF Init, Fate, Told, Noticed, NoRow
<1>2. fates = [m \in Messages |-> "none"] /\ tolds = [m \in Messages |-> {}]
  BY <1>1 DEF fates, tolds
<1>. QED
  BY <1>2, MappedState DEF Mapped, Promise!Init

LEMMA PromiseNext ==
  ASSUME PromiseStep \/ (fates' = fates /\ tolds' = tolds)
  PROVE  [Promise!Next]_(Promise!vars)
BY MappedState, MappedStateNext DEF Mapped, PromiseStep, Promise!Next, Promise!Record, Promise!Tell,
   Promise!Settle, Promise!Outcomes, Promise!Announcement, Outcomes, Announcement, Promise!vars

(* The whole protocol, with its crashes, losses, retries and races, refines   *)
(* the promise made to the sender.                                            *)
THEOREM ThePromiseIsKept == Spec => PromiseIsKept
<1>1. DeliveryInv /\ DeliveryInv' /\ [Next]_vars => [Promise!Next]_(Promise!vars)
  BY PromiseStepIsMade, PromiseNext
<1>. QED
  BY <1>1, PromiseInit, DeliveryInvariant, PTL DEF Spec, Promise!Spec, PromiseIsKept

=============================================================================
