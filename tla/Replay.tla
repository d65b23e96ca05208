------------------------------- MODULE Replay -------------------------------
(***************************************************************************)
(* One participant sends the other a copy of the messages its page keeps:  *)
(* begin, numbered items, end.  The server relays each frame from the      *)
(* socket that began to one socket of the peer, and keeps in Redis the     *)
(* number it expects next.  The page of the peer collects the items and    *)
(* shows them when the end agrees with its own count.                      *)
(*                                                                         *)
(* Frames of one socket stay in order and are lost only with the socket.   *)
(* No frame is relayed before the vote on the grace messages is over, so   *)
(* its verdict is fixed and the pages learn it at any time.                *)
(***************************************************************************)
EXTENDS Naturals, Sequences, FiniteSets

CONSTANTS
  Replays,        \* replay UUIDs
  Senders,        \* sockets of the page that sends a copy
  Receivers,      \* sockets of the page that receives it
  Nobody,         \* no socket
  Messages,       \* messages, numbered in the order of their time
  Grace,          \* those whose time is before the acceptance
  Copies,         \* what the sending page may keep when it starts each, in order of time
  Capacity,       \* 500 in the page
  SequenceLimit,  \* 2^32 - 1 in the script
  Backlog         \* bound: frames a socket carries and nobody has handled

ASSUME ReplayConstants ==
  /\ Senders \cap Receivers = {} /\ Nobody \notin Senders \cup Receivers \cup Replays
  /\ Messages \subseteq Nat /\ IsFiniteSet(Messages)
  /\ Grace \subseteq Messages /\ Copies \in [Replays -> SUBSET Seq(Messages)]
  /\ Capacity \in Nat /\ SequenceLimit \in Nat /\ Backlog \in Nat

Sockets == Senders \cup Receivers

VARIABLES
  pageKnows,    \* the receiving page has read that the grace was rejected
  copy,         \* the list a loop of Chat.replay walks
  run,          \* the loop itself: its state and the next item
  sender,       \* the ready socket of the sending page, or Nobody
  used,         \* sockets that were ever opened
  live,         \* presence keys connection:*
  frames,       \* frames a sender's socket has carried and nobody handled
  relay,        \* recovery:replay:*
  page,         \* the socket of the receiving page
  up,           \* FALSE once the page has noticed that it closed
  queue,        \* frames that socket has carried and the page has not handled
  replay,       \* room.replay
  shown         \* copied messages in room.messages

socketVars == <<used, live>>
senderVars == <<copy, run, sender>>
pageVars   == <<pageKnows, page, up, replay, shown>>
vars == <<socketVars, relay, senderVars, pageVars, frames, queue>>

-----------------------------------------------------------------------------

NoRelay  == [by |-> Nobody, target |-> Nobody, next |-> 0, finished |-> FALSE]
NoReplay == [id |-> Nobody, next |-> 0, messages |-> {}]

(* The number of an end is its item_count. *)
Frame == [kind : {"begin", "end"}, id : Replays, number : Nat]
           \cup [kind : {"item"}, id : Replays, number : Nat, message : Messages]

Run == [state : {"idle", "running", "over"}, next : Nat]
Relay == [by : Senders \cup {Nobody}, target : Receivers \cup {Nobody},
          next : 0..SequenceLimit, finished : BOOLEAN]
Collection == [id : Replays \cup {Nobody}, next : 0..Capacity, messages : SUBSET Messages]

TypeOK ==
  /\ pageKnows \in BOOLEAN
  /\ copy \in [Replays -> Seq(Messages)]
  /\ run \in [Replays -> Run]
  /\ sender \in Senders \cup {Nobody}
  /\ used \subseteq Sockets /\ live \subseteq used
  /\ frames \in [Senders -> Seq(Frame)]
  /\ relay \in [Replays -> Relay]
  /\ page \in Receivers /\ up \in BOOLEAN
  /\ queue \in Seq(Frame)
  /\ replay \in Collection
  /\ shown \subseteq Messages /\ Cardinality(shown) <= Capacity

(* Both pages are connected, or no replay could begin. *)
Init ==
  /\ pageKnows = FALSE
  /\ copy = [r \in Replays |-> <<>>]
  /\ run = [r \in Replays |-> [state |-> "idle", next |-> 0]]
  /\ sender \in Senders /\ page \in Receivers /\ up = TRUE
  /\ used = {sender, page} /\ live = {sender, page}
  /\ frames = [c \in Senders |-> <<>>]
  /\ relay = [r \in Replays |-> NoRelay]
  /\ queue = <<>>
  /\ replay = NoReplay /\ shown = {}

-----------------------------------------------------------------------------
(* Sockets *)

(* The handshake: subscribed before the presence is set. *)
Connect(c) ==
  /\ c \notin used
  /\ used' = used \cup {c} /\ live' = live \cup {c}

SenderConnects(c) ==
  /\ sender = Nobody /\ Connect(c)
  /\ sender' = c
  /\ UNCHANGED <<copy, run, pageVars, frames, queue, relay>>

(* What the page has received on the old socket and not handled is ignored    *)
(* from now on.                                                               *)
PageConnects(d) ==
  /\ ~up /\ Connect(d)
  /\ page' = d /\ up' = TRUE /\ queue' = <<>>
  /\ UNCHANGED <<senderVars, pageKnows, replay, shown, frames, relay>>

(* A loop transmits again within 60 ms and fails; the page waits a second      *)
(* before it connects again, so that no loop outlives its socket.              *)
SenderCloses ==
  /\ sender # Nobody
  /\ sender' = Nobody
  /\ run' = [r \in Replays |-> IF run[r].state = "running"
                               THEN [run[r] EXCEPT !.state = "over"] ELSE run[r]]
  /\ UNCHANGED <<copy, socketVars, relay, pageVars, frames, queue>>

PageCloses ==
  /\ up
  /\ up' = FALSE /\ replay' = NoReplay
  /\ UNCHANGED <<senderVars, socketVars, relay, pageKnows, page, shown, frames, queue>>

(* By the finally block of the handler, or by its time to live. *)
PresenceEnds(c) ==
  /\ c \in live
  /\ live' = live \ {c}
  /\ UNCHANGED <<senderVars, pageVars, frames, queue, used, relay>>

RelayExpires(r) ==
  /\ relay[r] # NoRelay
  /\ relay' = [relay EXCEPT ![r] = NoRelay]
  /\ UNCHANGED <<senderVars, pageVars, frames, queue, socketVars>>

RedisLoss ==
  /\ live' = {} /\ relay' = [r \in Replays |-> NoRelay]
  /\ UNCHANGED <<senderVars, pageVars, frames, queue, used>>

-----------------------------------------------------------------------------
(* The sending page *)

Transmit(f) ==
  /\ Len(frames[sender]) < Backlog
  /\ frames' = [frames EXCEPT ![sender] = Append(@, f)]

Start(r, list) ==
  /\ run[r].state = "idle" /\ sender # Nobody
  /\ copy' = [copy EXCEPT ![r] = list]
  /\ run' = [run EXCEPT ![r].state = "running"]
  /\ Transmit([kind |-> "begin", id |-> r, number |-> 0])
  /\ UNCHANGED <<sender, socketVars, relay, pageVars, queue>>

(* Nothing tells the loop of a frame that was refused. *)
SendItem(r) ==
  /\ run[r].state = "running" /\ sender # Nobody
  /\ run[r].next < Len(copy[r])
  /\ run' = [run EXCEPT ![r].next = @ + 1]
  /\ Transmit([kind |-> "item", id |-> r, number |-> run[r].next,
               message |-> copy[r][run[r].next + 1]])
  /\ UNCHANGED <<copy, sender, socketVars, relay, pageVars, queue>>

SendEnd(r) ==
  /\ run[r].state = "running" /\ sender # Nobody
  /\ run[r].next = Len(copy[r])
  /\ run' = [run EXCEPT ![r].state = "over"]
  /\ Transmit([kind |-> "end", id |-> r, number |-> Len(copy[r])])
  /\ UNCHANGED <<copy, sender, socketVars, relay, pageVars, queue>>

-----------------------------------------------------------------------------
(* The server *)

Take(c) ==
  /\ frames[c] # <<>>
  /\ frames' = [frames EXCEPT ![c] = Tail(@)]

(* Every answer that changes nothing: lost presence, rate limits, a closed    *)
(* conversation, no peer, and the refusals of the script.                     *)
Refuse(c) ==
  /\ Take(c)
  /\ UNCHANGED <<senderVars, socketVars, relay, pageVars, queue>>

(* The script publishes, the listener of the target forwards; what it can no  *)
(* longer forward is what the page never reads before it notices.             *)
Publish(d, f) ==
  IF d = page /\ up
  THEN Len(queue) < Backlog /\ queue' = Append(queue, f)
  ELSE UNCHANGED queue

Begin(c, d) ==
  LET f == Head(frames[c]) IN
  /\ Take(c) /\ f.kind = "begin"
  /\ relay[f.id] = NoRelay
  /\ {c, d} \subseteq live
  /\ relay' = [relay EXCEPT ![f.id] = [NoRelay EXCEPT !.by = c, !.target = d]]
  /\ Publish(d, f)
  /\ UNCHANGED <<senderVars, pageVars, socketVars>>

InOrder(r, f) == f.number = relay[r].next

(* The replay is known, unfinished and bound to this socket. *)
Accepts(c, f) ==
  /\ relay[f.id] # NoRelay /\ relay[f.id].by = c
  /\ ~relay[f.id].finished
  /\ InOrder(f.id, f)

Present(r) == {relay[r].by, relay[r].target} \subseteq live

(* A replay that has lost an end is forgotten, whatever the frame was. *)
Forget(c) ==
  LET f == Head(frames[c]) IN
  /\ Take(c)
  /\ f.kind # "begin" /\ Accepts(c, f) /\ ~Present(f.id)
  /\ relay' = [relay EXCEPT ![f.id] = NoRelay]
  /\ UNCHANGED <<senderVars, pageVars, queue, socketVars>>

Item(c) ==
  LET f == Head(frames[c]) IN
  /\ Take(c)
  /\ f.kind = "item" /\ Accepts(c, f) /\ Present(f.id)
  /\ relay[f.id].next < SequenceLimit
  /\ relay' = [relay EXCEPT ![f.id].next = @ + 1]
  /\ Publish(relay[f.id].target, f)
  /\ UNCHANGED <<senderVars, pageVars, socketVars>>

End(c) ==
  LET f == Head(frames[c]) IN
  /\ Take(c)
  /\ f.kind = "end" /\ Accepts(c, f) /\ Present(f.id)
  /\ relay' = [relay EXCEPT ![f.id].finished = TRUE]
  /\ Publish(relay[f.id].target, f)
  /\ UNCHANGED <<senderVars, pageVars, socketVars>>

-----------------------------------------------------------------------------
(* The receiving page *)

(* Chat.trim: the latest Capacity messages. *)
Trim(S) == {m \in S : Cardinality({k \in S : m <= k}) <= Capacity}

(* The page reads the verdict; whatever was before the acceptance goes. *)
PageLearns ==
  /\ ~pageKnows
  /\ pageKnows' = TRUE
  /\ shown' = shown \ Grace
  /\ replay' = [replay EXCEPT !.messages = @ \ Grace]
  /\ UNCHANGED <<senderVars, socketVars, relay, page, up, frames, queue>>

(* mutant: the items of an interrupted replay are kept *)
NewReplayOver(r) == [replay EXCEPT !.id = r, !.next = 0]

NewReplay(r) == [id |-> r, next |-> 0, messages |-> {}]

(* mutant: the verdict was applied when it was read *)
AdmittedAll(S) == S

Admitted(S) == IF pageKnows THEN S \ Grace ELSE S

Fits(n) == n < Capacity

PageTakes ==
  /\ queue # <<>>
  /\ queue' = Tail(queue)
  /\ UNCHANGED <<senderVars, socketVars, relay, pageKnows, page, up, frames>>

PageBegins ==
  /\ PageTakes /\ Head(queue).kind = "begin"
  /\ replay' = NewReplay(Head(queue).id)
  /\ UNCHANGED shown

PageIgnores ==
  /\ PageTakes
  /\ Head(queue).kind # "begin" /\ Head(queue).id # replay.id
  /\ UNCHANGED <<replay, shown>>

PageCollects ==
  LET f == Head(queue) IN
  /\ PageTakes
  /\ f.kind = "item" /\ f.id = replay.id
  /\ f.number = replay.next /\ Fits(replay.next)
  /\ replay' = [replay EXCEPT !.next = @ + 1, !.messages = @ \cup {f.message}]
  /\ UNCHANGED shown

PageShows ==
  LET f == Head(queue) IN
  /\ PageTakes
  /\ f.kind = "end" /\ f.id = replay.id
  /\ f.number = replay.next
  /\ shown' = Trim(shown \cup Admitted(replay.messages))
  /\ replay' = NoReplay

(* An item too many, out of order or that cannot be decrypted; a wrong count. *)
PageRefuses ==
  LET f == Head(queue) IN
  /\ PageTakes
  /\ f.kind # "begin" /\ f.id = replay.id
  /\ f.kind = "end" => f.number # replay.next
  /\ replay' = NoReplay
  /\ UNCHANGED shown

-----------------------------------------------------------------------------

Next ==
  \/ \E c \in Senders : SenderConnects(c)
  \/ \E d \in Receivers : PageConnects(d)
  \/ SenderCloses \/ PageCloses
  \/ \E c \in Sockets : PresenceEnds(c)
  \/ RedisLoss
  \/ PageLearns
  \/ \E r \in Replays : SendItem(r) \/ SendEnd(r) \/ RelayExpires(r)
  \/ \E r \in Replays : \E list \in Copies[r] : Start(r, list)
  \/ \E c \in Senders :
       \/ Refuse(c) \/ Forget(c) \/ Item(c) \/ End(c)
       \/ \E d \in Receivers : Begin(c, d)
  \/ PageBegins \/ PageIgnores \/ PageCollects \/ PageShows \/ PageRefuses

Spec == Init /\ [][Next]_vars

-----------------------------------------------------------------------------
(* Properties *)

CopyOf(r) == {copy[r][i] : i \in 1..Len(copy[r])}

(* A replay is atomic (chat.test.mjs:199): whatever was refused, lost,        *)
(* interrupted by another replay or cut by a reconnection, the messages the   *)
(* page shows grow only by the whole list one loop started with, less the     *)
(* grace messages once their rejection is known.                              *)
PageShowsWholeCopies ==
  [][~(shown' \subseteq shown) =>
       \E r \in Replays : shown' = Trim(shown \cup Admitted(CopyOf(r)))]_vars

(* What reaches the page is gapless: of the replay it is collecting, the next *)
(* item it reads has the number it expects, and the end has its count.  Only  *)
(* the cap, or a message it cannot decrypt, makes it refuse.                  *)
RelayIsGapless ==
  queue # <<>> /\ Head(queue).kind # "begin" /\ Head(queue).id = replay.id
    => Head(queue).number = replay.next

(* A page that knows the grace messages were rejected shows none of them,     *)
(* though another page, which does not know yet, still copies them (DEC-102). *)
RejectedGraceStaysOut == pageKnows => shown \cap Grace = {}
=============================================================================
