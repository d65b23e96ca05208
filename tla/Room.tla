-------------------------------- MODULE Room --------------------------------
(* A stored conversation as a page shows it (chat.js): the serialised refresh  *)
(* that reads the conversation, its vote and the pages of its history one       *)
(* request after another, the sync of every five seconds that reads list and    *)
(* vote on its own, and the messages the socket brings meanwhile.  The server   *)
(* answers each request from what it holds then, and the page applies the       *)
(* answer later, or never.  Messages are the peer's, numbered by sent_at; they  *)
(* do not reach their expiry, nor the page its 500 messages.                     *)
EXTENDS Integers, FiniteSets, Sequences

CONSTANTS
  PageSize,       \* items of a page of history
  MaxMessages     \* bound of the instance

ASSUME PageAssumption == PageSize \in Nat \ {0} /\ MaxMessages \in Nat

VARIABLES
  sent,       \* messages sent so far
  grace,      \* those of them that were sent while the conversation was pending
  vote,       \* the vote: none before the acceptance
  inbox,      \* message.new on their way to the page
  room,       \* the room of the page
  load,       \* the running loadRoom
  sync,       \* the running sync
  whole,      \* the last refresh that ended had read all it asked for
  cut,        \* some refresh failed after its first page of history
  mistaken    \* a rejection took out a message that was not of grace

vars == <<sent, grace, vote, inbox, room, load, sync, whole, cut, mistaken>>

Final    == {"approved", "rejected"}
Erased   == IF vote = "rejected" THEN 1..grace ELSE {}

NoLoad == [phase |-> "idle", answered |-> FALSE, more |-> FALSE, first |-> TRUE, oldHead |-> 0, cursor |-> 0,
           accepted |-> FALSE, vote |-> "none", items |-> {}, next |-> 0]
NoSync == [phase |-> "idle", answered |-> FALSE, accepted |-> FALSE, vote |-> "none"]

Newest(S) == IF S = {} THEN 0 ELSE CHOOSE m \in S : \A n \in S : n <= m
Oldest(S) == IF S = {} THEN 0 ELSE CHOOSE m \in S : \A n \in S : m <= n
-----------------------------------------------------------------------------
(* The server *)

(* Persistence.history: an overdue vote counts as its resolution will, so the *)
(* verdict here stands for its deadline.  A cursor is the last item of a page. *)
Before(cursor) == {m \in 1..sent : cursor = 0 \/ m < cursor} \ Erased
Page(cursor)   == {m \in Before(cursor) : Cardinality({n \in Before(cursor) : n > m}) < PageSize}
NextCursor(cursor) == IF Page(cursor) = Before(cursor) THEN 0 ELSE Oldest(Page(cursor))

(* message.new is published after the commit, and may be lost.                 *)
Send ==
  /\ sent < MaxMessages /\ vote # "open"
  /\ sent' = sent + 1
  /\ grace' = IF vote = "none" THEN sent + 1 ELSE grace
  /\ inbox' \in {inbox, Append(inbox, sent + 1)}
  /\ UNCHANGED <<vote, room, load, sync, whole, cut, mistaken>>

Accept ==
  /\ vote = "none"
  /\ vote' = "open"
  /\ UNCHANGED <<sent, grace, inbox, room, load, sync, whole, cut, mistaken>>

(* A vote lasts 30 s and a request of the page 15: no answer from before the    *)
(* acceptance is still to be applied.                                          *)
AnswersAreRecent ==
  /\ load.answered => load.phase = "history" \/ (load.phase = "conversation" /\ load.accepted) \/ load.vote # "none"
  /\ sync.answered => (sync.phase = "list" /\ sync.accepted) \/ sync.vote # "none"

Decide ==
  /\ vote = "open" /\ AnswersAreRecent
  /\ vote' \in Final
  /\ UNCHANGED <<sent, grace, inbox, room, load, sync, whole, cut, mistaken>>
-----------------------------------------------------------------------------
(* What the page does with what it reads *)

(* mutant: a rejected vote does not stop what is still on its way *)
ReceiveAlways(r, m, isGrace) ==
  [r EXCEPT !.shown = @ \cup {m}, !.asGrace = IF isGrace THEN @ \cup {m} ELSE @ \ {m}]

Receive(r, m, isGrace) ==
  IF isGrace /\ r.vote = "rejected" THEN r
  ELSE [r EXCEPT !.shown = @ \cup {m}, !.asGrace = IF isGrace THEN @ \cup {m} ELSE @ \ {m}]

(* A page of history says which messages are of grace.                         *)
ReceivePage(r, items) ==
  LET kept == IF r.vote = "rejected" THEN {m \in items : m > grace} ELSE items
  IN [r EXCEPT !.shown = @ \cup kept, !.asGrace = (@ \ kept) \cup {m \in kept : m <= grace}]

(* mutant: whatever is read last *)
ApplyLastVote(r, v) ==
  IF v = "rejected" THEN [r EXCEPT !.vote = v, !.shown = @ \ r.asGrace, !.asGrace = {}] ELSE [r EXCEPT !.vote = v]

ApplyVote(r, v) ==
  IF r.vote \in Final /\ v = "open" THEN r
  ELSE IF v = "rejected" THEN [r EXCEPT !.vote = v, !.shown = @ \ r.asGrace, !.asGrace = {}]
       ELSE [r EXCEPT !.vote = v]

TakesOutOther(r, v) == v = "rejected" /\ \E m \in r.asGrace : m > grace
-----------------------------------------------------------------------------
Init ==
  /\ sent = 0 /\ grace = 0 /\ vote = "none" /\ inbox = <<>>
  /\ room = [accepted |-> FALSE, vote |-> "none", head |-> 0, cursor |-> 0, shown |-> {}, asGrace |-> {}]
  /\ load = NoLoad /\ sync = NoSync
  /\ whole = FALSE /\ cut = FALSE /\ mistaken = FALSE

(* handle, message.new: the frame does not say whether it is of grace, so the  *)
(* page compares sent_at with the acceptance it knows of.                       *)
HandleNew ==
  /\ inbox # <<>>
  /\ inbox' = Tail(inbox)
  /\ room' = Receive(room, Head(inbox), Head(inbox) <= grace \/ ~ room.accepted)
  /\ UNCHANGED <<sent, grace, vote, load, sync, whole, cut, mistaken>>

(* The socket closes: what was on its way is lost.                             *)
Disconnect ==
  /\ inbox # <<>>
  /\ inbox' = <<>>
  /\ UNCHANGED <<sent, grace, vote, room, load, sync, whole, cut, mistaken>>

(* refresh: select, a notice, a reconnection, or the next in its chain; `more` *)
(* is the button that asks for older messages.                                 *)
Refresh(more) ==
  /\ load.phase = "idle"
  /\ more => room.cursor # 0
  /\ load' = [NoLoad EXCEPT !.phase = "conversation", !.more = more]
  /\ UNCHANGED <<sent, grace, vote, inbox, room, sync, whole, cut, mistaken>>

(* The server reads for the request in flight.                                 *)
AnswerLoad ==
  /\ load.phase # "idle" /\ ~ load.answered
  /\ load' = CASE load.phase = "conversation" -> [load EXCEPT !.answered = TRUE, !.accepted = vote # "none"]
               [] load.phase = "vote"         -> [load EXCEPT !.answered = TRUE, !.vote = vote]
               [] load.phase = "history"      -> [load EXCEPT !.answered = TRUE, !.items = Page(load.cursor),
                                                              !.next = NextCursor(load.cursor)]
  /\ UNCHANGED <<sent, grace, vote, inbox, room, sync, whole, cut, mistaken>>

LoadConversation ==
  /\ load.phase = "conversation" /\ load.answered
  /\ room' = [room EXCEPT !.accepted = load.accepted]
  /\ load' = [load EXCEPT !.phase = "vote", !.answered = FALSE, !.accepted = FALSE]
  /\ UNCHANGED <<sent, grace, vote, inbox, sync, whole, cut, mistaken>>

LoadVote ==
  /\ load.phase = "vote" /\ load.answered
  /\ room' = ApplyVote(room, load.vote)
  /\ mistaken' = (mistaken \/ TakesOutOther(room, load.vote))
  /\ load' = [load EXCEPT !.phase = "history", !.answered = FALSE, !.vote = "none", !.oldHead = room.head,
                          !.cursor = IF load.more THEN room.cursor ELSE 0]
  /\ UNCHANGED <<sent, grace, vote, inbox, sync, whole, cut>>

(* mutant: compares with the head it has just set *)
LastPageOfHead(l, head) == l.more \/ l.oldHead = 0 \/ head \in l.items

LastPage(l, head) == l.more \/ l.oldHead = 0 \/ l.oldHead \in l.items

(* Only the first page moves the cursor of a first load, and the head.         *)
LoadPage ==
  /\ load.phase = "history" /\ load.answered
  /\ LET head   == IF load.first /\ ~ load.more /\ load.items # {} THEN Newest(load.items) ELSE room.head
         cursor == IF load.first /\ (load.more \/ load.oldHead = 0) THEN load.next ELSE room.cursor
         last   == LastPage(load, head) \/ load.next = 0
     IN /\ room' = [ReceivePage(room, load.items) EXCEPT !.head = head, !.cursor = cursor]
        /\ load' = IF last THEN NoLoad
                   ELSE [load EXCEPT !.answered = FALSE, !.first = FALSE, !.cursor = load.next, !.items = {}, !.next = 0]
        /\ whole' = (last \/ whole)
  /\ UNCHANGED <<sent, grace, vote, inbox, sync, cut, mistaken>>

(* A request fails or takes 15 s, whatever the server made of it, or a message *)
(* cannot be decrypted: the rest of the refresh is not run.                    *)
FailLoad ==
  /\ load.phase # "idle" /\ load.answered
  /\ load' = NoLoad
  /\ whole' = FALSE
  /\ cut' = (cut \/ ~ load.first)
  /\ UNCHANGED <<sent, grace, vote, inbox, room, sync, mistaken>>
-----------------------------------------------------------------------------
(* sync: one at a time, not serialised with refresh *)

Sync ==
  /\ sync.phase = "idle"
  /\ sync' = [NoSync EXCEPT !.phase = "list"]
  /\ UNCHANGED <<sent, grace, vote, inbox, room, load, whole, cut, mistaken>>

AnswerSync ==
  /\ sync.phase # "idle" /\ ~ sync.answered
  /\ sync' = [sync EXCEPT !.answered = TRUE, !.accepted = sync.phase = "list" /\ vote # "none",
                          !.vote = IF sync.phase = "vote" THEN vote ELSE "none"]
  /\ UNCHANGED <<sent, grace, vote, inbox, room, load, whole, cut, mistaken>>

(* mutant: only a vote that was seen open is asked for *)
AsksSeenVote(r) == r.accepted /\ r.vote = "open"

AsksForVote(r) == r.accepted /\ (r.shown # {} \/ r.vote = "open") /\ r.vote \in {"none", "open"}

SyncList ==
  /\ sync.phase = "list" /\ sync.answered
  /\ room' = [room EXCEPT !.accepted = sync.accepted]
  /\ sync' = IF AsksForVote(room') THEN [NoSync EXCEPT !.phase = "vote"] ELSE NoSync
  /\ UNCHANGED <<sent, grace, vote, inbox, load, whole, cut, mistaken>>

SyncVote ==
  /\ sync.phase = "vote" /\ sync.answered
  /\ room' = ApplyVote(room, sync.vote)
  /\ mistaken' = (mistaken \/ TakesOutOther(room, sync.vote))
  /\ sync' = NoSync
  /\ UNCHANGED <<sent, grace, vote, inbox, load, whole, cut>>

FailSync ==
  /\ sync.phase # "idle" /\ sync.answered
  /\ sync' = NoSync
  /\ UNCHANGED <<sent, grace, vote, inbox, room, load, whole, cut, mistaken>>

Next ==
  \/ Send \/ Accept \/ Decide \/ HandleNew \/ Disconnect
  \/ Refresh(FALSE) \/ Refresh(TRUE) \/ AnswerLoad \/ LoadConversation \/ LoadVote \/ LoadPage \/ FailLoad
  \/ Sync \/ AnswerSync \/ SyncList \/ SyncVote \/ FailSync

Spec == Init /\ [][Next]_vars

(* The interval of five seconds runs, and requests do not fail for ever.  No   *)
(* refresh is fair: a room that is not selected may never get one.             *)
FairSpec ==
  /\ Spec
  /\ WF_vars(Sync) /\ WF_vars(AnswerSync) /\ SF_vars(SyncList) /\ SF_vars(SyncVote)
-----------------------------------------------------------------------------
(* Properties *)

(* A verdict the page has shown is not taken back by an answer that was read   *)
(* before it: neither by the vote a slow refresh brings while sync was faster, *)
(* nor the other way round.                                                    *)
VerdictIsNotTakenBack == [][room.vote \in Final => room'.vote = room.vote]_vars

(* Once the page knows of the rejection no grace message is shown again, by a  *)
(* page of history read before it or by a message.new that comes late.         *)
RejectedGraceStaysOut == room.vote = "rejected" => room.shown \cap 1..grace = {}

(* The messages the page says it has: from its cursor to its head.             *)
Loaded == {m \in 1..room.head : m >= room.cursor} \ Erased

(* However many messages were missed, and whatever sync and the socket did      *)
(* meanwhile, refreshes that read all their pages leave no hole in between.    *)
(* Excepted is a message.new taken for grace because the page did not yet know *)
(* of the acceptance: a rejection takes it out until its page is read again.   *)
NoHoleUnlessCut == load.phase = "idle" /\ ~ cut /\ ~ mistaken => Loaded \subseteq room.shown

(* A page that shows messages of grace takes them out after a rejection,        *)
(* although every notice of the vote was lost and the room is not selected.    *)
RejectionReachesPage == vote = "rejected" ~> room.shown \cap 1..grace = {}

(* chat.js:66: after a cut, the pages before the last head that was known are   *)
(* recovered too.  A refresh that read all it asked for leaves no hole.        *)
WholeRefreshLeavesNoHole == load.phase = "idle" /\ whole /\ ~ mistaken => Loaded \subseteq room.shown
=============================================================================
