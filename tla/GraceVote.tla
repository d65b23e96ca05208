------------------------------ MODULE GraceVote ------------------------------
(***************************************************************************)
(* Grace messages and the vote that keeps or erases them, in one 1:1       *)
(* conversation of PostgreSQL: a few messages may be sent before the host  *)
(* accepts; acceptance freezes the electorate and opens a vote of          *)
(* VoteSeconds; a rejected vote erases the stored grace messages.          *)
(*                                                                         *)
(* Every handler holds the row lock of the conversation until it commits,  *)
(* so it is one action, with two exceptions.  The ballot: its timestamp    *)
(* decides, and the commit may come after the deadline.  The acceptance:   *)
(* it counts the participants and freezes them in later statements of the  *)
(* same READ COMMITTED transaction, and reads the clock in between.  While *)
(* one of the two is in flight (casting, accepting) only the statements    *)
(* that do not lock the conversation run: the history query, the purge and *)
(* the deletion of the other account.                                      *)
(***************************************************************************)
EXTENDS Integers, FiniteSets

CONSTANTS
  Messages,      \* message UUIDs
  Host, Guest,   \* the two participants
  Nobody,        \* no ballot is in flight
  GraceLimit,    \* conversations.grace_message_limit
  VoteSeconds,   \* 30 s in the code
  Retention,     \* 30 days in the code
  MaxTime        \* bound: the clock of the model stops here

ASSUME GraceVoteConstants ==
  /\ Host # Guest /\ Nobody \notin {Host, Guest}
  /\ GraceLimit \in Nat
  /\ VoteSeconds \in Nat \ {0} /\ MaxTime \in Nat
  /\ Retention \in Nat /\ VoteSeconds < Retention

Members == {Host, Guest}

VARIABLES
  now,         \* clock_timestamp()
  conv,        \* conversations.status
  mode,        \* conversations.mode
  member,      \* conversation_members: "deleted" means the account is gone
  used,        \* conversations.grace_messages_used
  event,       \* message_events
  content,     \* the messages that have a row in the table messages
  vote,        \* votes
  electorate,  \* vote_eligible_members
  ballot,      \* vote_ballots
  casting,     \* the member whose ballot is inserted and not yet committed
  accepting    \* the acceptance that has counted and not yet committed

vars == <<now, conv, mode, member, used, event, content, vote, electorate, ballot,
          casting, accepting>>

-----------------------------------------------------------------------------
(* Rows *)

NoEvent == [sender |-> Nobody, mode |-> "none", sent |-> 0, grace |-> FALSE]
NoVote  == [status |-> "none", expires |-> 0, eligible |-> 0]
NoBallot == [choice |-> "none", voted_at |-> 0]
NotCasting == [by |-> Nobody, row |-> NoBallot]
NotAccepting == [on |-> FALSE, since |-> 0]

(* grace is messages.is_grace_message; an ephemeral message has no such row   *)
(* and its client derives the same from sent_at < accepted_at.                *)
Event == [sender : Members \cup {Nobody}, mode : {"none", "ephemeral", "stored"},
          sent : Nat, grace : BOOLEAN]
Vote  == [status : {"none", "open", "approved", "rejected"}, expires : Nat, eligible : Nat]
Ballot == [choice : {"none", "yes", "no"}, voted_at : Nat]

TypeOK ==
  /\ now \in Nat
  /\ conv \in {"pending", "active", "closed"}
  /\ mode \in {"ephemeral", "stored"}
  /\ member \in [Members -> {"in", "left", "deleted"}]
  /\ used \in 0..GraceLimit
  /\ event \in [Messages -> Event]
  /\ content \subseteq Messages
  /\ vote \in Vote
  /\ electorate \subseteq Members
  /\ ballot \in [Members -> Ballot]
  /\ casting \in [by : Members \cup {Nobody}, row : Ballot]
  /\ accepting \in [on : BOOLEAN, since : Nat]

Init ==
  /\ now = 0
  /\ conv = "pending"
  /\ mode \in {"ephemeral", "stored"}
  /\ member = [u \in Members |-> "in"]
  /\ used = 0
  /\ event = [m \in Messages |-> NoEvent]
  /\ content = {}
  /\ vote = NoVote
  /\ electorate = {}
  /\ ballot = [u \in Members |-> NoBallot]
  /\ casting = NotCasting
  /\ accepting = NotAccepting

-----------------------------------------------------------------------------
Quota == IF GraceLimit < 5 THEN GraceLimit ELSE 5

Present == {u \in Members : member[u] = "in"}

(* The row lock of the conversation is free. *)
Unlocked == casting = NotCasting /\ accepting = NotAccepting

Yes == {u \in Members : ballot[u].choice = "yes"}

(* Mutant of Eligible: the electorate is whoever is still there. *)
EligibleNow == Cardinality(electorate \cap Present)

(* votes.eligible_members *)
Eligible == vote.eligible

(* vote_store.majority_absolute: abstention is a no. *)
Approved == 2 * Cardinality(Yes) > Eligible

(* VoteStore.lock refuses a vote whose count and electorate disagree. *)
Supported ==
  /\ vote.eligible = Cardinality(electorate)
  /\ \A u \in Members : ballot[u] # NoBallot => u \in electorate

VoteOpen == vote.status = "open" /\ now < vote.expires
VoteDue  == vote.status = "open" /\ vote.expires <= now

Grace == {m \in Messages : event[m].grace}

(* Mutant of SendGuard: the vote is forgotten. *)
SendWhileVoting(u, m) ==
  /\ Unlocked /\ u \in Present /\ event[m] = NoEvent
  /\ conv # "closed" /\ Present = Members
  /\ conv = "pending" => used < Quota

(* Messaging.permitted and the checks of Messages.record.  A UUID that exists *)
(* is a retry and changes nothing.                                            *)
SendGuard(u, m) ==
  /\ Unlocked /\ u \in Present /\ event[m] = NoEvent
  /\ conv # "closed" /\ Present = Members
  /\ ~VoteOpen
  /\ conv = "pending" => used < Quota

(* Mutant of Charge: only what is stored is charged to the quota. *)
ChargeStored == IF conv = "pending" /\ mode = "stored" THEN 1 ELSE 0

Charge == IF conv = "pending" THEN 1 ELSE 0

(* Messages.record: one event, its content in stored mode only. *)
Record(u, m) ==
  /\ SendGuard(u, m)
  /\ event' = [event EXCEPT ![m] =
       [sender |-> u, mode |-> mode, sent |-> now, grace |-> conv = "pending"]]
  /\ content' = IF mode = "stored" THEN content \cup {m} ELSE content
  /\ used' = used + Charge
  /\ UNCHANGED <<now, conv, mode, member, vote, electorate, ballot, casting, accepting>>

-----------------------------------------------------------------------------
(* ConversationService.change *)

(* The first acceptance, up to the count: both participants are there.  The   *)
(* deadline must be within the model's clock.                                 *)
Accept ==
  /\ Unlocked /\ Host \in Present
  /\ conv = "pending" /\ Present = Members
  /\ now + VoteSeconds <= MaxTime
  /\ accepting' = [on |-> TRUE, since |-> now]
  /\ UNCHANGED <<now, conv, mode, member, used, event, content, vote, electorate, ballot, casting>>

(* Its later statements: accepted_at is stamped once, some time after the     *)
(* count, and who is still there is marked, counted again and copied to the   *)
(* electorate.  The marked rows are locked, so nobody else goes before the    *)
(* commit; or the transaction fails and nothing happened.                     *)
AcceptEnds(committed) ==
  /\ accepting # NotAccepting
  /\ accepting' = NotAccepting
  /\ IF committed
     THEN /\ conv' = "active"
          /\ \E at \in accepting.since..now :
               /\ at + VoteSeconds <= MaxTime
               /\ vote' = [status |-> "open", expires |-> at + VoteSeconds,
                            eligible |-> Cardinality(Present)]
          /\ electorate' = Present
     ELSE UNCHANGED <<conv, vote, electorate>>
  /\ UNCHANGED <<now, mode, member, used, event, content, ballot, casting>>

Upgrade ==
  /\ Unlocked /\ Host \in Present
  /\ conv = "active" /\ mode = "ephemeral"
  /\ mode' = "stored"
  /\ UNCHANGED <<now, conv, member, used, event, content, vote, electorate,
                 ballot, casting, accepting>>

Close ==
  /\ Unlocked /\ Present # {} /\ conv # "closed"
  /\ conv' = "closed"
  /\ UNCHANGED <<now, mode, member, used, event, content, vote, electorate,
                 ballot, casting, accepting>>

(* Leaving closes the conversation; neither the vote nor the electorate moves. *)
Leave(u) ==
  /\ Unlocked /\ u \in Present
  /\ member' = [member EXCEPT ![u] = "left"]
  /\ conv' = "closed"
  /\ UNCHANGED <<now, mode, used, event, content, vote, electorate, ballot, casting, accepting>>

(* Identity.delete: the membership and the sent messages go in cascade, the   *)
(* electorate and the ballots stay (migrations 0004 and 0006).  It takes no   *)
(* lock of the conversation, but a ballot holds the row of its user and an    *)
(* acceptance that of the host.                                               *)
DeleteAccount(u) ==
  /\ member[u] # "deleted" /\ casting.by # u
  /\ u = Host => accepting = NotAccepting
  /\ member' = [member EXCEPT ![u] = "deleted"]
  /\ event' = [m \in Messages |-> IF event[m].sender = u THEN NoEvent ELSE event[m]]
  /\ content' = {m \in content : event[m].sender # u}
  /\ UNCHANGED <<now, conv, mode, used, vote, electorate, ballot, casting, accepting>>

-----------------------------------------------------------------------------
(* Voting *)

(* Mutant of Erased: only the grace messages of a conversation still in use. *)
ErasedIfActive == IF conv = "active" THEN Grace ELSE {}

Erased == Grace

(* VoteStore.resolve: the verdict and the deletion commit together. *)
Resolve ==
  /\ Unlocked /\ VoteDue /\ Supported
  /\ vote' = [vote EXCEPT !.status = IF Approved THEN "approved" ELSE "rejected"]
  /\ content' = IF Approved THEN content ELSE content \ Erased
  /\ UNCHANGED <<now, conv, mode, member, used, event, electorate, ballot, casting, accepting>>

(* GET, a late or repeated POST, accept again: each resolves an overdue vote. *)
Read(u) == u \in Present \cap electorate /\ Resolve

(* Mutant of WorkerResolves: only conversations in use are looked at. *)
WorkerResolvesActive == conv = "active" /\ Resolve

(* resolve_votes_once, every second. *)
WorkerResolves == Resolve

(* Mutant of BallotGuard: the deadline was checked before waiting for the lock. *)
BallotWhenOpen(u) == vote.status = "open" /\ ballot[u] = NoBallot

(* VoteStore.ballot: the INSERT reads the clock itself. *)
BallotGuard(u) == VoteOpen /\ ballot[u] = NoBallot

Cast(u, choice) ==
  /\ Unlocked /\ u \in Present \cap electorate /\ Supported
  /\ BallotGuard(u)
  /\ casting' = [by |-> u, row |-> [choice |-> choice, voted_at |-> now]]
  /\ UNCHANGED <<now, conv, mode, member, used, event, content, vote, electorate,
                 ballot, accepting>>

CastEnds(committed) ==
  /\ casting # NotCasting
  /\ ballot' = IF committed THEN [ballot EXCEPT ![casting.by] = casting.row] ELSE ballot
  /\ casting' = NotCasting
  /\ UNCHANGED <<now, conv, mode, member, used, event, content, vote, electorate, accepting>>

-----------------------------------------------------------------------------
(* worker.cleanup_once: content and event expire at the same instant. *)
Expired(m) == event[m] # NoEvent /\ event[m].sent + Retention <= now

Cleanup ==
  /\ \E m \in Messages : Expired(m)
  /\ event' = [m \in Messages |-> IF Expired(m) THEN NoEvent ELSE event[m]]
  /\ content' = {m \in content : ~Expired(m)}
  /\ UNCHANGED <<now, conv, mode, member, used, vote, electorate, ballot, casting, accepting>>

Tick ==
  /\ now < MaxTime /\ now' = now + 1
  /\ UNCHANGED <<conv, mode, member, used, event, content, vote, electorate,
                 ballot, casting, accepting>>

Next ==
  \/ \E u \in Members, m \in Messages : Record(u, m)
  \/ Accept \/ Upgrade \/ Close
  \/ \E u \in Members : Leave(u) \/ DeleteAccount(u) \/ Read(u)
  \/ \E u \in Members, choice \in {"yes", "no"} : Cast(u, choice)
  \/ \E committed \in BOOLEAN : CastEnds(committed) \/ AcceptEnds(committed)
  \/ WorkerResolves \/ Cleanup \/ Tick

Spec == Init /\ [][Next]_vars

(* Time passes, a transaction ends (statement and lock timeouts), and the     *)
(* worker tries every second.                                                 *)
Fairness ==
  /\ WF_vars(Tick)
  /\ WF_vars(\E committed \in BOOLEAN : CastEnds(committed))
  /\ WF_vars(WorkerResolves)

FairSpec == Spec /\ Fairness

-----------------------------------------------------------------------------
(* Messages.history, for a participant that did not leave *)

(* Mutant of HiddenGrace: only a recorded verdict hides the grace messages. *)
HiddenOnceRejected == IF vote.status = "rejected" THEN Grace ELSE {}

HiddenGrace ==
  IF vote.status = "rejected" \/ (VoteDue /\ ~Approved) THEN Grace ELSE {}

History ==
  {m \in content : mode = "stored" /\ ~Expired(m)} \ HiddenGrace

-----------------------------------------------------------------------------
(* Properties *)

(* The verdict is the majority of the electorate frozen at acceptance, over   *)
(* the ballots its members cast before the deadline: no ballot slips in late  *)
(* or after the verdict, and who left or deleted the account later still      *)
(* counts (DEC-57, DEC-58, DEC-71, DEC-72).  The electorate is the two        *)
(* participants, or the host alone if the guest's account went between the    *)
(* count and the freeze: whoever still has an account has a vote.             *)
InTime == {u \in electorate : ballot[u].choice = "yes" /\ ballot[u].voted_at < vote.expires}

VerdictMatchesBallots ==
  vote.status \in {"approved", "rejected"} =>
    /\ vote.status = "approved" <=> 2 * Cardinality(InTime) > Cardinality(electorate)
    /\ Host \in electorate
    /\ \A u \in Members : member[u] # "deleted" => u \in electorate

(* Once rejected, no grace content is left or ever comes back, whoever        *)
(* resolved, closed, left, upgraded or retried in the meantime.               *)
RejectedGraceIsErased ==
  vote.status = "rejected" => content \cap Grace = {}

(* What a reader can see of the grace messages after the deadline stays: the  *)
(* history query decides as the resolution will, before it ran.  Only age     *)
(* and the deletion of the sender's account take a message away.              *)
VisibleGraceStays ==
  [][\A m \in History :
       (VoteDue \/ vote.status = "approved")
         => m \in History' \/ Expired(m)' \/ event'[m] = NoEvent]_vars

(* What a reader no longer sees after the deadline does not come back, unless *)
(* a ballot was in flight when the deadline passed: nobody who leaves, no     *)
(* retry and no upgrade turns the verdict.                                    *)
HiddenGraceStaysHidden ==
  [][vote.status # "none" /\ vote.expires <= now /\ Unlocked
       => (History \cap Grace)' \subseteq History]_vars

(* The quota bounds the grace messages of both participants together, stored  *)
(* or ephemeral, however many were purged or deleted since.                   *)
QuotaHolds ==
  /\ used <= Quota
  /\ Cardinality(Grace) <= used

(* A message is a grace message or was sent after the deadline of the vote:   *)
(* nothing is sent while the participants vote.                               *)
NothingSentWhileVoting ==
  \A m \in Messages : event[m] # NoEvent /\ ~event[m].grace =>
    vote # NoVote /\ vote.expires <= event[m].sent

(* Every vote ends, even if the two participants never come back. *)
EveryVoteEnds == vote.status = "open" ~> vote.status \in {"approved", "rejected"}
=============================================================================
