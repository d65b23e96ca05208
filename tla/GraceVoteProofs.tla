--------------------------- MODULE GraceVoteProofs ---------------------------
(***************************************************************************)
(* Proofs about GraceVote for every set of messages, every limit and every *)
(* length of the vote and of the retention.                                *)
(***************************************************************************)
EXTENDS GraceVote, FiniteSetTheorems, TLAPS

(***************************************************************************)
(* Type correctness.  The quota is what keeps used within the CHECK of the *)
(* table: Record charges only while pending and only below Quota.          *)
(***************************************************************************)
LEMMA RowsAreTyped ==
  /\ NoEvent \in Event
  /\ NoVote \in Vote
  /\ NoBallot \in Ballot
  /\ NotCasting \in [by : Members \cup {Nobody}, row : Ballot]
  /\ NotAccepting \in [on : BOOLEAN, since : Nat]
BY DEF NoEvent, Event, NoVote, Vote, NoBallot, Ballot, NotCasting, NotAccepting

LEMMA MembersAreFinite == IsFiniteSet(Members)
<1>1. IsFiniteSet({Host})
  BY FS_Singleton
<1>2. IsFiniteSet({Host} \cup {Guest})
  BY <1>1, FS_AddElement
<1>. QED
  BY <1>2 DEF Members

LEMMA CountIsNatural == ASSUME NEW S, S \subseteq Members PROVE Cardinality(S) \in Nat
BY MembersAreFinite, FS_Subset, FS_CardinalityType

LEMMA TypeInit == Init => TypeOK
BY RowsAreTyped, GraceVoteConstants DEF Init, TypeOK, Vote

LEMMA TypeStep == TypeOK /\ [Next]_vars => TypeOK'
<1> SUFFICES ASSUME TypeOK, [Next]_vars PROVE TypeOK'
  OBVIOUS
<1> USE GraceVoteConstants, RowsAreTyped DEF TypeOK
<1>1. ASSUME NEW u \in Members, NEW m \in Messages, Record(u, m) PROVE TypeOK'
  <2>1. [sender |-> u, mode |-> mode, sent |-> now, grace |-> conv = "pending"] \in Event
    BY DEF Event
  <2>2. event' \in [Messages -> Event]
    BY <1>1, <2>1 DEF Record
  <2>3. used' \in 0..GraceLimit
    BY <1>1 DEF Record, SendGuard, Charge, Quota
  <2>. QED
    BY <1>1, <2>2, <2>3 DEF Record
<1>2. CASE Accept
  BY <1>2 DEF Accept
<1>3. CASE Upgrade
  BY <1>3 DEF Upgrade
<1>4. CASE Close
  BY <1>4 DEF Close
<1>5. ASSUME NEW u \in Members, Leave(u) PROVE TypeOK'
  BY <1>5 DEF Leave
<1>6. ASSUME NEW u \in Members, DeleteAccount(u) PROVE TypeOK'
  BY <1>6 DEF DeleteAccount
<1>7. CASE Resolve
  <2>1. vote' \in Vote
    BY <1>7 DEF Resolve, Vote
  <2>. QED
    BY <1>7, <2>1 DEF Resolve
<1>8. ASSUME NEW u \in Members, NEW choice \in {"yes", "no"}, Cast(u, choice) PROVE TypeOK'
  BY <1>8 DEF Cast, Ballot
<1>9. ASSUME NEW committed \in BOOLEAN, CastEnds(committed) PROVE TypeOK'
  <2>1. ballot' \in [Members -> Ballot]
    BY <1>9 DEF CastEnds
  <2>. QED
    BY <1>9, <2>1 DEF CastEnds
<1>10. ASSUME NEW committed \in BOOLEAN, AcceptEnds(committed) PROVE TypeOK'
  <2>1. Cardinality(Present) \in Nat
    BY CountIsNatural DEF Present
  <2>2. vote' \in Vote
    BY <1>10, <2>1 DEF AcceptEnds, Vote
  <2>. QED
    BY <1>10, <2>2 DEF AcceptEnds, Present
<1>11. CASE Cleanup
  BY <1>11 DEF Cleanup
<1>12. CASE Tick
  BY <1>12 DEF Tick
<1>13. CASE UNCHANGED vars
  BY <1>13 DEF vars
<1>. QED
  BY <1>1, <1>2, <1>3, <1>4, <1>5, <1>6, <1>7, <1>8, <1>9, <1>10, <1>11, <1>12, <1>13
     DEF Next, Read, WorkerResolves

(* Every reachable state has the types of the rows and keeps the quota column *)
(* within its CHECK constraint.                                               *)
THEOREM TypeCorrect == Spec => []TypeOK
BY TypeInit, TypeStep, PTL DEF Spec

-----------------------------------------------------------------------------
(***************************************************************************)
(* The inductive invariant.  A ballot and an acceptance in flight are what *)
(* makes the properties hard: the ballot commits after a deadline it did   *)
(* not pass, the acceptance freezes who is left of the two it counted.     *)
(***************************************************************************)

(* The vote exists from the first acceptance on. *)
VoteFollowsConversation ==
  /\ conv = "pending" => vote.status = "none"
  /\ conv = "active" => vote.status # "none"

(* Until then nobody has voted.  Afterwards the electorate is the host and,    *)
(* unless the account went before the freeze, the guest; eligible_members is  *)
(* its size, and only its members vote.                                       *)
ElectorateIsFrozen ==
  IF vote.status = "none"
  THEN vote = NoVote /\ casting = NotCasting /\ \A u \in Members : ballot[u] = NoBallot
  ELSE /\ Host \in electorate
       /\ \A u \in Members : member[u] # "deleted" => u \in electorate
       /\ Supported

(* A ballot in flight keeps the vote open, whatever the clock says, and is     *)
(* the first of its member.                                                   *)
FlightKeepsVoteOpen ==
  casting # NotCasting =>
    /\ casting.by \in electorate /\ vote.status = "open"
    /\ casting.row.voted_at < vote.expires
    /\ ballot[casting.by] = NoBallot

(* While an acceptance is in flight nobody leaves, and the host's account      *)
(* stays: only the guest may be gone when it commits.                         *)
AcceptanceInFlight ==
  accepting # NotAccepting =>
    /\ conv = "pending" /\ casting = NotCasting /\ accepting.since <= now
    /\ member[Host] = "in" /\ member[Guest] # "left"

BallotsInTime ==
  \A u \in Members : ballot[u].choice = "yes" => ballot[u].voted_at < vote.expires

VerdictIsPast == vote.status \in {"approved", "rejected"} => vote.expires <= now

(* An upgrade reveals nothing: there is nothing to reveal. *)
EphemeralHasNoContent == mode = "ephemeral" => content = {}

(* The foreign key of messages. *)
ContentHasEvent == \A m \in content : event[m] # NoEvent

VoteInv ==
  /\ TypeOK
  /\ EphemeralHasNoContent
  /\ ContentHasEvent
  /\ VoteFollowsConversation
  /\ ElectorateIsFrozen
  /\ FlightKeepsVoteOpen
  /\ AcceptanceInFlight
  /\ BallotsInTime
  /\ VerdictIsPast
  /\ VerdictMatchesBallots
  /\ RejectedGraceIsErased
  /\ NothingSentWhileVoting

LEMMA VoteInvInit == Init => VoteInv
<1> SUFFICES ASSUME Init PROVE VoteInv
  OBVIOUS
<1>1. TypeOK
  BY TypeInit
<1>. QED
  BY <1>1 DEF Init, VoteInv, VoteFollowsConversation, ElectorateIsFrozen, FlightKeepsVoteOpen,
     AcceptanceInFlight, BallotsInTime, VerdictIsPast, VerdictMatchesBallots, RejectedGraceIsErased,
     NothingSentWhileVoting, EphemeralHasNoContent, ContentHasEvent, NoVote, NoBallot, NoEvent

(* The row of the conversation is locked, and the account of the host.        *)
LEMMA AcceptanceStep == VoteInv /\ [Next]_vars => AcceptanceInFlight'
<1> SUFFICES ASSUME VoteInv, [Next]_vars PROVE AcceptanceInFlight'
  OBVIOUS
<1> USE GraceVoteConstants DEF VoteInv, AcceptanceInFlight, TypeOK
<1>1. ASSUME accepting = NotAccepting, accepting' # NotAccepting PROVE AcceptanceInFlight'
  <2>1. Accept
    BY <1>1 DEF Next, Record, Upgrade, Close, Leave, DeleteAccount, Read, WorkerResolves, Resolve,
       Cast, CastEnds, AcceptEnds, Cleanup, Tick, vars
  <2>. QED
    BY <2>1 DEF Accept, Unlocked, Present, Members
<1>2. ASSUME accepting # NotAccepting, accepting' # NotAccepting PROVE AcceptanceInFlight'
  <2>1. accepting' = accepting /\ conv' = conv /\ casting' = casting
    BY <1>2 DEF Next, Record, SendGuard, Accept, Upgrade, Close, Leave, DeleteAccount, Read, Unlocked,
       WorkerResolves, Resolve, Cast, CastEnds, AcceptEnds, Cleanup, Tick, vars
  <2>2. now' = now \/ now' = now + 1
    BY <1>2 DEF Next, Record, Accept, Upgrade, Close, Leave, DeleteAccount, Read, WorkerResolves,
       Resolve, Cast, CastEnds, AcceptEnds, Cleanup, Tick, vars
  <2>3. accepting.since <= now'
    BY <1>2, <2>2
  <2>4. \/ member' = member
        \/ DeleteAccount(Guest)
    BY <1>2 DEF Next, Record, Accept, Upgrade, Close, Leave, DeleteAccount, Read, Unlocked, Members,
       WorkerResolves, Resolve, Cast, CastEnds, AcceptEnds, Cleanup, Tick, vars
  <2>5. member'[Host] = "in" /\ member'[Guest] # "left"
    BY <1>2, <2>4 DEF DeleteAccount, Members
  <2>. QED
    BY <1>2, <2>1, <2>3, <2>5
<1>. QED
  BY <1>1, <1>2

(***************************************************************************)
(* The invariant reads a clock that only grows, a mode it does not mention *)
(* and sets of messages that only Record extends.                          *)
(***************************************************************************)
LEMMA RecordKeepsVoteInv ==
  ASSUME VoteInv, NEW u \in Members, NEW m \in Messages, Record(u, m)
  PROVE  VoteInv'
<1> USE GraceVoteConstants DEF VoteInv, Record
<1>1. TypeOK'
  BY TypeStep DEF Next
<1>2. RejectedGraceIsErased'
  <2>1. vote.status = "rejected" => conv # "pending"
    BY DEF VoteFollowsConversation
  <2>2. ASSUME conv # "pending" PROVE Grace' \subseteq Grace
    <3>1. ~event[m].grace
      BY DEF SendGuard, NoEvent
    <3>2. ~event'[m].grace
      <4>1. (conv = "pending") = FALSE
        BY <2>2
      <4>2. event'[m].grace = (conv = "pending")
        BY DEF TypeOK
      <4>. QED
        BY <4>1, <4>2
    <3>3. \A x \in Messages \ {m} : event'[x] = event[x]
      BY DEF TypeOK
    <3>. QED
      BY <3>1, <3>2, <3>3 DEF Grace
  <2>3. conv # "pending" => m \notin Grace'
    BY DEF Grace, SendGuard, TypeOK, NoEvent
  <2>. QED
    BY <2>1, <2>2, <2>3 DEF RejectedGraceIsErased
<1>3. NothingSentWhileVoting'
  <2>1. ASSUME NEW x \in Messages, event'[x] # NoEvent, ~event'[x].grace
        PROVE  vote # NoVote /\ vote.expires <= event'[x].sent
    <3>1. CASE x # m
      BY <2>1, <3>1 DEF NothingSentWhileVoting, TypeOK
    <3>2. CASE x = m
      <4>1. conv = "active" /\ event'[x].sent = now
        BY <2>1, <3>2 DEF SendGuard, TypeOK
      <4>2. vote.status # "none" /\ vote # NoVote
        BY <4>1 DEF VoteFollowsConversation, NoVote
      <4>3. vote.expires <= now
        BY <4>2 DEF SendGuard, VoteOpen, VerdictIsPast, TypeOK, Vote
      <4>. QED
        BY <4>1, <4>2, <4>3
    <3>. QED
      BY <3>1, <3>2
  <2>. QED
    BY <2>1 DEF NothingSentWhileVoting
<1>4. VerdictMatchesBallots'
  BY DEF VerdictMatchesBallots, InTime
<1>5. ContentHasEvent'
  <2>1. u # Nobody
    BY DEF Members
  <2>2. event'[m] # NoEvent /\ \A x \in Messages \ {m} : event'[x] = event[x]
    BY <2>1 DEF TypeOK, NoEvent
  <2>. QED
    BY <2>2 DEF ContentHasEvent, TypeOK
<1>6. AcceptanceInFlight'
  BY AcceptanceStep DEF Next
<1>. QED
  BY <1>1, <1>2, <1>3, <1>4, <1>5, <1>6 DEF VoteFollowsConversation, ElectorateIsFrozen, Supported,
     FlightKeepsVoteOpen, BallotsInTime, VerdictIsPast, EphemeralHasNoContent

(* Who is still there is exactly who has not deleted the account.             *)
LEMMA AcceptEndsKeepsVoteInv ==
  ASSUME VoteInv, NEW committed \in BOOLEAN, AcceptEnds(committed), committed
  PROVE  VoteInv'
<1> USE GraceVoteConstants DEF VoteInv, AcceptEnds
<1>1. TypeOK' /\ AcceptanceInFlight'
  BY TypeStep, AcceptanceStep DEF Next
<1>2. conv = "pending" /\ member[Host] = "in" /\ member[Guest] # "left"
  BY DEF AcceptanceInFlight
<1>3. vote = NoVote /\ casting = NotCasting /\ \A u \in Members : ballot[u] = NoBallot
  BY <1>2 DEF VoteFollowsConversation, ElectorateIsFrozen
<1>4. vote'.status = "open" /\ vote'.eligible = Cardinality(electorate')
  OBVIOUS
<1>5. ElectorateIsFrozen'
  BY <1>2, <1>3, <1>4 DEF ElectorateIsFrozen, Supported, Present, Members, TypeOK
<1>6. BallotsInTime'
  BY <1>3 DEF BallotsInTime, NoBallot
<1>7. NothingSentWhileVoting'
  BY <1>3 DEF NothingSentWhileVoting
<1>. QED
  BY <1>1, <1>3, <1>4, <1>5, <1>6, <1>7 DEF VoteFollowsConversation, FlightKeepsVoteOpen,
     VerdictIsPast, VerdictMatchesBallots, RejectedGraceIsErased, EphemeralHasNoContent, ContentHasEvent

(* The verdict: what is yes was in time and of the electorate. *)
LEMMA ResolveKeepsVoteInv == VoteInv /\ Resolve => VoteInv'
<1> SUFFICES ASSUME VoteInv, Resolve PROVE VoteInv'
  OBVIOUS
<1> USE GraceVoteConstants DEF VoteInv, Resolve
<1>1. TypeOK' /\ AcceptanceInFlight'
  BY TypeStep, AcceptanceStep DEF Next, WorkerResolves
<1>2. /\ vote.status = "open" /\ vote.expires <= now
      /\ vote'.expires = vote.expires /\ vote'.eligible = vote.eligible
  BY DEF VoteDue, TypeOK, Vote
<1>3. Yes = InTime
  BY <1>2 DEF ElectorateIsFrozen, Supported, BallotsInTime, Yes, InTime, TypeOK, NoBallot
<1>4. InTime' = InTime
  BY <1>2 DEF InTime
<1>5. vote'.status = IF Approved THEN "approved" ELSE "rejected"
  BY DEF TypeOK, Vote
<1>6. Approved <=> 2 * Cardinality(InTime) > Cardinality(electorate)
  BY <1>3 DEF Approved, Eligible, Supported
<1>7. Host \in electorate /\ \A u \in Members : member[u] # "deleted" => u \in electorate
  BY <1>2 DEF ElectorateIsFrozen
<1>8. VerdictMatchesBallots'
  BY <1>4, <1>5, <1>6, <1>7 DEF VerdictMatchesBallots
<1>9. RejectedGraceIsErased'
  BY <1>5 DEF RejectedGraceIsErased, Erased, Grace
<1>10. NothingSentWhileVoting'
  BY <1>2, <1>5 DEF NothingSentWhileVoting, NoVote
<1>11. ElectorateIsFrozen'
  BY <1>2, <1>5, <1>7 DEF ElectorateIsFrozen, Supported
<1>. QED
  BY <1>1, <1>2, <1>5, <1>8, <1>9, <1>10, <1>11 DEF VoteFollowsConversation,
     FlightKeepsVoteOpen, Unlocked, BallotsInTime, VerdictIsPast, EphemeralHasNoContent, ContentHasEvent

LEMMA CastKeepsVoteInv ==
  ASSUME VoteInv, NEW u \in Members, NEW choice \in {"yes", "no"}, Cast(u, choice)
  PROVE  VoteInv'
<1> USE GraceVoteConstants DEF VoteInv, Cast
<1>1. TypeOK' /\ AcceptanceInFlight'
  BY TypeStep, AcceptanceStep DEF Next
<1>2. vote.status = "open" /\ now < vote.expires /\ ballot[u] = NoBallot /\ u \in electorate
  BY DEF BallotGuard, VoteOpen
<1>3. ElectorateIsFrozen' /\ FlightKeepsVoteOpen'
  BY <1>2 DEF ElectorateIsFrozen, Supported, FlightKeepsVoteOpen
<1>. QED
  BY <1>1, <1>2, <1>3 DEF VoteFollowsConversation, BallotsInTime, VerdictIsPast,
     VerdictMatchesBallots, InTime, RejectedGraceIsErased, Grace, NothingSentWhileVoting,
     EphemeralHasNoContent, ContentHasEvent

LEMMA CastEndsKeepsVoteInv ==
  ASSUME VoteInv, NEW committed \in BOOLEAN, CastEnds(committed)
  PROVE  VoteInv'
<1> USE GraceVoteConstants DEF VoteInv, CastEnds
<1>1. TypeOK' /\ AcceptanceInFlight'
  BY TypeStep, AcceptanceStep DEF Next
<1>2. vote.status = "open" /\ casting.row.voted_at < vote.expires /\ casting.by \in electorate
  BY DEF FlightKeepsVoteOpen
<1>3. BallotsInTime'
  BY <1>2 DEF BallotsInTime, TypeOK
<1>4. ElectorateIsFrozen'
  BY <1>2 DEF ElectorateIsFrozen, Supported, TypeOK
<1>. QED
  BY <1>1, <1>2, <1>3, <1>4 DEF VoteFollowsConversation, FlightKeepsVoteOpen,
     VerdictIsPast, VerdictMatchesBallots, RejectedGraceIsErased, Grace,
     NothingSentWhileVoting, EphemeralHasNoContent, ContentHasEvent

(* Deletion and purge only take events and content away. *)
LEMMA RemovalKeepsVoteInv ==
  ASSUME VoteInv, TypeOK', AcceptanceInFlight',
         \A m \in Messages : event'[m] \in {event[m], NoEvent},
         content' \subseteq content, \A m \in content' : event'[m] = event[m],
         mode' \in {mode, "stored"},
         \A u \in Members : member'[u] \in {member[u], "deleted"},
         UNCHANGED <<now, conv, vote, electorate, ballot, casting>>
  PROVE  VoteInv'
<1> USE DEF VoteInv
<1>1. Grace' \subseteq Grace
  BY DEF Grace, NoEvent
<1>2. RejectedGraceIsErased'
  BY <1>1 DEF RejectedGraceIsErased
<1>3. NothingSentWhileVoting'
  BY DEF NothingSentWhileVoting
<1>4. ElectorateIsFrozen' /\ VerdictMatchesBallots'
  BY DEF ElectorateIsFrozen, Supported, VerdictMatchesBallots, InTime
<1>. QED
  BY <1>2, <1>3, <1>4 DEF VoteFollowsConversation, FlightKeepsVoteOpen,
     BallotsInTime, VerdictIsPast, EphemeralHasNoContent, ContentHasEvent

LEMMA VoteInvStep == VoteInv /\ [Next]_vars => VoteInv'
<1> SUFFICES ASSUME VoteInv, [Next]_vars PROVE VoteInv'
  OBVIOUS
<1> USE GraceVoteConstants
<1>0. TypeOK /\ TypeOK' /\ AcceptanceInFlight'
  BY TypeStep, AcceptanceStep DEF VoteInv
<1>1. ASSUME NEW u \in Members, NEW m \in Messages, Record(u, m) PROVE VoteInv'
  BY <1>1, RecordKeepsVoteInv
<1>2. ASSUME Accept \/ (\E committed \in BOOLEAN : ~committed /\ AcceptEnds(committed)) PROVE VoteInv'
  BY <1>0, <1>2, RemovalKeepsVoteInv DEF Accept, AcceptEnds
<1>3. ASSUME NEW committed \in BOOLEAN, AcceptEnds(committed), committed PROVE VoteInv'
  BY <1>3, AcceptEndsKeepsVoteInv
<1>4. CASE Upgrade
  BY <1>0, <1>4, RemovalKeepsVoteInv DEF Upgrade
<1>5. ASSUME Close \/ (\E u \in Members : Leave(u)) PROVE VoteInv'
  <2>1. \A u \in Members : member[u] # "deleted" <=> member'[u] # "deleted"
    BY <1>0, <1>5 DEF Close, Leave, Present, TypeOK
  <2>2. ElectorateIsFrozen' /\ VerdictMatchesBallots'
    BY <1>5, <2>1 DEF Close, Leave, VoteInv, ElectorateIsFrozen, Supported, VerdictMatchesBallots, InTime
  <2>. QED
    BY <1>0, <1>5, <2>2 DEF Close, Leave, VoteInv, VoteFollowsConversation,
       FlightKeepsVoteOpen, Unlocked, BallotsInTime, VerdictIsPast,
       RejectedGraceIsErased, Grace, NothingSentWhileVoting, EphemeralHasNoContent, ContentHasEvent
<1>6. ASSUME NEW u \in Members, DeleteAccount(u) PROVE VoteInv'
  BY <1>0, <1>6, RemovalKeepsVoteInv DEF DeleteAccount, TypeOK
<1>7. CASE Resolve
  BY <1>7, ResolveKeepsVoteInv
<1>8. ASSUME NEW u \in Members, NEW choice \in {"yes", "no"}, Cast(u, choice) PROVE VoteInv'
  BY <1>8, CastKeepsVoteInv
<1>9. ASSUME NEW committed \in BOOLEAN, CastEnds(committed) PROVE VoteInv'
  BY <1>9, CastEndsKeepsVoteInv
<1>10. CASE Cleanup
  BY <1>0, <1>10, RemovalKeepsVoteInv DEF Cleanup, TypeOK
<1>11. CASE Tick
  <2>1. VerdictIsPast'
    BY <1>0, <1>11 DEF Tick, VoteInv, VerdictIsPast, TypeOK, Vote
  <2>. QED
    BY <1>0, <1>11, <2>1 DEF Tick, VoteInv, VoteFollowsConversation, ElectorateIsFrozen, Supported,
       FlightKeepsVoteOpen, BallotsInTime, VerdictMatchesBallots, InTime,
       RejectedGraceIsErased, Grace, NothingSentWhileVoting, EphemeralHasNoContent, ContentHasEvent
<1>12. CASE UNCHANGED vars
  BY <1>0, <1>12, RemovalKeepsVoteInv DEF vars
<1>. QED
  BY <1>1, <1>2, <1>3, <1>4, <1>5, <1>6, <1>7, <1>8, <1>9, <1>10, <1>11, <1>12
     DEF Next, Read, WorkerResolves

THEOREM VoteInvariant == Spec => []VoteInv
BY VoteInvInit, VoteInvStep, PTL DEF Spec

(* The verdict is the majority of the frozen electorate over the ballots cast *)
(* in time, whoever left, deleted an account or committed late.               *)
THEOREM VerdictsAreRight == Spec => []VerdictMatchesBallots
<1>1. VoteInv => VerdictMatchesBallots
  BY DEF VoteInv
<1>. QED
  BY <1>1, VoteInvariant, PTL

(* Rejected grace content is gone for good. *)
THEOREM RejectionErases == Spec => []RejectedGraceIsErased
<1>1. VoteInv => RejectedGraceIsErased
  BY DEF VoteInv
<1>. QED
  BY <1>1, VoteInvariant, PTL

(* No message is sent between acceptance and the deadline of the vote. *)
THEOREM SilenceWhileVoting == Spec => []NothingSentWhileVoting
<1>1. VoteInv => NothingSentWhileVoting
  BY DEF VoteInv
<1>. QED
  BY <1>1, VoteInvariant, PTL

-----------------------------------------------------------------------------
(***************************************************************************)
(* The quota.  Purges and deletions lower the number of grace messages but *)
(* never the counter, so only Record matters.                              *)
(***************************************************************************)
QuotaInv == TypeOK /\ QuotaHolds /\ IsFiniteSet(Grace)

LEMMA QuotaInvInit == Init => QuotaInv
<1> SUFFICES ASSUME Init PROVE QuotaInv
  OBVIOUS
<1>1. Grace = {}
  BY DEF Init, Grace, NoEvent
<1>. QED
  BY <1>1, TypeInit, FS_EmptySet, GraceVoteConstants DEF QuotaInv, QuotaHolds, Init, Quota

LEMMA FewerGraceMessages ==
  ASSUME QuotaInv, TypeOK', Grace' \subseteq Grace, used' = used
  PROVE  QuotaInv'
<1>1. IsFiniteSet(Grace') /\ Cardinality(Grace') <= Cardinality(Grace)
  BY FS_Subset DEF QuotaInv
<1>2. Cardinality(Grace) \in Nat /\ Cardinality(Grace') \in Nat
  BY <1>1, FS_CardinalityType DEF QuotaInv
<1>. QED
  BY <1>1, <1>2, GraceVoteConstants DEF QuotaInv, QuotaHolds, Quota, TypeOK

LEMMA RecordKeepsQuota ==
  ASSUME QuotaInv, TypeOK', NEW u \in Members, NEW m \in Messages, Record(u, m)
  PROVE  QuotaInv'
<1>1. \A x \in Messages \ {m} : event'[x] = event[x]
  BY DEF Record, QuotaInv, TypeOK
<1>2. event'[m].grace = (conv = "pending")
  BY DEF Record, QuotaInv, TypeOK
<1>3. CASE conv = "pending"
  <2>1. Grace' \subseteq Grace \cup {m}
    BY <1>1 DEF Grace
  <2>2. /\ IsFiniteSet(Grace \cup {m})
        /\ Cardinality(Grace \cup {m}) <= Cardinality(Grace) + 1
    <3>1. IsFiniteSet(Grace) /\ Cardinality(Grace) \in Nat
      BY FS_CardinalityType DEF QuotaInv
    <3>2. /\ IsFiniteSet(Grace \cup {m})
          /\ Cardinality(Grace \cup {m}) \in {Cardinality(Grace), Cardinality(Grace) + 1}
      BY <3>1, FS_AddElement
    <3>. QED
      BY <3>1, <3>2
  <2>3. IsFiniteSet(Grace') /\ Cardinality(Grace') <= Cardinality(Grace \cup {m})
    BY <2>1, <2>2, FS_Subset
  <2>4. used' = used + 1 /\ used < Quota
    BY <1>3 DEF Record, Charge, SendGuard
  <2>5. /\ Cardinality(Grace) \in Nat /\ Cardinality(Grace') \in Nat
        /\ Cardinality(Grace \cup {m}) \in Nat
    BY <2>2, <2>3, FS_CardinalityType DEF QuotaInv
  <2>. QED
    BY <2>2, <2>3, <2>4, <2>5, GraceVoteConstants DEF QuotaInv, QuotaHolds, Quota, TypeOK
<1>4. CASE conv # "pending"
  <2>1. (conv = "pending") = FALSE
    BY <1>4
  <2>2. ~event'[m].grace
    BY <1>2, <2>1
  <2>3. Grace' \subseteq Grace
    BY <1>1, <2>2 DEF Grace
  <2>4. used' = used
    BY <1>4 DEF Record, Charge, QuotaInv, TypeOK
  <2>. QED
    BY <2>3, <2>4, FewerGraceMessages
<1>. QED
  BY <1>3, <1>4

LEMMA QuotaInvStep == QuotaInv /\ [Next]_vars => QuotaInv'
<1> SUFFICES ASSUME QuotaInv, [Next]_vars PROVE QuotaInv'
  OBVIOUS
<1>1. TypeOK'
  BY TypeStep DEF QuotaInv
<1>2. ASSUME NEW u \in Members, NEW m \in Messages, Record(u, m) PROVE QuotaInv'
  BY <1>1, <1>2, RecordKeepsQuota
<1>3. ASSUME event' = event, used' = used PROVE QuotaInv'
  BY <1>1, <1>3, FewerGraceMessages DEF Grace
<1>4. ASSUME \A m \in Messages : event'[m] \in {event[m], NoEvent}, used' = used PROVE QuotaInv'
  <2>1. Grace' \subseteq Grace
    BY <1>4 DEF Grace, NoEvent
  <2>. QED
    BY <1>1, <1>4, <2>1, FewerGraceMessages
<1>5. ASSUME NEW u \in Members, DeleteAccount(u) PROVE QuotaInv'
  BY <1>4, <1>5 DEF DeleteAccount
<1>6. CASE Cleanup
  BY <1>4, <1>6 DEF Cleanup
<1>. QED
  BY <1>2, <1>3, <1>5, <1>6 DEF Next, Accept, Upgrade, Close, Leave, Read, WorkerResolves,
     Resolve, Cast, CastEnds, AcceptEnds, Tick, vars

(* The quota bounds the grace messages of any number of messages and limits. *)
THEOREM QuotaIsKept == Spec => []QuotaHolds
<1>1. QuotaInv => QuotaHolds
  BY DEF QuotaInv
<1>. QED
  BY <1>1, QuotaInvInit, QuotaInvStep, PTL DEF Spec

-----------------------------------------------------------------------------
(***************************************************************************)
(* What a reader sees around the deadline.  While the vote is due, only a  *)
(* ballot in flight still moves the count, and only upwards.               *)
(***************************************************************************)
LEMMA AcceptedOnce == VoteInv /\ vote.status # "none" => conv # "pending" /\ accepting = NotAccepting
BY DEF VoteInv, VoteFollowsConversation, AcceptanceInFlight

LEMMA YesOnlyGrows ==
  ASSUME VoteInv, [Next]_vars, vote.status # "none"
  PROVE  Yes \subseteq Yes' /\ vote'.eligible = vote.eligible
<1>1. vote'.eligible = vote.eligible
  BY AcceptedOnce DEF TypeOK, Vote, VoteInv, VoteFollowsConversation, Next, Record, Accept, Upgrade, Close, Leave,
     DeleteAccount, Read, WorkerResolves, Resolve, Cast, CastEnds, AcceptEnds, Cleanup, Tick, vars
<1>2. ASSUME NEW committed \in BOOLEAN, CastEnds(committed) PROVE Yes \subseteq Yes'
  BY <1>2 DEF VoteInv, TypeOK, FlightKeepsVoteOpen, NoBallot, CastEnds, Yes
<1>3. (\E committed \in BOOLEAN : CastEnds(committed)) \/ ballot' = ballot
  BY DEF Next, Record, Accept, Upgrade, Close, Leave, DeleteAccount, Read, WorkerResolves,
     Resolve, Cast, AcceptEnds, Cleanup, Tick, vars
<1>. QED
  BY <1>1, <1>2, <1>3 DEF Yes

LEMMA ApprovalStays ==
  ASSUME VoteInv, [Next]_vars, vote.status # "none", Approved
  PROVE  Approved'
<1>1. Yes \subseteq Yes' /\ vote'.eligible = vote.eligible /\ vote.eligible \in Nat
  BY YesOnlyGrows DEF VoteInv, TypeOK, Vote
<1>2. IsFiniteSet(Yes')
  BY MembersAreFinite, FS_Subset DEF Yes
<1>3. Cardinality(Yes) <= Cardinality(Yes') /\ IsFiniteSet(Yes)
  BY <1>1, <1>2, FS_Subset
<1>4. Cardinality(Yes) \in Nat /\ Cardinality(Yes') \in Nat
  BY <1>2, <1>3, FS_CardinalityType
<1>. QED
  BY <1>1, <1>3, <1>4 DEF Approved, Eligible

(* What one step does to the vote once the deadline has passed. *)
LEMMA DueVoteStep ==
  ASSUME VoteInv, [Next]_vars, vote.status # "none", vote.expires <= now
  PROVE  \/ vote' = vote /\ (now' = now \/ now' = now + 1)
         \/ Resolve
BY GraceVoteConstants, AcceptedOnce DEF VoteInv, Next, Record, Accept, Upgrade, Close,
   Leave, DeleteAccount, Read, WorkerResolves, Cast, CastEnds, AcceptEnds, Cleanup, Tick, vars

(* What one step does to the content of one message that is not too old. *)
LEMMA ContentStep ==
  ASSUME VoteInv, [Next]_vars, NEW m \in content, ~Expired(m)
  PROVE  \/ m \in content' /\ event'[m] = event[m]
         \/ event'[m] = NoEvent
         \/ Resolve /\ ~Approved /\ m \in Grace
<1> USE DEF VoteInv, TypeOK
<1>1. m \in Messages
  OBVIOUS
<1>2. ASSUME NEW u \in Members, NEW x \in Messages, Record(u, x)
      PROVE  m \in content' /\ event'[m] = event[m]
  BY <1>1, <1>2 DEF Record, SendGuard, ContentHasEvent
<1>. QED
  BY <1>1, <1>2 DEF Next, Record, SendGuard, Accept, Upgrade, Close, Leave, DeleteAccount, Read,
     WorkerResolves, Resolve, Erased, Cast, CastEnds, AcceptEnds, Cleanup, Tick, vars

LEMMA ModeStep == ASSUME [Next]_vars, mode = "stored" PROVE mode' = "stored"
BY DEF Next, Record, Accept, Upgrade, Close, Leave, DeleteAccount, Read, WorkerResolves,
   Resolve, Cast, CastEnds, AcceptEnds, Cleanup, Tick, vars

LEMMA VisibleGraceStep ==
  ASSUME VoteInv, [Next]_vars, NEW m \in History, VoteDue \/ vote.status = "approved"
  PROVE  m \in History' \/ Expired(m)' \/ event'[m] = NoEvent
<1>1. /\ m \in content /\ m \in Messages /\ mode = "stored" /\ ~Expired(m)
      /\ VoteDue /\ ~Approved => m \notin Grace
  BY DEF History, HiddenGrace, VoteInv, TypeOK
<1>2. vote.status # "none" /\ vote.expires <= now
  BY GraceVoteConstants DEF VoteInv, VerdictIsPast, VoteDue
<1>3. SUFFICES ASSUME event'[m] # NoEvent, ~Expired(m)' PROVE m \in History'
  OBVIOUS
<1>4. m \in content' /\ event'[m] = event[m]
  BY <1>1, <1>3, ContentStep DEF Resolve
<1>5. m \in Grace' => m \in Grace
  BY <1>1, <1>4 DEF Grace
<1>6. m \notin HiddenGrace'
  <2>1. CASE vote' = vote
    BY <1>1, <1>2, <1>5, <2>1, ApprovalStays DEF HiddenGrace, VoteDue
  <2>2. CASE Resolve
    BY <1>1, <1>5, <2>2 DEF HiddenGrace, VoteDue, Resolve, VoteInv, TypeOK, Vote
  <2>. QED
    BY <1>2, <2>1, <2>2, DueVoteStep
<1>. QED
  BY <1>1, <1>3, <1>4, <1>6, ModeStep DEF History

(* The history query agrees with the resolution to come: it never shows after *)
(* the deadline a grace message that the resolution then erases.              *)
THEOREM ReadersAreNotMisled == Spec => VisibleGraceStays
<1>1. VoteInv /\ [Next]_vars
        => [\A m \in History : (VoteDue \/ vote.status = "approved")
              => m \in History' \/ Expired(m)' \/ event'[m] = NoEvent]_vars
  BY VisibleGraceStep
<1>. QED
  BY <1>1, VoteInvariant, PTL DEF Spec, VisibleGraceStays

LEMMA HiddenGraceStep ==
  ASSUME VoteInv, VoteInv', [Next]_vars,
         vote.status # "none", vote.expires <= now, Unlocked,
         NEW m \in History', m \in Grace'
  PROVE  m \in History
<1> USE DEF VoteInv, TypeOK
<1>1. m \in content' /\ mode' = "stored" /\ ~Expired(m)' /\ m \notin HiddenGrace'
  BY DEF History
<1>2. ballot' = ballot /\ vote'.eligible = vote.eligible /\ (now' = now \/ now' = now + 1)
  BY AcceptedOnce DEF Unlocked, Vote, Next, Record, Accept, Upgrade, Close, Leave,
     DeleteAccount, Read, WorkerResolves, Resolve, Cast, CastEnds, AcceptEnds, Cleanup, Tick, vars
<1>3. Approved' = Approved
  BY <1>2 DEF Approved, Yes, Eligible
<1>4. m \in content /\ event'[m] = event[m]
  <2>1. ASSUME NEW u \in Members, NEW x \in Messages, Record(u, x) PROVE x # m
    <3>1. (conv = "pending") = FALSE
      BY DEF VoteFollowsConversation
    <3>2. event'[x].grace = (conv = "pending")
      BY <2>1 DEF Record
    <3>. QED
      BY <3>1, <3>2 DEF Grace
  <2>. QED
    BY <1>1, <2>1 DEF Grace, NoEvent, Next, Record, Accept, Upgrade, Close, Leave, DeleteAccount,
       Read, WorkerResolves, Resolve, Cast, CastEnds, AcceptEnds, Cleanup, Tick, vars
<1>5. mode = "stored"
  BY <1>4 DEF EphemeralHasNoContent
<1>6. ~Expired(m)
  BY <1>1, <1>2, <1>4, GraceVoteConstants DEF Expired, Event
<1>7. m \notin HiddenGrace
  <2>1. m \in Grace /\ vote'.status # "rejected"
    BY <1>1, <1>4 DEF Grace, RejectedGraceIsErased
  <2>2. CASE vote' = vote
    BY <1>1, <1>2, <1>3, <2>1, <2>2, GraceVoteConstants DEF HiddenGrace, VoteDue, Vote
  <2>3. CASE Resolve
    BY <2>1, <2>3 DEF HiddenGrace, Resolve, VoteDue, Vote
  <2>. QED
    BY <2>2, <2>3, DueVoteStep
<1>. QED
  BY <1>4, <1>5, <1>6, <1>7 DEF History

(* Once no ballot is in flight, what is hidden after the deadline stays so.   *)
THEOREM HiddenStaysHidden == Spec => HiddenGraceStaysHidden
<1>1. VoteInv /\ VoteInv' /\ [Next]_vars
        => [vote.status # "none" /\ vote.expires <= now /\ Unlocked
              => (History \cap Grace)' \subseteq History]_vars
  BY HiddenGraceStep
<1>. QED
  BY <1>1, VoteInvariant, PTL DEF Spec, HiddenGraceStaysHidden

-----------------------------------------------------------------------------
(***************************************************************************)
(* What Room assumes of the server.  Room has one vote without a clock: it *)
(* is none, open, then final, nothing is sent while it is open, the        *)
(* messages of grace are the first in the order of sent_at, and a          *)
(* rejection hides exactly those.  Seen is that vote: a vote past its      *)
(* deadline already counts as its resolution will, once no ballot that was *)
(* cast in time is still to commit.                                        *)
(***************************************************************************)
Seen ==
  IF vote.status # "open" THEN vote.status
  ELSE IF VoteOpen \/ ~Unlocked THEN "open"
  ELSE IF Approved THEN "approved" ELSE "rejected"

IsSent(m) == event[m] # NoEvent

(* Every message of grace was sent before the vote began. *)
SentInThePast == \A m \in Messages : IsSent(m) => event[m].sent <= now

GraceBeforeVote ==
  vote.status # "none" => \A m \in Grace : event[m].sent + VoteSeconds <= vote.expires

GraceBeforeAcceptance ==
  accepting # NotAccepting => \A m \in Grace : event[m].sent <= accepting.since

GraceInv == VoteInv /\ SentInThePast /\ GraceBeforeAcceptance /\ GraceBeforeVote

LEMMA GraceInvInit == Init => GraceInv
BY VoteInvInit DEF Init, GraceInv, SentInThePast, GraceBeforeAcceptance, GraceBeforeVote, IsSent, NoVote

LEMMA GraceIsSent == \A m \in Messages : m \in Grace => IsSent(m)
BY DEF Grace, IsSent, NoEvent

(* Messages are forgotten, never changed, except by Record. *)
LEMMA EventStep ==
  ASSUME TypeOK, [Next]_vars, NEW m \in Messages, IsSent(m)'
  PROVE  \/ event'[m] = event[m]
         \/ \E u \in Members : Record(u, m)
<1> USE DEF TypeOK
<1>1. ASSUME NEW u \in Members, NEW x \in Messages, Record(u, x), x # m PROVE event'[m] = event[m]
  BY <1>1 DEF Record
<1>. QED
  BY <1>1 DEF IsSent, Next, Accept, Upgrade, Close, Leave, DeleteAccount, Read, WorkerResolves,
     Resolve, Cast, CastEnds, AcceptEnds, Cleanup, Tick, vars

LEMMA GraceInvStep == GraceInv /\ [Next]_vars => GraceInv'
<1> SUFFICES ASSUME GraceInv, [Next]_vars PROVE GraceInv'
  OBVIOUS
<1>1. VoteInv /\ VoteInv' /\ TypeOK /\ TypeOK'
  BY VoteInvStep DEF GraceInv, VoteInv
<1>2. now' = now \/ now' = now + 1
  BY DEF Next, Record, Accept, Upgrade, Close, Leave, DeleteAccount, Read, WorkerResolves,
     Resolve, Cast, CastEnds, AcceptEnds, Cleanup, Tick, vars
<1>3. ASSUME NEW m \in Messages, IsSent(m)' PROVE event'[m].sent <= now'
  <2>1. CASE event'[m] = event[m]
    <3>1. event[m].sent <= now /\ event[m].sent \in Nat /\ now \in Nat
      BY <1>1, <1>3, <2>1 DEF GraceInv, SentInThePast, IsSent, TypeOK, Event
    <3>. QED BY <1>2, <2>1, <3>1
  <2>2. ASSUME NEW u \in Members, Record(u, m) PROVE event'[m].sent <= now'
    BY <1>1, <2>2 DEF Record, TypeOK
  <2>. QED BY <1>1, <1>3, <2>1, <2>2, EventStep
<1>4. ASSUME NEW m \in Grace', vote'.status # "none"
      PROVE  event'[m].sent + VoteSeconds <= vote'.expires
  <2>0. m \in Messages /\ IsSent(m)' /\ event'[m].grace
    BY <1>4 DEF Grace, IsSent, NoEvent
  <2>1. ASSUME NEW u \in Members, Record(u, m) PROVE FALSE
    <3>1. event'[m].grace = (conv = "pending") /\ vote' = vote
      BY <1>1, <2>0, <2>1 DEF Record, TypeOK
    <3>. QED BY <1>1, <1>4, <2>0, <3>1 DEF VoteInv, VoteFollowsConversation
  <2>2. event'[m] = event[m] /\ m \in Grace /\ IsSent(m)
    BY <1>1, <2>0, <2>1, EventStep DEF Grace, IsSent
  <2>3. ASSUME NEW committed \in BOOLEAN, AcceptEnds(committed), vote.status = "none"
        PROVE  event'[m].sent + VoteSeconds <= vote'.expires
    <3>1. PICK at \in accepting.since..now : vote'.expires = at + VoteSeconds
      BY <1>4, <2>3 DEF AcceptEnds
    <3>2. event[m].sent <= accepting.since /\ event[m].sent \in Nat /\ accepting.since \in Nat
      BY <1>1, <2>0, <2>2, <2>3 DEF GraceInv, GraceBeforeAcceptance, AcceptEnds, TypeOK, Event
    <3>. QED BY <1>1, <2>2, <3>1, <3>2, GraceVoteConstants DEF TypeOK
  <2>4. CASE ~ (vote.status = "none" /\ \E committed \in BOOLEAN : AcceptEnds(committed))
    <3>1. vote'.expires = vote.expires /\ vote.status # "none"
      BY <1>1, <1>4, <2>4, AcceptedOnce DEF AcceptEnds, Next, Record, Accept, Upgrade, Close, Leave, DeleteAccount, Read,
         WorkerResolves, Resolve, VoteDue, Cast, CastEnds, AcceptEnds, Cleanup, Tick, vars, TypeOK, Vote
    <3>. QED BY <2>2, <3>1 DEF GraceInv, GraceBeforeVote
  <2>. QED BY <2>3, <2>4
<1>5. ASSUME NEW m \in Grace', accepting' # NotAccepting PROVE event'[m].sent <= accepting'.since
  <2>0. m \in Messages /\ IsSent(m)' /\ event'[m].grace
    BY <1>5 DEF Grace, IsSent, NoEvent
  <2>1. ASSUME NEW u \in Members, Record(u, m) PROVE FALSE
    BY <1>5, <2>1 DEF Record, SendGuard, Unlocked
  <2>2. event'[m] = event[m] /\ m \in Grace /\ IsSent(m)
    BY <1>1, <2>0, <2>1, EventStep DEF Grace, IsSent
  <2>3. accepting' = accepting \/ accepting'.since = now
    BY <1>5 DEF Next, Record, Accept, Upgrade, Close, Leave, DeleteAccount, Read, WorkerResolves,
       Resolve, Cast, CastEnds, AcceptEnds, Cleanup, Tick, vars
  <2>. QED BY <1>5, <2>0, <2>2, <2>3 DEF GraceInv, GraceBeforeAcceptance, SentInThePast
<1>. QED BY <1>1, <1>3, <1>4, <1>5 DEF GraceInv, SentInThePast, GraceBeforeAcceptance, GraceBeforeVote

THEOREM GraceInvariant == Spec => []GraceInv
BY GraceInvInit, GraceInvStep, PTL DEF Spec

(* The messages of grace are the first of the conversation in the order of     *)
(* sent_at, and the whole vote lies between them and the others: what the page *)
(* concludes from sent_at and the acceptance (chat.js:194) is what the        *)
(* server wrote in is_grace_message.                                          *)
GraceComesFirst ==
  \A m, n \in Messages : IsSent(n) /\ m \in Grace /\ n \notin Grace =>
    event[m].sent + VoteSeconds <= event[n].sent

THEOREM GraceIsAPrefix == Spec => []GraceComesFirst
<1>1. ASSUME GraceInv PROVE GraceComesFirst
  <2> SUFFICES ASSUME NEW m \in Messages, NEW n \in Messages, IsSent(n), m \in Grace, n \notin Grace
               PROVE  event[m].sent + VoteSeconds <= event[n].sent
    BY DEF GraceComesFirst
  <2>1. vote # NoVote /\ vote.expires <= event[n].sent
    BY <1>1 DEF GraceInv, VoteInv, NothingSentWhileVoting, IsSent, Grace
  <2>2. vote.status # "none"
    BY <1>1, <2>1 DEF GraceInv, VoteInv, ElectorateIsFrozen
  <2>3. event[m].sent + VoteSeconds <= vote.expires
    BY <1>1, <2>2 DEF GraceInv, GraceBeforeVote
  <2>4. event[m].sent \in Nat /\ event[n].sent \in Nat /\ vote.expires \in Nat /\ VoteSeconds \in Nat
    BY <1>1, GraceVoteConstants DEF GraceInv, VoteInv, TypeOK, Event, Vote
  <2>. QED BY <2>1, <2>3, <2>4
<1>. QED BY <1>1, GraceInvariant, PTL

(* The steps Room gives its server: Accept, Decide, Send, or nothing Room can  *)
(* tell from a stutter.  An acceptance that commits after the deadline it      *)
(* stamped is Accept and Decide at once.                                       *)
VoteGoesOn ==
  \/ Seen' = Seen
  \/ Seen = "none" /\ Seen' \in {"open", "rejected"}
  \/ Seen = "open" /\ Seen' \in {"approved", "rejected"}

SendsAsInRoom ==
  \A m \in Messages : ~IsSent(m) /\ IsSent(m)' =>
    /\ Seen # "open" /\ Seen' = Seen
    /\ m \in Grace' <=> Seen = "none"

LEMMA SeenCases ==
  ASSUME VoteInv
  PROVE  /\ Seen \in {"none", "open", "approved", "rejected"}
         /\ Seen = "none" <=> vote.status = "none"
BY DEF Seen, VoteInv, TypeOK, Vote

(* Once decided, no step changes what the ballots say.                         *)
LEMMA CountIsFixed ==
  ASSUME VoteInv, [Next]_vars, vote.status # "none", Unlocked, ~VoteOpen
  PROVE  /\ Approved' = Approved
         /\ vote' = vote \/ Resolve
         /\ now' = now \/ now' = now + 1
         /\ Unlocked'
<1> USE DEF VoteInv, TypeOK
<1>1. /\ ballot' = ballot /\ vote'.eligible = vote.eligible
      /\ casting' = casting /\ accepting' = accepting
      /\ now' = now \/ now' = now + 1
  BY AcceptedOnce DEF Unlocked, Vote, BallotGuard, Next, Record, Accept, Upgrade, Close, Leave,
     DeleteAccount, Read, WorkerResolves, Resolve, Cast, CastEnds, AcceptEnds, Cleanup, Tick, vars
<1>2. vote' = vote \/ Resolve
  BY AcceptedOnce DEF Next, Record, Accept, Upgrade, Close, Leave,
     DeleteAccount, Read, WorkerResolves, Cast, CastEnds, AcceptEnds, Cleanup, Tick, vars
<1>. QED BY <1>1, <1>2 DEF Approved, Yes, Eligible, Unlocked

LEMMA SeenStep ==
  ASSUME VoteInv, VoteInv', [Next]_vars
  PROVE  VoteGoesOn
<1>0. /\ Seen \in {"none", "open", "approved", "rejected"}
      /\ Seen' \in {"none", "open", "approved", "rejected"}
  BY SeenCases DEF Seen, VoteInv, TypeOK, Vote
<1>1. CASE vote.status = "none"
  <2>1. ASSUME NEW committed \in BOOLEAN, AcceptEnds(committed), committed PROVE VoteGoesOn
    <3>1. Yes' = {}
      BY <1>1, <2>1 DEF AcceptEnds, VoteInv, ElectorateIsFrozen, Yes, NoBallot
    <3>2. Cardinality(Yes') = 0 /\ vote'.eligible \in Nat
      BY <3>1, FS_EmptySet DEF VoteInv, TypeOK, Vote
    <3>3. ~Approved'
      BY <3>2 DEF Approved, Eligible
    <3>4. Seen' \in {"open", "rejected"}
      BY <2>1, <3>3 DEF AcceptEnds, Seen
    <3>. QED BY <1>1, <3>4 DEF Seen, VoteGoesOn
  <2>2. CASE ~ \E committed \in BOOLEAN : committed /\ AcceptEnds(committed)
    <3>1. vote'.status = "none"
      BY <1>1, <2>2 DEF AcceptEnds, Next, Record, Accept, Upgrade, Close, Leave, DeleteAccount, Read,
         WorkerResolves, Resolve, VoteDue, Cast, CastEnds, AcceptEnds, Cleanup, Tick, vars
    <3>. QED BY <1>1, <3>1 DEF Seen, VoteGoesOn
  <2>. QED BY <2>1, <2>2
<1>2. CASE vote.status # "none" /\ (VoteOpen \/ ~Unlocked)
  <2>1. Seen = "open"
    BY <1>2, AcceptedOnce DEF Seen, VoteOpen, Unlocked, VoteInv, FlightKeepsVoteOpen
  <2>2. vote'.status # "none"
    BY <1>2 DEF VoteInv, TypeOK, Vote, VoteFollowsConversation, Next, Record, Accept, Upgrade, Close,
       Leave, DeleteAccount, Read, WorkerResolves, Resolve, Cast, CastEnds, AcceptEnds, Cleanup, Tick, vars
  <2>3. Seen' # "none"
    BY <2>2 DEF Seen
  <2>. QED BY <1>0, <2>1, <2>3 DEF VoteGoesOn
<1>3. CASE vote.status # "none" /\ ~VoteOpen /\ Unlocked
  <2>1. /\ Approved' = Approved
        /\ vote' = vote \/ Resolve
        /\ now' = now \/ now' = now + 1
        /\ Unlocked'
    BY <1>3, CountIsFixed
  <2>2. CASE vote' = vote
    <3>1. ~VoteOpen'
      BY <1>3, <2>1, <2>2 DEF VoteOpen, VoteInv, TypeOK, Vote
    <3>2. Seen' = Seen
      BY <1>3, <2>1, <2>2, <3>1 DEF Seen
    <3>. QED BY <3>2 DEF VoteGoesOn
  <2>3. CASE Resolve
    <3>1. vote.status = "open" /\ vote'.status = IF Approved THEN "approved" ELSE "rejected"
      BY <2>3 DEF Resolve, VoteDue, VoteInv, TypeOK, Vote
    <3>2. Seen' = Seen
      BY <1>3, <3>1 DEF Seen
    <3>. QED BY <3>2 DEF VoteGoesOn
  <2>. QED BY <2>1, <2>2, <2>3
<1>. QED BY <1>1, <1>2, <1>3

LEMMA SendStep ==
  ASSUME VoteInv, [Next]_vars
  PROVE  SendsAsInRoom
<1> SUFFICES ASSUME NEW m \in Messages, ~IsSent(m), IsSent(m)'
             PROVE  /\ Seen # "open" /\ Seen' = Seen
                    /\ m \in Grace' <=> Seen = "none"
  BY DEF SendsAsInRoom
<1>1. PICK u \in Members : Record(u, m)
  BY EventStep DEF VoteInv, IsSent
<1>2. /\ Unlocked /\ ~VoteOpen /\ conv # "closed"
      /\ vote' = vote /\ now' = now /\ casting' = casting
      /\ ballot' = ballot /\ accepting' = accepting
      /\ event'[m].grace <=> conv = "pending"
  BY <1>1 DEF Record, SendGuard, VoteInv, TypeOK
<1>3. Seen # "open" /\ Seen' = Seen
  BY <1>2 DEF Seen, VoteOpen, Unlocked, Approved, Yes, Eligible
<1>4. conv = "pending" <=> vote.status = "none"
  BY <1>2 DEF VoteInv, TypeOK, VoteFollowsConversation
<1>. QED BY <1>2, <1>3, <1>4, SeenCases DEF Grace

(* For the vote and the messages a page can see, each step is one of those     *)
(* Room gives its server: acceptance, verdict, a message outside the vote that *)
(* is of grace before the acceptance and only then, or nothing.                *)
THEOREM ServerOfTheRoom == Spec => [][VoteGoesOn /\ SendsAsInRoom]_vars
<1>1. VoteInv /\ VoteInv' /\ [Next]_vars => [VoteGoesOn /\ SendsAsInRoom]_vars
  BY SeenStep, SendStep
<1>. QED BY <1>1, VoteInvariant, PTL DEF Spec

(* What the history shows agrees with that vote: nothing of grace after a      *)
(* rejection, all that is stored and not too old otherwise.  Excepted is a     *)
(* ballot that commits after the deadline: until then the history of an        *)
(* overdue vote leaves the messages of grace out, and Room does not.           *)
HistoryAgrees ==
  /\ Seen = "rejected" => History \cap Grace = {}
  /\ Seen # "rejected" /\ ~(VoteDue /\ ~Unlocked) =>
       History = {m \in content : mode = "stored" /\ ~Expired(m)}

THEOREM HistoryOfTheRoom == Spec => []HistoryAgrees
<1>1. VoteInv => HistoryAgrees
  <2> SUFFICES ASSUME VoteInv PROVE HistoryAgrees
    OBVIOUS
  <2>1. ASSUME Seen = "rejected" PROVE HiddenGrace = Grace
    BY <2>1 DEF Seen, HiddenGrace, VoteOpen, VoteDue, VoteInv, TypeOK, Vote
  <2>2. ASSUME Seen # "rejected", ~(VoteDue /\ ~Unlocked) PROVE HiddenGrace = {}
    BY <2>2 DEF Seen, HiddenGrace, VoteOpen, VoteDue, VoteInv, TypeOK, Vote
  <2>. QED BY <2>1, <2>2 DEF HistoryAgrees, History
<1>. QED BY <1>1, VoteInvariant, PTL
=============================================================================
