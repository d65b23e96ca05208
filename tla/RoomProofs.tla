----------------------------- MODULE RoomProofs -----------------------------
(***************************************************************************)
(* Proofs about Room for every page size and every number of messages.     *)
(***************************************************************************)
EXTENDS Room, FiniteSetTheorems, WellFoundedInduction, TLAPS

Votes == {"none", "open"} \cup Final

(* The records have their fields, so that an update of one of them reads as one. *)
Shapes ==
  /\ room = [accepted |-> room.accepted, vote |-> room.vote, head |-> room.head, cursor |-> room.cursor,
             shown |-> room.shown, asGrace |-> room.asGrace]
  /\ load = [phase |-> load.phase, answered |-> load.answered, more |-> load.more, first |-> load.first,
             oldHead |-> load.oldHead, cursor |-> load.cursor, accepted |-> load.accepted,
             vote |-> load.vote, items |-> load.items, next |-> load.next]
  /\ sync = [phase |-> sync.phase, answered |-> sync.answered, accepted |-> sync.accepted, vote |-> sync.vote]

(* Messages are numbered as they are sent, those of grace first. *)
Numbers ==
  /\ sent \in Nat /\ grace \in Nat /\ grace <= sent
  /\ vote = "none" => grace = sent
  /\ vote \in Votes

(* Whatever is on its way, read or shown was sent. *)
OnlySent ==
  /\ inbox \in Seq(1..sent)
  /\ load.items \subseteq 1..sent
  /\ room.shown \subseteq 1..sent

(* What an answer about the vote may say when it is applied: at most one change *)
(* behind, because an answer from before the acceptance does not outlive the    *)
(* vote.                                                                        *)
Told(v) ==
  \/ v = vote
  \/ v = "none" /\ vote = "open"
  \/ v = "open" /\ vote \in Final

AnswersAreTold ==
  /\ load.phase = "vote" /\ load.answered => Told(load.vote)
  /\ sync.phase = "vote" /\ sync.answered => Told(sync.vote)

(* A verdict the page shows is the verdict. *)
VerdictIsKnown == room.vote \in Final => room.vote = vote

(* The page takes every message of grace for one, and none after a rejection. *)
GraceIsMarked ==
  /\ room.shown \cap 1..grace \subseteq room.asGrace
  /\ RejectedGraceStaysOut

PhasesOfLoad == load.phase \in {"idle", "conversation", "vote", "history"}

RoomInv ==
  /\ Shapes
  /\ PhasesOfLoad
  /\ Numbers
  /\ OnlySent
  /\ AnswersAreTold
  /\ VerdictIsKnown
  /\ GraceIsMarked

-----------------------------------------------------------------------------
(* What each step of the page makes of the room *)

(* A message received, by either way, is marked if it is of grace and does not *)
(* come back after a rejection.                                                *)
LEMMA ReceiveKeeps ==
  ASSUME RoomInv, NEW m \in 1..sent, NEW g \in BOOLEAN, m <= grace => g,
         room' = Receive(room, m, g), UNCHANGED <<sent, grace, vote>>
  PROVE  /\ room' = [accepted |-> room'.accepted, vote |-> room'.vote, head |-> room'.head,
                     cursor |-> room'.cursor, shown |-> room'.shown, asGrace |-> room'.asGrace]
         /\ room'.shown \subseteq 1..sent
         /\ room'.vote = room.vote
         /\ GraceIsMarked'
  <1> DEFINE r == room
  <1>0. room = [accepted |-> room.accepted, vote |-> room.vote, head |-> room.head, cursor |-> room.cursor,
                shown |-> room.shown, asGrace |-> room.asGrace]
    BY DEF RoomInv, Shapes
  <1>1. CASE g /\ room.vote = "rejected"
    <2>1. room' = room
      BY <1>1 DEF Receive
    <2> QED
      BY <2>1, <1>0 DEF RoomInv, OnlySent, GraceIsMarked, RejectedGraceStaysOut
  <1>2. CASE ~ (g /\ room.vote = "rejected")
    <2>1. /\ room' = [accepted |-> room'.accepted, vote |-> room'.vote, head |-> room'.head,
                      cursor |-> room'.cursor, shown |-> room'.shown, asGrace |-> room'.asGrace]
          /\ room'.shown = room.shown \cup {m}
          /\ room'.vote = room.vote
          /\ room'.asGrace = IF g THEN room.asGrace \cup {m} ELSE room.asGrace \ {m}
      BY <1>0, <1>2 DEF Receive
    <2>2. room'.shown \subseteq 1..sent
      BY <2>1 DEF RoomInv, OnlySent
    <2>3. ~ g => m \notin 1..grace
      BY DEF RoomInv, Numbers
    <2>4. room'.shown \cap 1..grace \subseteq room'.asGrace
      BY <2>1, <2>3 DEF RoomInv, GraceIsMarked
    <2>5. room'.vote = "rejected" => room'.shown \cap 1..grace = {}
      BY <2>1, <2>3, <1>2 DEF RoomInv, GraceIsMarked, RejectedGraceStaysOut
    <2> QED
      BY <2>1, <2>2, <2>4, <2>5 DEF GraceIsMarked, RejectedGraceStaysOut
  <1> QED
    BY <1>1, <1>2

(* A page of history says itself which of its messages are of grace. *)
LEMMA ReceivePageKeeps ==
  ASSUME RoomInv, NEW items \in SUBSET (1..sent), NEW head, NEW cursor,
         room' = [ReceivePage(room, items) EXCEPT !.head = head, !.cursor = cursor],
         UNCHANGED <<sent, grace, vote>>
  PROVE  /\ room' = [accepted |-> room'.accepted, vote |-> room'.vote, head |-> room'.head,
                     cursor |-> room'.cursor, shown |-> room'.shown, asGrace |-> room'.asGrace]
         /\ room'.shown \subseteq 1..sent
         /\ room'.vote = room.vote
         /\ GraceIsMarked'
  <1> DEFINE kept == IF room.vote = "rejected" THEN {m \in items : m > grace} ELSE items
  <1>0. room = [accepted |-> room.accepted, vote |-> room.vote, head |-> room.head, cursor |-> room.cursor,
                shown |-> room.shown, asGrace |-> room.asGrace]
    BY DEF RoomInv, Shapes
  <1>1. ReceivePage(room, items)
          = [room EXCEPT !.shown = @ \cup kept, !.asGrace = (@ \ kept) \cup {m \in kept : m <= grace}]
    BY DEF ReceivePage
  <1>2. kept \subseteq items /\ (room.vote = "rejected" => kept \cap 1..grace = {})
    BY DEF RoomInv, Numbers
  <1> HIDE DEF kept
  <1>3. /\ room' = [accepted |-> room'.accepted, vote |-> room'.vote, head |-> room'.head,
                    cursor |-> room'.cursor, shown |-> room'.shown, asGrace |-> room'.asGrace]
        /\ room'.shown = room.shown \cup kept
        /\ room'.vote = room.vote
        /\ room'.asGrace = (room.asGrace \ kept) \cup {m \in kept : m <= grace}
    BY <1>0, <1>1
  <1>4. room'.shown \subseteq 1..sent
    BY <1>2, <1>3 DEF RoomInv, OnlySent
  <1>5. \A m \in kept \cap 1..grace : m <= grace
    BY DEF RoomInv, Numbers
  <1>6. room'.shown \cap 1..grace \subseteq room'.asGrace
    BY <1>3, <1>5 DEF RoomInv, GraceIsMarked
  <1>7. room'.vote = "rejected" => room'.shown \cap 1..grace = {}
    BY <1>2, <1>3 DEF RoomInv, GraceIsMarked, RejectedGraceStaysOut
  <1> QED
    BY <1>3, <1>4, <1>6, <1>7 DEF GraceIsMarked, RejectedGraceStaysOut

(* An answer about the vote neither takes back a verdict nor shows a false one, *)
(* and a rejection takes out every message of grace.                            *)
LEMMA ApplyVoteKeeps ==
  ASSUME RoomInv, NEW v, Told(v), room' = ApplyVote(room, v), UNCHANGED <<sent, grace, vote>>
  PROVE  /\ room' = [accepted |-> room'.accepted, vote |-> room'.vote, head |-> room'.head,
                     cursor |-> room'.cursor, shown |-> room'.shown, asGrace |-> room'.asGrace]
         /\ room'.shown \subseteq 1..sent
         /\ room.vote \in Final => room'.vote = room.vote
         /\ VerdictIsKnown'
         /\ GraceIsMarked'
  <1>0. room = [accepted |-> room.accepted, vote |-> room.vote, head |-> room.head, cursor |-> room.cursor,
                shown |-> room.shown, asGrace |-> room.asGrace]
    BY DEF RoomInv, Shapes
  <1>1. CASE room.vote \in Final /\ v = "open"
    <2>1. room' = room
      BY <1>1 DEF ApplyVote
    <2> QED
      BY <2>1, <1>0 DEF RoomInv, OnlySent, VerdictIsKnown, GraceIsMarked, RejectedGraceStaysOut
  <1>2. CASE ~ (room.vote \in Final /\ v = "open") /\ v = "rejected"
    <2>1. /\ room' = [accepted |-> room'.accepted, vote |-> room'.vote, head |-> room'.head,
                      cursor |-> room'.cursor, shown |-> room'.shown, asGrace |-> room'.asGrace]
          /\ room'.vote = v
          /\ room'.shown = room.shown \ room.asGrace
          /\ room'.asGrace = {}
      BY <1>0, <1>2 DEF ApplyVote
    <2>2. v = vote
      BY <1>2 DEF Told
    <2>3. room.vote \in Final => room.vote = vote
      BY DEF RoomInv, VerdictIsKnown
    <2>4. room.shown \subseteq 1..sent /\ room.shown \cap 1..grace \subseteq room.asGrace
      BY DEF RoomInv, OnlySent, GraceIsMarked
    <2>5. room'.shown \subseteq 1..sent /\ room'.shown \cap 1..grace = {}
      BY <2>1, <2>4
    <2> QED
      BY <2>1, <2>2, <2>3, <2>5 DEF VerdictIsKnown, GraceIsMarked, RejectedGraceStaysOut
  <1>3. CASE ~ (room.vote \in Final /\ v = "open") /\ v # "rejected"
    <2>1. /\ room' = [accepted |-> room'.accepted, vote |-> room'.vote, head |-> room'.head,
                      cursor |-> room'.cursor, shown |-> room'.shown, asGrace |-> room'.asGrace]
          /\ room'.vote = v
          /\ room'.shown = room.shown
          /\ room'.asGrace = room.asGrace
      BY <1>0, <1>3 DEF ApplyVote
    <2>2. (room.vote \in Final => v = room.vote) /\ (v \in Final => v = vote)
      BY <1>3 DEF Told, RoomInv, VerdictIsKnown, Final
    <2> QED
      BY <1>3, <2>1, <2>2 DEF RoomInv, OnlySent, VerdictIsKnown, GraceIsMarked, RejectedGraceStaysOut
  <1> QED
    BY <1>1, <1>2, <1>3

-----------------------------------------------------------------------------
(* The invariant *)

LEMMA InitIsInv == Init => RoomInv
  BY DEF Init, NoLoad, NoSync, RoomInv, Shapes, PhasesOfLoad, Numbers, Votes, OnlySent, AnswersAreTold, Told,
         VerdictIsKnown, Final, GraceIsMarked, RejectedGraceStaysOut

(* A page of history is of messages that were sent. *)
LEMMA PageIsSent == \A c : Page(c) \subseteq 1..sent
  BY DEF Page, Before

VerdictKept == room.vote \in Final => room'.vote = room.vote

LEMMA SendKeeps == ASSUME RoomInv, Send PROVE RoomInv' /\ VerdictKept
  <1>1. Shapes' /\ VerdictKept
    BY DEF Send, RoomInv, Shapes, VerdictKept
  <1>2. sent' = sent + 1 /\ sent \in Nat
    BY DEF Send, RoomInv, Numbers
  <1>3. Numbers'
    BY DEF Send, RoomInv, Numbers, Votes
  <1>4. inbox' \in Seq(1..sent')
    <2>1. inbox \in Seq(1..sent')
      BY <1>2 DEF RoomInv, OnlySent
    <2>2. sent + 1 \in 1..sent'
      BY <1>2
    <2> QED
      BY <2>1, <2>2 DEF Send
  <1>5. OnlySent'
    BY <1>2, <1>4 DEF Send, RoomInv, OnlySent
  <1>6. AnswersAreTold' /\ VerdictIsKnown'
    BY DEF Send, RoomInv, AnswersAreTold, Told, VerdictIsKnown
  <1>10. PhasesOfLoad'
    BY DEF Send, RoomInv, PhasesOfLoad
  <1>7. room.vote = "rejected" => grace' = grace
    BY DEF Send, RoomInv, VerdictIsKnown, Final
  <1>8. room.shown \cap 1..grace' \subseteq room.shown \cap 1..grace
    BY <1>2 DEF Send, RoomInv, Numbers, OnlySent
  <1>9. GraceIsMarked'
    BY <1>7, <1>8 DEF Send, RoomInv, GraceIsMarked, RejectedGraceStaysOut
  <1> QED
    BY <1>1, <1>3, <1>5, <1>6, <1>10, <1>9 DEF RoomInv

(* The vote changes under answers that are still to be applied. *)
LEMMA VoteKeeps == ASSUME RoomInv, Accept \/ Decide PROVE RoomInv' /\ VerdictKept
  <1>1. UNCHANGED <<sent, grace, inbox, room, load, sync>>
    BY DEF Accept, Decide
  <1>2. Shapes' /\ PhasesOfLoad' /\ OnlySent' /\ GraceIsMarked' /\ VerdictKept
    BY <1>1 DEF RoomInv, Shapes, PhasesOfLoad, OnlySent, GraceIsMarked, RejectedGraceStaysOut, VerdictKept
  <1>3. Numbers'
    BY <1>1 DEF Accept, Decide, RoomInv, Numbers, Votes, Final
  <1>4. VerdictIsKnown'
    BY <1>1 DEF Accept, Decide, RoomInv, VerdictIsKnown, Final
  <1>5. AnswersAreTold'
    <2>1. CASE Accept
      BY <2>1, <1>1 DEF Accept, RoomInv, AnswersAreTold, Told, Final
    <2>2. CASE Decide
      <3>1. /\ load.phase = "vote" /\ load.answered => load.vote # "none"
            /\ sync.phase = "vote" /\ sync.answered => sync.vote # "none"
        BY <2>2 DEF Decide, AnswersAreRecent
      <3>2. /\ load.phase = "vote" /\ load.answered => load.vote = "open"
            /\ sync.phase = "vote" /\ sync.answered => sync.vote = "open"
        BY <2>2, <3>1 DEF Decide, RoomInv, AnswersAreTold, Told, Final
      <3> QED
        BY <2>2, <3>2, <1>1 DEF Decide, AnswersAreTold, Told
    <2> QED
      BY <2>1, <2>2
  <1> QED
    BY <1>2, <1>3, <1>4, <1>5 DEF RoomInv

(* A message.new, or the loss of all that were on their way. *)
LEMMA SocketKeeps == ASSUME RoomInv, HandleNew \/ Disconnect PROVE RoomInv' /\ VerdictKept
  <1>0. UNCHANGED <<sent, grace, vote, load, sync>>
    BY DEF HandleNew, Disconnect
  <1>1. /\ load' = [phase |-> load'.phase, answered |-> load'.answered, more |-> load'.more, first |-> load'.first,
                    oldHead |-> load'.oldHead, cursor |-> load'.cursor, accepted |-> load'.accepted,
                    vote |-> load'.vote, items |-> load'.items, next |-> load'.next]
        /\ sync' = [phase |-> sync'.phase, answered |-> sync'.answered, accepted |-> sync'.accepted,
                    vote |-> sync'.vote]
        /\ PhasesOfLoad' /\ Numbers' /\ AnswersAreTold'
    BY <1>0 DEF RoomInv, Shapes, PhasesOfLoad, Numbers, AnswersAreTold, Told
  <1>2. CASE HandleNew
    <2> DEFINE m == Head(inbox)
    <2>1. m \in 1..sent /\ inbox' \in Seq(1..sent)
      <3> DEFINE S == 1..sent
      <3>1. inbox \in Seq(S) /\ inbox # <<>> /\ inbox' = Tail(inbox)
        BY <1>2 DEF HandleNew, RoomInv, OnlySent
      <3> HIDE DEF S
      <3>2. Head(inbox) \in S /\ Tail(inbox) \in Seq(S)
        BY <3>1
      <3> QED
        BY <3>1, <3>2 DEF S
    <2>2. PICK g \in BOOLEAN : (m <= grace => g) /\ room' = Receive(room, m, g)
      BY <1>2 DEF HandleNew
    <2> HIDE DEF m
    <2>3. /\ room' = [accepted |-> room'.accepted, vote |-> room'.vote, head |-> room'.head,
                      cursor |-> room'.cursor, shown |-> room'.shown, asGrace |-> room'.asGrace]
          /\ room'.shown \subseteq 1..sent
          /\ room'.vote = room.vote
          /\ GraceIsMarked'
      BY <1>0, <2>1, <2>2, ReceiveKeeps
    <2> QED
      BY <1>0, <1>1, <2>1, <2>3 DEF RoomInv, Shapes, OnlySent, VerdictIsKnown, VerdictKept
  <1>3. CASE Disconnect
    BY <1>0, <1>1, <1>3
       DEF Disconnect, RoomInv, Shapes, OnlySent, VerdictIsKnown, VerdictKept, GraceIsMarked, RejectedGraceStaysOut
  <1> QED
    BY <1>2, <1>3

(* A refresh that starts or is cut short holds no answer. *)
LEMMA ResetLoadKeeps ==
  ASSUME RoomInv, Refresh(FALSE) \/ Refresh(TRUE) \/ FailLoad PROVE RoomInv' /\ VerdictKept
  <1>0. UNCHANGED <<sent, grace, vote, inbox, room, sync>>
    BY DEF Refresh, FailLoad
  <1>1. Numbers' /\ VerdictIsKnown' /\ GraceIsMarked' /\ VerdictKept
    BY <1>0 DEF RoomInv, Numbers, VerdictIsKnown, GraceIsMarked, RejectedGraceStaysOut, VerdictKept
  <1>2. \E more \in BOOLEAN : \E phase \in {"idle", "conversation"} :
          load' = [phase |-> phase, answered |-> FALSE, more |-> more, first |-> TRUE, oldHead |-> 0,
                   cursor |-> 0, accepted |-> FALSE, vote |-> "none", items |-> {}, next |-> 0]
    <2>1. CASE FailLoad
      BY <2>1 DEF FailLoad, NoLoad
    <2>2. ASSUME NEW more \in BOOLEAN, Refresh(more)
          PROVE  load' = [phase |-> "conversation", answered |-> FALSE, more |-> more, first |-> TRUE, oldHead |-> 0,
                          cursor |-> 0, accepted |-> FALSE, vote |-> "none", items |-> {}, next |-> 0]
      BY <2>2 DEF Refresh, NoLoad
    <2> QED
      BY <2>1, <2>2
  <1>3. load' = [phase |-> load'.phase, answered |-> load'.answered, more |-> load'.more, first |-> load'.first,
                 oldHead |-> load'.oldHead, cursor |-> load'.cursor, accepted |-> load'.accepted,
                 vote |-> load'.vote, items |-> load'.items, next |-> load'.next]
    BY <1>2
  <1>4. load'.phase \in {"idle", "conversation"} /\ load'.items = {}
    BY <1>2
  <1> QED
    BY <1>0, <1>1, <1>3, <1>4 DEF RoomInv, Shapes, PhasesOfLoad, OnlySent, AnswersAreTold, Told

(* The server answers what the refresh asked for. *)
LEMMA AnswerLoadKeeps == ASSUME RoomInv, AnswerLoad PROVE RoomInv' /\ VerdictKept
  <1>0. UNCHANGED <<sent, grace, vote, inbox, room, sync>>
    BY DEF AnswerLoad
  <1>1. Numbers' /\ VerdictIsKnown' /\ GraceIsMarked' /\ VerdictKept
    BY <1>0 DEF RoomInv, Numbers, VerdictIsKnown, GraceIsMarked, RejectedGraceStaysOut, VerdictKept
  <1>2. load = [phase |-> load.phase, answered |-> load.answered, more |-> load.more, first |-> load.first,
                oldHead |-> load.oldHead, cursor |-> load.cursor, accepted |-> load.accepted,
                vote |-> load.vote, items |-> load.items, next |-> load.next]
    BY DEF RoomInv, Shapes
  <1>3. PhasesOfLoad
    BY DEF RoomInv
  <1> USE DEF PhasesOfLoad
  <1>4. CASE load.phase = "conversation"
    <2>1. load' = [load EXCEPT !.answered = TRUE, !.accepted = vote # "none"]
      BY <1>4 DEF AnswerLoad
    <2>2. /\ load' = [phase |-> load'.phase, answered |-> load'.answered, more |-> load'.more,
                      first |-> load'.first, oldHead |-> load'.oldHead, cursor |-> load'.cursor,
                      accepted |-> load'.accepted, vote |-> load'.vote, items |-> load'.items, next |-> load'.next]
          /\ load'.phase = load.phase /\ load'.items = load.items
      BY <1>2, <2>1
    <2> QED
      BY <1>0, <1>1, <1>3, <1>4, <2>2 DEF RoomInv, Shapes, OnlySent, AnswersAreTold, Told
  <1>5. CASE load.phase = "vote"
    <2>1. load' = [load EXCEPT !.answered = TRUE, !.vote = vote]
      BY <1>5 DEF AnswerLoad
    <2>2. /\ load' = [phase |-> load'.phase, answered |-> load'.answered, more |-> load'.more,
                      first |-> load'.first, oldHead |-> load'.oldHead, cursor |-> load'.cursor,
                      accepted |-> load'.accepted, vote |-> load'.vote, items |-> load'.items, next |-> load'.next]
          /\ load'.phase = load.phase /\ load'.items = load.items /\ load'.vote = vote
      BY <1>2, <2>1
    <2> QED
      BY <1>0, <1>1, <1>3, <2>2 DEF RoomInv, Shapes, OnlySent, AnswersAreTold, Told
  <1>6. CASE load.phase = "history"
    <2>1. load' = [load EXCEPT !.answered = TRUE, !.items = Page(load.cursor), !.next = NextCursor(load.cursor)]
      BY <1>6 DEF AnswerLoad
    <2>2. /\ load' = [phase |-> load'.phase, answered |-> load'.answered, more |-> load'.more,
                      first |-> load'.first, oldHead |-> load'.oldHead, cursor |-> load'.cursor,
                      accepted |-> load'.accepted, vote |-> load'.vote, items |-> load'.items, next |-> load'.next]
          /\ load'.phase = load.phase /\ load'.items = Page(load.cursor)
      BY <1>2, <2>1
    <2>3. load'.items \subseteq 1..sent
      BY <2>2, PageIsSent
    <2> QED
      BY <1>0, <1>1, <1>3, <1>6, <2>2, <2>3 DEF RoomInv, Shapes, OnlySent, AnswersAreTold, Told
  <1> QED
    BY <1>3, <1>4, <1>5, <1>6 DEF AnswerLoad

(* The page takes what the refresh read, one request after another. *)
LEMMA LoadConversationKeeps == ASSUME RoomInv, LoadConversation PROVE RoomInv' /\ VerdictKept
  <1>0. UNCHANGED <<sent, grace, vote, inbox, sync>>
    BY DEF LoadConversation
  <1>1. /\ room' = [accepted |-> room'.accepted, vote |-> room.vote, head |-> room.head, cursor |-> room.cursor,
                    shown |-> room.shown, asGrace |-> room.asGrace]
        /\ room'.vote = room.vote /\ room'.shown = room.shown /\ room'.asGrace = room.asGrace
        /\ room'.head = room.head /\ room'.cursor = room.cursor
    BY DEF LoadConversation, RoomInv, Shapes
  <1>2. /\ load' = [phase |-> load'.phase, answered |-> load'.answered, more |-> load'.more,
                    first |-> load'.first, oldHead |-> load'.oldHead, cursor |-> load'.cursor,
                    accepted |-> load'.accepted, vote |-> load'.vote, items |-> load'.items, next |-> load'.next]
        /\ load'.phase = "vote" /\ load'.answered = FALSE /\ load'.items = load.items
    BY DEF LoadConversation, RoomInv, Shapes
  <1>3. Shapes'
    BY <1>0, <1>1, <1>2 DEF RoomInv, Shapes
  <1>4. Numbers' /\ OnlySent' /\ PhasesOfLoad' /\ AnswersAreTold'
    BY <1>0, <1>1, <1>2 DEF RoomInv, Numbers, OnlySent, PhasesOfLoad, AnswersAreTold, Told
  <1>5. VerdictIsKnown' /\ GraceIsMarked' /\ VerdictKept
    BY <1>0, <1>1 DEF RoomInv, VerdictIsKnown, GraceIsMarked, RejectedGraceStaysOut, VerdictKept
  <1> QED
    BY <1>3, <1>4, <1>5 DEF RoomInv

LEMMA LoadVoteKeeps == ASSUME RoomInv, LoadVote PROVE RoomInv' /\ VerdictKept
  <1>0. UNCHANGED <<sent, grace, vote, inbox, sync>>
    BY DEF LoadVote
  <1>1. Told(load.vote) /\ room' = ApplyVote(room, load.vote)
    BY DEF LoadVote, RoomInv, AnswersAreTold
  <1>2. /\ room' = [accepted |-> room'.accepted, vote |-> room'.vote, head |-> room'.head,
                    cursor |-> room'.cursor, shown |-> room'.shown, asGrace |-> room'.asGrace]
        /\ room'.shown \subseteq 1..sent
        /\ room.vote \in Final => room'.vote = room.vote
        /\ VerdictIsKnown'
        /\ GraceIsMarked'
    BY <1>0, <1>1, ApplyVoteKeeps
  <1>3. /\ load' = [phase |-> load'.phase, answered |-> load'.answered, more |-> load'.more,
                    first |-> load'.first, oldHead |-> load'.oldHead, cursor |-> load'.cursor,
                    accepted |-> load'.accepted, vote |-> load'.vote, items |-> load'.items, next |-> load'.next]
        /\ load'.phase = "history" /\ load'.items = load.items
    BY DEF LoadVote, RoomInv, Shapes
  <1>4. Shapes'
    BY <1>0, <1>2, <1>3 DEF RoomInv, Shapes
  <1>5. Numbers' /\ OnlySent' /\ PhasesOfLoad' /\ AnswersAreTold'
    BY <1>0, <1>2, <1>3 DEF RoomInv, Numbers, OnlySent, PhasesOfLoad, AnswersAreTold, Told
  <1> QED
    BY <1>2, <1>4, <1>5 DEF RoomInv, VerdictKept

LEMMA LoadPageKeeps == ASSUME RoomInv, LoadPage PROVE RoomInv' /\ VerdictKept
  <1>0. UNCHANGED <<sent, grace, vote, inbox, sync>>
    BY DEF LoadPage
  <1>1. PICK head, cursor : room' = [ReceivePage(room, load.items) EXCEPT !.head = head, !.cursor = cursor]
    BY DEF LoadPage
  <1>2. /\ room' = [accepted |-> room'.accepted, vote |-> room'.vote, head |-> room'.head,
                    cursor |-> room'.cursor, shown |-> room'.shown, asGrace |-> room'.asGrace]
        /\ room'.shown \subseteq 1..sent
        /\ room'.vote = room.vote
        /\ GraceIsMarked'
    <2>1. load.items \in SUBSET (1..sent)
      BY DEF RoomInv, OnlySent
    <2> QED
      BY <1>0, <1>1, <2>1, ReceivePageKeeps
  <1>3. /\ load' = [phase |-> load'.phase, answered |-> load'.answered, more |-> load'.more,
                    first |-> load'.first, oldHead |-> load'.oldHead, cursor |-> load'.cursor,
                    accepted |-> load'.accepted, vote |-> load'.vote, items |-> load'.items, next |-> load'.next]
        /\ load'.phase \in {"idle", "history"} /\ load'.items = {}
    <2>1. \/ load' = NoLoad
          \/ load' = [load EXCEPT !.answered = FALSE, !.first = FALSE, !.cursor = load.next, !.items = {}, !.next = 0]
      BY DEF LoadPage
    <2>2. load.phase = "history"
      BY DEF LoadPage
    <2>3. CASE load' = NoLoad
      BY <2>3 DEF NoLoad
    <2>4. CASE load' = [load EXCEPT !.answered = FALSE, !.first = FALSE, !.cursor = load.next,
                                    !.items = {}, !.next = 0]
      <3>1. load = [phase |-> load.phase, answered |-> load.answered, more |-> load.more, first |-> load.first,
                    oldHead |-> load.oldHead, cursor |-> load.cursor, accepted |-> load.accepted,
                    vote |-> load.vote, items |-> load.items, next |-> load.next]
        BY DEF RoomInv, Shapes
      <3> QED
        BY <2>2, <2>4, <3>1
    <2> QED
      BY <2>1, <2>3, <2>4
  <1>4. Shapes'
    BY <1>0, <1>2, <1>3 DEF RoomInv, Shapes
  <1>5. Numbers' /\ OnlySent' /\ PhasesOfLoad' /\ AnswersAreTold'
    BY <1>0, <1>2, <1>3 DEF RoomInv, Numbers, OnlySent, PhasesOfLoad, AnswersAreTold, Told
  <1>6. VerdictIsKnown' /\ VerdictKept
    BY <1>0, <1>2 DEF RoomInv, VerdictIsKnown, VerdictKept
  <1> QED
    BY <1>2, <1>4, <1>5, <1>6 DEF RoomInv

(* sync asks and is answered, and reads the list. *)
LEMMA SyncAsksKeeps ==
  ASSUME RoomInv, Sync \/ AnswerSync \/ FailSync \/ SyncList PROVE RoomInv' /\ VerdictKept
  <1>0. UNCHANGED <<sent, grace, vote, inbox, load>>
    BY DEF Sync, AnswerSync, FailSync, SyncList
  <1>1. /\ room' = [accepted |-> room'.accepted, vote |-> room'.vote, head |-> room'.head,
                    cursor |-> room'.cursor, shown |-> room'.shown, asGrace |-> room'.asGrace]
        /\ room'.vote = room.vote /\ room'.shown = room.shown /\ room'.asGrace = room.asGrace
    <2>1. CASE Sync \/ AnswerSync \/ FailSync
      <3>1. room' = room
        BY <2>1 DEF Sync, AnswerSync, FailSync
      <3> QED
        BY <3>1 DEF RoomInv, Shapes
    <2>2. CASE SyncList
      <3>1. room' = [room EXCEPT !.accepted = sync.accepted]
        BY <2>2 DEF SyncList
      <3> QED
        BY <3>1 DEF RoomInv, Shapes
    <2> QED
      BY <2>1, <2>2
  <1>2. /\ sync' = [phase |-> sync'.phase, answered |-> sync'.answered, accepted |-> sync'.accepted,
                    vote |-> sync'.vote]
        /\ sync'.phase = "vote" /\ sync'.answered => sync'.vote = vote
    <2>1. CASE AnswerSync
      BY <2>1 DEF AnswerSync, RoomInv, Shapes
    <2>2. CASE Sync \/ FailSync \/ SyncList
      <3>1. \E phase \in {"idle", "list", "vote"} :
              sync' = [phase |-> phase, answered |-> FALSE, accepted |-> FALSE, vote |-> "none"]
        BY <2>2 DEF Sync, FailSync, SyncList, NoSync
      <3> QED
        BY <3>1
    <2> QED
      BY <2>1, <2>2
  <1>3. Shapes' /\ PhasesOfLoad' /\ Numbers' /\ OnlySent'
    BY <1>0, <1>1, <1>2 DEF RoomInv, Shapes, PhasesOfLoad, Numbers, OnlySent
  <1>4. AnswersAreTold'
    BY <1>0, <1>2 DEF RoomInv, AnswersAreTold, Told
  <1>5. VerdictIsKnown' /\ GraceIsMarked' /\ VerdictKept
    BY <1>0, <1>1 DEF RoomInv, VerdictIsKnown, GraceIsMarked, RejectedGraceStaysOut, VerdictKept
  <1> QED
    BY <1>3, <1>4, <1>5 DEF RoomInv

LEMMA SyncVoteKeeps == ASSUME RoomInv, SyncVote PROVE RoomInv' /\ VerdictKept
  <1>0. UNCHANGED <<sent, grace, vote, inbox, load>>
    BY DEF SyncVote
  <1>1. Told(sync.vote) /\ room' = ApplyVote(room, sync.vote)
    BY DEF SyncVote, RoomInv, AnswersAreTold
  <1>2. /\ room' = [accepted |-> room'.accepted, vote |-> room'.vote, head |-> room'.head,
                    cursor |-> room'.cursor, shown |-> room'.shown, asGrace |-> room'.asGrace]
        /\ room'.shown \subseteq 1..sent
        /\ room.vote \in Final => room'.vote = room.vote
        /\ VerdictIsKnown'
        /\ GraceIsMarked'
    BY <1>0, <1>1, ApplyVoteKeeps
  <1>3. /\ sync' = [phase |-> sync'.phase, answered |-> sync'.answered, accepted |-> sync'.accepted,
                    vote |-> sync'.vote]
        /\ sync'.phase = "idle"
    BY DEF SyncVote, NoSync
  <1>4. Shapes' /\ PhasesOfLoad' /\ Numbers' /\ OnlySent'
    BY <1>0, <1>2, <1>3 DEF RoomInv, Shapes, PhasesOfLoad, Numbers, OnlySent
  <1>5. AnswersAreTold'
    BY <1>0, <1>3 DEF RoomInv, AnswersAreTold, Told
  <1> QED
    BY <1>2, <1>4, <1>5 DEF RoomInv, VerdictKept

LEMMA NextKeeps == RoomInv /\ [Next]_vars => RoomInv' /\ (VerdictKept \/ UNCHANGED vars)
  <1> SUFFICES ASSUME RoomInv, [Next]_vars
               PROVE  RoomInv' /\ (VerdictKept \/ UNCHANGED vars)
    OBVIOUS
  <1>1. CASE Next
    BY <1>1, SendKeeps, VoteKeeps, SocketKeeps, ResetLoadKeeps, AnswerLoadKeeps, LoadConversationKeeps,
       LoadVoteKeeps, LoadPageKeeps, SyncAsksKeeps, SyncVoteKeeps DEF Next
  <1>2. CASE UNCHANGED vars
    BY <1>2 DEF vars, RoomInv, Shapes, PhasesOfLoad, Numbers, OnlySent, AnswersAreTold, Told, VerdictIsKnown,
               GraceIsMarked, RejectedGraceStaysOut
  <1> QED
    BY <1>1, <1>2

-----------------------------------------------------------------------------
(* No hole between cursor and head *)

Fresh(m) == m \in room.shown \/ m \in Erased

(* The messages from lo to hi are shown, but those a rejection has erased. *)
Shows(lo, hi) == \A m \in 1..hi : m >= lo => Fresh(m)

CursorsAreSent ==
  /\ {room.head, room.cursor, load.oldHead, load.cursor, load.next} \subseteq 0..sent
  /\ {load.more, load.first} \subseteq BOOLEAN

(* Where a refresh begins, and that only one of new messages goes on. *)
PagesInOrder ==
  /\ load.phase # "history" => load.first
  /\ load.phase # "idle" /\ load.more => room.cursor # 0
  /\ load.phase = "history" /\ load.first =>
       load.oldHead = room.head /\ load.cursor = IF load.more THEN room.cursor ELSE 0
  /\ load.phase = "history" /\ ~ load.first => ~ load.more /\ load.oldHead # 0 /\ load.cursor # 0

(* Between its pages a refresh has read from the head down to its cursor; what *)
(* was there before it, below the old head, is still there.                    *)
HoleIsBelowCursor ==
  ~ cut /\ ~ mistaken =>
    IF load.phase = "history" /\ ~ load.first
    THEN Shows(load.cursor, room.head) /\ Shows(room.cursor, load.oldHead)
    ELSE Shows(room.cursor, room.head)

(* A page leaves out nothing between the cursor it was asked for and the next  *)
(* one, but what is sent or erased after it was read.                          *)
InPage(m) ==
  /\ load.cursor # 0 => m < load.cursor
  /\ load.cursor = 0 => \E n \in load.items : m <= n
  /\ load.next # 0   => m >= load.next

PageIsWhole ==
  load.phase = "history" /\ load.answered =>
    /\ \A m \in 1..sent : InPage(m) => m \in load.items \/ m \in Erased
    /\ load.next # 0 => load.items # {} /\ \A n \in load.items : n >= load.next

PagesInv ==
  /\ CursorsAreSent
  /\ PagesInOrder
  /\ HoleIsBelowCursor
  /\ PageIsWhole

LEMMA OldestIs ==
  ASSUME NEW n \in Nat, NEW S \in SUBSET (1..n), S # {}
  PROVE  Oldest(S) \in S /\ \A m \in S : Oldest(S) <= m
  <1>1. S \subseteq Nat
    OBVIOUS
  <1>2. PICK o \in S : \A m \in S : <<m, o>> \notin OpToRel(<, Nat)
    BY <1>1, NatLessThanWellFounded, WFMin
  <1>3. ASSUME NEW m \in S PROVE o <= m
    <2>1. m \in Nat /\ o \in Nat
      BY <1>1
    <2>2. ~ (m < o)
      BY <1>2, <2>1 DEF OpToRel
    <2> QED
      BY <2>1, <2>2
  <1> QED
    BY <1>3 DEF Oldest

LEMMA NewestIs ==
  ASSUME NEW n \in Nat, NEW S \in SUBSET (1..n), S # {}
  PROVE  Newest(S) \in S /\ \A m \in S : m <= Newest(S)
  <1> DEFINE D == {(n + 1) - m : m \in S}
  <1>1. D \in SUBSET (1..n) /\ D # {}
    OBVIOUS
  <1>2. Oldest(D) \in D /\ \A d \in D : Oldest(D) <= d
    <2> HIDE DEF D
    <2> QED
      BY <1>1, OldestIs
  <1>3. PICK o \in S : Oldest(D) = (n + 1) - o
    BY <1>2
  <1>4. ASSUME NEW m \in S PROVE m <= o
    <2>1. (n + 1) - o <= (n + 1) - m
      BY <1>2, <1>3
    <2>2. m \in Int /\ o \in Int
      OBVIOUS
    <2> QED
      BY <2>1, <2>2
  <1> QED
    BY <1>4 DEF Newest

(* What a page of history leaves out is older than its next cursor. *)
LEMMA PageIs ==
  ASSUME RoomInv, NEW c
  PROVE  /\ NextCursor(c) \in 0..sent
         /\ \A m \in Before(c) : m \in Page(c) \/ (NextCursor(c) # 0 /\ m < NextCursor(c))
         /\ NextCursor(c) # 0 => Page(c) # {} /\ \A n \in Page(c) : n >= NextCursor(c)
  <1> DEFINE B == Before(c)
             Later(m) == {n \in B : n > m}
  <1>0. sent \in Nat
    BY DEF RoomInv, Numbers
  <1>1. B \in SUBSET (1..sent) /\ Page(c) \in SUBSET (1..sent) /\ Page(c) \subseteq B
    BY DEF Before, Page
  <1>2. Page(c) = {m \in B : Cardinality(Later(m)) < PageSize}
    BY DEF Page
  <1>3. NextCursor(c) = IF Page(c) = B THEN 0 ELSE Oldest(Page(c))
    BY DEF NextCursor
  <1> HIDE DEF B
  <1>4. \A m : IsFiniteSet(Later(m)) /\ Cardinality(Later(m)) \in Nat
    <2>1. IsFiniteSet(B)
      <3>1. IsFiniteSet(1..sent)
        BY <1>0, FS_Interval
      <3> QED
        BY <1>1, <3>1, FS_Subset
    <2>2. \A m : Later(m) \in SUBSET B
      OBVIOUS
    <2>3. \A m : IsFiniteSet(Later(m))
      BY <2>1, <2>2, FS_Subset
    <2> QED
      BY <2>3, FS_CardinalityType
  <1>5. CASE Page(c) = B
    BY <1>0, <1>3, <1>5 DEF B
  <1>6. CASE Page(c) # B
    <2>1. PICK b \in B : \A m \in B : m <= b
      BY <1>0, <1>1, <1>6, NewestIs
    <2>2. b \in Page(c)
      <3>1. \A m \in B : m \in Nat
        BY <1>1
      <3>2. Later(b) = {}
        BY <2>1, <3>1
      <3>3. Cardinality(Later(b)) = 0
        BY <3>2, FS_EmptySet
      <3> QED
        BY <1>2, <3>3, PageAssumption
    <2>3. PICK o \in Page(c) : o = NextCursor(c) /\ \A n \in Page(c) : o <= n
      BY <1>0, <1>1, <1>3, <1>6, <2>2, OldestIs
    <2>4. o \in 1..sent
      BY <1>1
    <2>5. ASSUME NEW m \in B, m \notin Page(c) PROVE m < o
      <3>1. m \in Nat /\ o \in Nat
        BY <1>1, <2>4
      <3>2. ASSUME o <= m PROVE FALSE
        <4>1. Later(m) \in SUBSET Later(o)
          <5>1. \A n \in B : n \in Nat
            BY <1>1
          <5>2. \A n \in B : n > m => n > o
            BY <3>1, <3>2, <5>1
          <5> QED
            BY <5>2
        <4>2. Cardinality(Later(m)) <= Cardinality(Later(o))
          <5> HIDE DEF Later
          <5> QED
            BY <1>4, <4>1, FS_Subset
        <4>3. Cardinality(Later(o)) < PageSize
          BY <1>2
        <4>4. Cardinality(Later(m)) \in Nat /\ Cardinality(Later(o)) \in Nat
          BY <1>4
        <4> HIDE DEF Later
        <4>5. Cardinality(Later(m)) < PageSize
          BY <4>2, <4>3, <4>4, PageAssumption
        <4> QED
          BY <1>2, <2>5, <4>5 DEF Later
      <3> QED
        BY <3>1, <3>2
    <2>6. \A n \in Page(c) : n >= o
      <3>1. \A n \in Page(c) : n \in Nat
        BY <1>1
      <3> QED
        BY <2>3, <2>4, <3>1
    <2>7. o # 0 /\ o \in 0..sent
      BY <1>0, <2>4
    <2> QED
      BY <2>2, <2>3, <2>5, <2>6, <2>7 DEF B
  <1> QED
    BY <1>5, <1>6

(* What a rejection erased stays erased. *)
LEMMA ErasedStays == ASSUME RoomInv, [Next]_vars PROVE Erased \subseteq Erased'
  <1>1. CASE UNCHANGED <<vote, grace>>
    BY <1>1 DEF Erased
  <1>2. CASE Send
    BY <1>2 DEF Send, Erased
  <1>3. CASE Accept \/ Decide
    BY <1>3 DEF Accept, Decide, Erased
  <1> QED
    BY <1>1, <1>2, <1>3
       DEF Next, vars, HandleNew, Disconnect, Refresh, AnswerLoad, LoadConversation, LoadVote, LoadPage, FailLoad,
           Sync, AnswerSync, SyncList, SyncVote, FailSync

(* A rejection takes out what it erased, and what was taken for grace. *)
LEMMA ApplyVoteFresh ==
  ASSUME RoomInv, NEW v, Told(v), room' = ApplyVote(room, v), UNCHANGED <<grace, vote>>,
         ~ TakesOutOther(room, v)
  PROVE  /\ room'.head = room.head /\ room'.cursor = room.cursor
         /\ \A m : Fresh(m) => Fresh(m)'
  <1>0. room = [accepted |-> room.accepted, vote |-> room.vote, head |-> room.head, cursor |-> room.cursor,
                shown |-> room.shown, asGrace |-> room.asGrace]
    BY DEF RoomInv, Shapes
  <1>1. CASE room.vote \in Final /\ v = "open"
    <2>1. room' = room
      BY <1>1 DEF ApplyVote
    <2> QED
      BY <2>1 DEF Fresh, Erased
  <1>2. CASE ~ (room.vote \in Final /\ v = "open") /\ v = "rejected"
    <2>1. room'.head = room.head /\ room'.cursor = room.cursor /\ room'.shown = room.shown \ room.asGrace
      BY <1>0, <1>2 DEF ApplyVote
    <2>2. vote = "rejected"
      BY <1>2 DEF Told
    <2>3. \A m \in room.shown : m \in room.asGrace => m \in Erased
      <3>1. \A m \in room.asGrace : ~ (m > grace)
        BY <1>2 DEF TakesOutOther
      <3>2. \A m \in room.shown : m \in 1..sent
        BY DEF RoomInv, OnlySent
      <3> QED
        BY <2>2, <3>1, <3>2 DEF Erased, RoomInv, Numbers
    <2>4. Erased' = Erased
      BY DEF Erased
    <2> QED
      BY <2>1, <2>3, <2>4 DEF Fresh
  <1>3. CASE ~ (room.vote \in Final /\ v = "open") /\ v # "rejected"
    <2>1. room'.head = room.head /\ room'.cursor = room.cursor /\ room'.shown = room.shown
      BY <1>0, <1>3 DEF ApplyVote
    <2> QED
      BY <2>1 DEF Fresh, Erased
  <1> QED
    BY <1>1, <1>2, <1>3

(* The messages of a page are shown, but those erased meanwhile. *)
LEMMA ReceivePageFresh ==
  ASSUME RoomInv, NEW items \in SUBSET (1..sent), NEW head, NEW cursor,
         room' = [ReceivePage(room, items) EXCEPT !.head = head, !.cursor = cursor],
         UNCHANGED <<grace, vote>>
  PROVE  /\ room'.head = head /\ room'.cursor = cursor
         /\ \A m : Fresh(m) => Fresh(m)'
         /\ \A m \in items : Fresh(m)'
  <1> DEFINE kept == IF room.vote = "rejected" THEN {m \in items : m > grace} ELSE items
  <1>0. room = [accepted |-> room.accepted, vote |-> room.vote, head |-> room.head, cursor |-> room.cursor,
                shown |-> room.shown, asGrace |-> room.asGrace]
    BY DEF RoomInv, Shapes
  <1>1. ReceivePage(room, items)
          = [room EXCEPT !.shown = @ \cup kept, !.asGrace = (@ \ kept) \cup {m \in kept : m <= grace}]
    BY DEF ReceivePage
  <1>2. \A m \in items : m \in kept \/ m \in Erased
    BY DEF RoomInv, Numbers, VerdictIsKnown, Final, Erased
  <1> HIDE DEF kept
  <1>3. room'.head = head /\ room'.cursor = cursor /\ room'.shown = room.shown \cup kept
    BY <1>0, <1>1
  <1>4. Erased' = Erased
    BY DEF Erased
  <1> QED
    BY <1>2, <1>3, <1>4 DEF Fresh

(* A step that leaves the refresh alone and takes nothing out. *)
LEMMA QuietKeeps ==
  ASSUME RoomInv, PagesInv, load' = load, room'.head = room.head, room'.cursor = room.cursor,
         sent' \in Nat, sent <= sent', cut' = cut, mistaken => mistaken',
         ~ mistaken' => \A m : Fresh(m) => Fresh(m)', Erased \subseteq Erased'
  PROVE  PagesInv'
  <1>0. sent \in Nat /\ load.items \subseteq 1..sent
    BY DEF RoomInv, Numbers, OnlySent
  <1>1. CursorsAreSent'
    BY <1>0 DEF PagesInv, CursorsAreSent
  <1>2. PagesInOrder'
    BY DEF PagesInv, PagesInOrder
  <1>3. HoleIsBelowCursor'
    BY DEF PagesInv, HoleIsBelowCursor, Shows
  <1>4. PageIsWhole'
    <2>1. ASSUME load.phase = "history" /\ load.answered, NEW m \in 1..sent', InPage(m)'
          PROVE  m \in load.items \/ m \in Erased'
      <3>1. InPage(m)
        BY <2>1 DEF InPage
      <3>2. m \in 1..sent
        <4>1. CASE load.cursor # 0
          BY <1>0, <3>1, <4>1 DEF InPage, PagesInv, CursorsAreSent
        <4>2. CASE load.cursor = 0
          <5>1. PICK n \in load.items : m <= n
            BY <3>1, <4>2 DEF InPage
          <5>2. n \in 1..sent
            BY <1>0
          <5> QED
            BY <1>0, <5>1, <5>2
        <4> QED
          BY <4>1, <4>2
      <3> QED
        BY <2>1, <3>1, <3>2 DEF PagesInv, PageIsWhole
    <2> QED
      BY <2>1 DEF PagesInv, PageIsWhole, InPage
  <1> QED
    BY <1>1, <1>2, <1>3, <1>4 DEF PagesInv

-----------------------------------------------------------------------------
(* The steps that leave the refresh alone *)

LEMMA ServerAndSyncPages ==
  ASSUME RoomInv, PagesInv, Next,
         Send \/ Accept \/ Decide \/ HandleNew \/ Disconnect \/ Sync \/ AnswerSync \/ SyncList \/ SyncVote \/ FailSync
  PROVE  PagesInv'
  <1>0. load' = load /\ cut' = cut /\ sent \in Nat /\ Erased \subseteq Erased'
    <2>1. load' = load /\ cut' = cut
      BY DEF Send, Accept, Decide, HandleNew, Disconnect, Sync, AnswerSync, SyncList, SyncVote, FailSync
    <2> QED
      BY <2>1, ErasedStays DEF RoomInv, Numbers
  <1>1. CASE Send \/ Accept \/ Decide \/ Disconnect \/ Sync \/ AnswerSync \/ FailSync
    <2>1. room' = room /\ mistaken' = mistaken /\ sent' \in Nat /\ sent <= sent'
      BY <1>0, <1>1 DEF Send, Accept, Decide, Disconnect, Sync, AnswerSync, FailSync
    <2>2. \A m : Fresh(m) => Fresh(m)'
      BY <1>0, <2>1 DEF Fresh
    <2> QED
      BY <1>0, <2>1, <2>2, QuietKeeps
  <1>2. CASE HandleNew \/ SyncList
    <2>1. sent' \in Nat /\ sent <= sent' /\ mistaken' = mistaken
      BY <1>0, <1>2 DEF HandleNew, SyncList
    <2>2. room'.head = room.head /\ room'.cursor = room.cursor /\ room.shown \subseteq room'.shown
      <3>1. room = [accepted |-> room.accepted, vote |-> room.vote, head |-> room.head, cursor |-> room.cursor,
                    shown |-> room.shown, asGrace |-> room.asGrace]
        BY DEF RoomInv, Shapes
      <3>2. CASE HandleNew
        <4>1. PICK m, g : room' = Receive(room, m, g)
          BY <3>2 DEF HandleNew
        <4> QED
          BY <3>1, <4>1 DEF Receive
      <3>3. CASE SyncList
        BY <3>1, <3>3 DEF SyncList
      <3> QED
        BY <1>2, <3>2, <3>3
    <2>3. \A m : Fresh(m) => Fresh(m)'
      BY <1>0, <2>2 DEF Fresh
    <2> QED
      BY <1>0, <2>1, <2>2, <2>3, QuietKeeps
  <1>3. CASE SyncVote
    <2>1. /\ Told(sync.vote) /\ room' = ApplyVote(room, sync.vote) /\ UNCHANGED <<sent, grace, vote>>
          /\ mistaken' = (mistaken \/ TakesOutOther(room, sync.vote))
      BY <1>3 DEF SyncVote, RoomInv, AnswersAreTold
    <2>2. room'.head = room.head /\ room'.cursor = room.cursor
      BY <2>1 DEF ApplyVote, RoomInv, Shapes
    <2>3. ~ mistaken' => \A m : Fresh(m) => Fresh(m)'
      BY <2>1, ApplyVoteFresh
    <2>4. sent' \in Nat /\ sent <= sent' /\ (mistaken => mistaken')
      <3>1. sent' = sent
        BY <2>1
      <3>2. mistaken => mistaken'
        BY <2>1
      <3> QED
        BY <1>0, <3>1, <3>2
    <2> QED
      BY <1>0, <2>2, <2>3, <2>4, QuietKeeps
  <1> QED
    BY <1>1, <1>2, <1>3

-----------------------------------------------------------------------------
(* The steps of a refresh *)

(* It starts, or fails before it moved the head. *)
LEMMA ResetLoadPages ==
  ASSUME RoomInv, PagesInv, Refresh(FALSE) \/ Refresh(TRUE) \/ FailLoad PROVE PagesInv'
  <1>0. room' = room /\ sent' = sent /\ mistaken' = mistaken /\ sent \in Nat /\ Erased' = Erased
    BY DEF Refresh, FailLoad, RoomInv, Numbers, Erased
  <1>1. PICK more \in BOOLEAN, phase \in {"idle", "conversation"} :
          /\ load' = [phase |-> phase, answered |-> FALSE, more |-> more, first |-> TRUE, oldHead |-> 0,
                      cursor |-> 0, accepted |-> FALSE, vote |-> "none", items |-> {}, next |-> 0]
          /\ more => room.cursor # 0
    <2>1. CASE FailLoad
      <3>1. load' = [phase |-> "idle", answered |-> FALSE, more |-> FALSE, first |-> TRUE, oldHead |-> 0,
                     cursor |-> 0, accepted |-> FALSE, vote |-> "none", items |-> {}, next |-> 0]
        BY <2>1 DEF FailLoad, NoLoad
      <3> QED
        BY <3>1
    <2>2. ASSUME NEW more \in BOOLEAN, Refresh(more)
          PROVE  /\ load' = [phase |-> "conversation", answered |-> FALSE, more |-> more, first |-> TRUE,
                             oldHead |-> 0, cursor |-> 0, accepted |-> FALSE, vote |-> "none", items |-> {}, next |-> 0]
                 /\ more => room.cursor # 0
      BY <2>2 DEF Refresh, NoLoad
    <2> QED
      BY <2>1, <2>2
  <1>2. /\ load'.phase = phase /\ load'.more = more /\ load'.first = TRUE
        /\ load'.oldHead = 0 /\ load'.cursor = 0 /\ load'.next = 0
    BY <1>1
  <1>3. CursorsAreSent' /\ PagesInOrder' /\ PageIsWhole'
    BY <1>0, <1>1, <1>2 DEF PagesInv, CursorsAreSent, PagesInOrder, PageIsWhole
  <1>4. ~ cut' => ~ cut /\ ~ (load.phase = "history" /\ ~ load.first)
    BY DEF Refresh, FailLoad
  <1>5. \A m : Fresh(m) => Fresh(m)'
    BY <1>0 DEF Fresh
  <1>6. HoleIsBelowCursor'
    BY <1>0, <1>1, <1>2, <1>4, <1>5 DEF PagesInv, HoleIsBelowCursor, Shows
  <1> QED
    BY <1>3, <1>6 DEF PagesInv

LEMMA AnswerLoadPages == ASSUME RoomInv, PagesInv, AnswerLoad PROVE PagesInv'
  <1>0. UNCHANGED <<sent, grace, vote, room, cut, mistaken>> /\ sent \in Nat /\ Erased' = Erased
    BY DEF AnswerLoad, RoomInv, Numbers, Erased
  <1>1. load = [phase |-> load.phase, answered |-> load.answered, more |-> load.more, first |-> load.first,
                oldHead |-> load.oldHead, cursor |-> load.cursor, accepted |-> load.accepted,
                vote |-> load.vote, items |-> load.items, next |-> load.next]
    BY DEF RoomInv, Shapes
  <1>2. /\ load'.phase = load.phase /\ load'.more = load.more /\ load'.first = load.first
        /\ load'.oldHead = load.oldHead /\ load'.cursor = load.cursor
        /\ \/ load.phase = "history" /\ load'.items = Page(load.cursor) /\ load'.next = NextCursor(load.cursor)
           \/ load.phase # "history" /\ load'.next = load.next
    <2>1. CASE load.phase = "conversation"
      <3>1. load' = [load EXCEPT !.answered = TRUE, !.accepted = vote # "none"]
        BY <2>1 DEF AnswerLoad
      <3> QED
        BY <1>1, <2>1, <3>1
    <2>2. CASE load.phase = "vote"
      <3>1. load' = [load EXCEPT !.answered = TRUE, !.vote = vote]
        BY <2>2 DEF AnswerLoad
      <3> QED
        BY <1>1, <2>2, <3>1
    <2>3. CASE load.phase = "history"
      <3>1. load' = [load EXCEPT !.answered = TRUE, !.items = Page(load.cursor), !.next = NextCursor(load.cursor)]
        BY <2>3 DEF AnswerLoad
      <3> QED
        BY <1>1, <2>3, <3>1
    <2> QED
      BY <2>1, <2>2, <2>3 DEF AnswerLoad, RoomInv, PhasesOfLoad
  <1>3. /\ NextCursor(load.cursor) \in 0..sent
        /\ \A m \in Before(load.cursor) :
             m \in Page(load.cursor) \/ (NextCursor(load.cursor) # 0 /\ m < NextCursor(load.cursor))
        /\ NextCursor(load.cursor) # 0 =>
             Page(load.cursor) # {} /\ \A n \in Page(load.cursor) : n >= NextCursor(load.cursor)
    BY PageIs
  <1>4. CursorsAreSent'
    BY <1>0, <1>2, <1>3 DEF PagesInv, CursorsAreSent
  <1>5. PagesInOrder'
    BY <1>0, <1>2 DEF PagesInv, PagesInOrder
  <1>6. HoleIsBelowCursor'
    BY <1>0, <1>2 DEF PagesInv, HoleIsBelowCursor, Shows, Fresh
  <1>7. PageIsWhole'
    <2> SUFFICES ASSUME load.phase = "history"
                 PROVE  /\ \A m \in 1..sent : InPage(m)' => m \in load'.items \/ m \in Erased
                        /\ load'.next # 0 => load'.items # {} /\ \A n \in load'.items : n >= load'.next
      BY <1>0, <1>2 DEF PageIsWhole
    <2>1. ASSUME NEW m \in 1..sent, InPage(m)', m \notin Erased PROVE m \in load'.items
      <3>1. m \in Before(load.cursor)
        BY <1>2, <2>1 DEF Before, InPage
      <3>2. NextCursor(load.cursor) # 0 => m >= NextCursor(load.cursor)
        BY <1>2, <2>1 DEF InPage
      <3>3. ~ (NextCursor(load.cursor) # 0 /\ m < NextCursor(load.cursor))
        BY <1>0, <1>3, <3>2
      <3> QED
        BY <1>2, <1>3, <3>1, <3>3
    <2> QED
      BY <1>2, <1>3, <2>1
  <1> QED
    BY <1>4, <1>5, <1>6, <1>7 DEF PagesInv

LEMMA LoadConversationPages == ASSUME RoomInv, PagesInv, LoadConversation PROVE PagesInv'
  <1>0. UNCHANGED <<sent, grace, vote, cut, mistaken>> /\ Erased' = Erased
    BY DEF LoadConversation, Erased
  <1>1. room'.head = room.head /\ room'.cursor = room.cursor /\ room'.shown = room.shown
    BY DEF LoadConversation, RoomInv, Shapes
  <1>2. /\ load.phase = "conversation" /\ load'.phase = "vote" /\ load'.more = load.more /\ load'.first = load.first
        /\ load'.oldHead = load.oldHead /\ load'.cursor = load.cursor /\ load'.next = load.next
    BY DEF LoadConversation, RoomInv, Shapes
  <1>3. CursorsAreSent' /\ PagesInOrder' /\ PageIsWhole'
    BY <1>0, <1>1, <1>2 DEF PagesInv, CursorsAreSent, PagesInOrder, PageIsWhole
  <1>4. HoleIsBelowCursor'
    BY <1>0, <1>1, <1>2 DEF PagesInv, HoleIsBelowCursor, Shows, Fresh
  <1> QED
    BY <1>3, <1>4 DEF PagesInv

LEMMA LoadVotePages == ASSUME RoomInv, PagesInv, LoadVote PROVE PagesInv'
  <1>0. UNCHANGED <<sent, grace, vote, cut>> /\ sent \in Nat
    BY DEF LoadVote, RoomInv, Numbers
  <1>1. /\ Told(load.vote) /\ room' = ApplyVote(room, load.vote)
        /\ mistaken' = (mistaken \/ TakesOutOther(room, load.vote))
    BY DEF LoadVote, RoomInv, AnswersAreTold
  <1>2. room'.head = room.head /\ room'.cursor = room.cursor
    BY <1>1 DEF ApplyVote, RoomInv, Shapes
  <1>3. ~ mistaken' => \A m : Fresh(m) => Fresh(m)'
    BY <1>0, <1>1, ApplyVoteFresh
  <1>4. /\ load.phase = "vote" /\ load'.phase = "history" /\ load'.answered = FALSE
        /\ load'.more = load.more /\ load'.first = load.first /\ load'.next = load.next
        /\ load'.oldHead = room.head /\ load'.cursor = IF load.more THEN room.cursor ELSE 0
    BY DEF LoadVote, RoomInv, Shapes
  <1>5. CursorsAreSent'
    BY <1>0, <1>2, <1>4 DEF PagesInv, CursorsAreSent
  <1>6. PagesInOrder' /\ PageIsWhole'
    BY <1>2, <1>4 DEF PagesInv, PagesInOrder, PageIsWhole
  <1>7. HoleIsBelowCursor'
    BY <1>0, <1>1, <1>2, <1>3, <1>4 DEF PagesInv, PagesInOrder, HoleIsBelowCursor, Shows
  <1> QED
    BY <1>5, <1>6, <1>7 DEF PagesInv

(* A page is added: of older messages, of a first load, or from the head down  *)
(* to the old one.                                                             *)
LEMMA LoadPagePages == ASSUME RoomInv, PagesInv, LoadPage PROVE PagesInv'
  <1>0. /\ UNCHANGED <<sent, grace, vote, cut, mistaken>> /\ sent \in Nat
        /\ load.phase = "history" /\ load.answered /\ load.items \in SUBSET (1..sent)
    BY DEF LoadPage, RoomInv, Numbers, OnlySent
  <1>1. PICK head, cursor, last :
          /\ head = IF load.first /\ ~ load.more /\ load.items # {} THEN Newest(load.items) ELSE room.head
          /\ cursor = IF load.first /\ (load.more \/ load.oldHead = 0) THEN load.next ELSE room.cursor
          /\ last \in BOOLEAN
          /\ last <=> load.more \/ load.oldHead = 0 \/ load.oldHead \in load.items \/ load.next = 0
          /\ room' = [ReceivePage(room, load.items) EXCEPT !.head = head, !.cursor = cursor]
          /\ load' = IF last THEN NoLoad
                     ELSE [load EXCEPT !.answered = FALSE, !.first = FALSE, !.cursor = load.next, !.items = {}, !.next = 0]
    BY DEF LoadPage, LastPage
  <1>2. /\ room'.head = head /\ room'.cursor = cursor
        /\ \A m : Fresh(m) => Fresh(m)'
        /\ \A m \in load.items : Fresh(m)'
    <2>1. room' = [ReceivePage(room, load.items) EXCEPT !.head = head, !.cursor = cursor]
      BY <1>1
    <2>2. UNCHANGED <<grace, vote>> /\ load.items \in SUBSET (1..sent)
      BY <1>0
    <2> QED
      BY <2>1, <2>2, ReceivePageFresh
  <1>3. /\ load.next # 0 => load.items # {} /\ \A n \in load.items : n >= load.next
        /\ \A m \in 1..sent : InPage(m) => Fresh(m)'
    <2>1. \A m : m \in Erased => Fresh(m)
      BY DEF Fresh
    <2> QED
      BY <1>0, <1>2, <2>1 DEF PagesInv, PageIsWhole
  <1>4. /\ room.head \in 0..sent /\ room.cursor \in 0..sent /\ load.oldHead \in 0..sent /\ load.cursor \in 0..sent
        /\ load.next \in 0..sent /\ load.more \in BOOLEAN /\ load.first \in BOOLEAN
    BY DEF PagesInv, CursorsAreSent
  <1>5. /\ load.more => room.cursor # 0 /\ load.first
        /\ load.first => load.oldHead = room.head /\ load.cursor = IF load.more THEN room.cursor ELSE 0
        /\ ~ load.first => load.oldHead # 0 /\ load.cursor # 0
    BY <1>0, <1>4 DEF PagesInv, PagesInOrder
  <1>6. head \in 0..sent /\ (load.first /\ ~ load.more /\ load.items # {} =>
                               head \in load.items /\ \A m \in load.items : m <= head)
    BY <1>0, <1>1, <1>4, NewestIs
  <1>7. CASE last
    <2>1. /\ load'.phase = "idle" /\ load'.first = TRUE /\ load'.more = FALSE /\ load'.oldHead = 0
          /\ load'.cursor = 0 /\ load'.next = 0
      BY <1>1, <1>7 DEF NoLoad
    <2>2. CursorsAreSent' /\ PagesInOrder' /\ PageIsWhole'
      <3>1. cursor \in 0..sent /\ head \in 0..sent /\ sent' = sent /\ 0 \in 0..sent
        BY <1>0, <1>1, <1>4, <1>6
      <3>2. CursorsAreSent'
        BY <1>2, <2>1, <3>1 DEF CursorsAreSent
      <3> QED
        BY <2>1, <3>2 DEF PagesInOrder, PageIsWhole
    <2>3. ASSUME ~ cut, ~ mistaken, NEW m \in 1..head, m >= cursor PROVE Fresh(m)'
      <3>1. m \in 1..sent
        BY <1>0, <1>6
      <3>2. CASE load.more
        <4>1. cursor = load.next /\ head = room.head /\ load.cursor = room.cursor /\ room.cursor # 0
          BY <1>1, <1>5, <3>2
        <4>2. CASE m >= room.cursor
          <5>1. Shows(room.cursor, room.head)
            BY <1>5, <2>3, <3>2 DEF PagesInv, HoleIsBelowCursor
          <5> QED
            BY <1>2, <2>3, <4>1, <4>2, <5>1 DEF Shows
        <4>3. CASE m < room.cursor
          BY <1>3, <2>3, <3>1, <4>1, <4>3 DEF InPage
        <4> QED
          BY <1>4, <3>1, <4>2, <4>3
      <3>3. CASE ~ load.more /\ load.first
        <4>1. load.cursor = 0 /\ load.oldHead = room.head /\ Shows(room.cursor, room.head)
          BY <1>5, <2>3, <3>3 DEF PagesInv, HoleIsBelowCursor
        <4>2. CASE load.items = {}
          <5>1. head = room.head /\ (room.head # 0 => cursor = room.cursor)
            BY <1>1, <3>3, <4>1, <4>2
          <5>2. room.head # 0
            BY <1>4, <2>3, <5>1
          <5> QED
            BY <1>2, <2>3, <4>1, <5>1, <5>2 DEF Shows
        <4>3. CASE load.items # {} /\ (load.next # 0 => m >= load.next)
          <5>1. m <= head /\ head \in load.items
            BY <1>6, <2>3, <3>3, <4>3
          <5> QED
            BY <1>3, <3>1, <4>1, <4>3, <5>1 DEF InPage
        <4>4. CASE load.items # {} /\ load.next # 0 /\ ~ (m >= load.next)
          <5>1. load.oldHead # 0
            BY <1>1, <2>3, <3>3, <4>4
          <5>2. load.oldHead \in load.items /\ cursor = room.cursor
            BY <1>1, <1>7, <3>3, <4>4, <5>1
          <5>3. load.oldHead >= load.next
            BY <1>3, <4>4, <5>2
          <5>4. m \in 1..room.head
            BY <1>4, <3>1, <4>1, <4>4, <5>3
          <5> QED
            BY <1>2, <2>3, <4>1, <5>2, <5>4 DEF Shows
        <4> QED
          BY <4>2, <4>3, <4>4
      <3>4. CASE ~ load.first
        <4>1. /\ head = room.head /\ cursor = room.cursor /\ load.oldHead # 0 /\ load.cursor # 0
              /\ Shows(load.cursor, room.head) /\ Shows(room.cursor, load.oldHead)
          BY <1>0, <1>1, <1>5, <2>3, <3>4 DEF PagesInv, HoleIsBelowCursor
        <4>2. CASE m >= load.cursor
          BY <1>2, <2>3, <4>1, <4>2 DEF Shows
        <4>3. CASE m < load.cursor /\ (load.next # 0 => m >= load.next)
          BY <1>3, <3>1, <4>1, <4>3 DEF InPage
        <4>4. CASE load.next # 0 /\ ~ (m >= load.next)
          <5>1. load.oldHead \in load.items
            BY <1>1, <1>5, <1>7, <3>4, <4>1, <4>4
          <5>2. load.oldHead >= load.next
            BY <1>3, <4>4, <5>1
          <5>3. m \in 1..load.oldHead
            BY <1>4, <3>1, <4>4, <5>2
          <5> QED
            BY <1>2, <2>3, <4>1, <5>3 DEF Shows
        <4> QED
          BY <1>4, <3>1, <4>2, <4>3, <4>4
      <3> QED
        BY <3>2, <3>3, <3>4
    <2>4. HoleIsBelowCursor'
      BY <1>0, <1>2, <2>1, <2>3 DEF HoleIsBelowCursor, Shows
    <2> QED
      BY <2>2, <2>4 DEF PagesInv
  <1>8. CASE ~ last
    <2>1. ~ load.more /\ load.oldHead # 0 /\ load.oldHead \notin load.items /\ load.next # 0 /\ cursor = room.cursor
      BY <1>1, <1>8
    <2>2. /\ load'.phase = "history" /\ load'.answered = FALSE /\ load'.first = FALSE /\ load'.more = load.more
          /\ load'.oldHead = load.oldHead /\ load'.cursor = load.next /\ load'.next = 0
      BY <1>0, <1>1, <1>8 DEF RoomInv, Shapes
    <2>3. CursorsAreSent'
      <3>1. cursor \in 0..sent /\ head \in 0..sent /\ sent' = sent /\ 0 \in 0..sent
        BY <1>0, <1>4, <1>6, <2>1
      <3> QED
        BY <1>2, <1>4, <2>2, <3>1 DEF CursorsAreSent
    <2>4. PagesInOrder' /\ PageIsWhole'
      BY <2>1, <2>2 DEF PagesInOrder, PageIsWhole
    <2>5. ASSUME ~ cut, ~ mistaken, NEW m \in 1..head, m >= load.next PROVE Fresh(m)'
      <3>1. m \in 1..sent
        BY <1>0, <1>6
      <3>2. CASE load.first
        <4>1. load.cursor = 0 /\ m <= head /\ head \in load.items
          BY <1>3, <1>5, <1>6, <2>1, <2>5, <3>2
        <4> QED
          BY <1>3, <2>5, <3>1, <4>1 DEF InPage
      <3>3. CASE ~ load.first
        <4>1. head = room.head /\ load.cursor # 0 /\ Shows(load.cursor, room.head)
          BY <1>0, <1>1, <1>5, <2>5, <3>3 DEF PagesInv, HoleIsBelowCursor
        <4>2. CASE m >= load.cursor
          BY <1>2, <2>5, <4>1, <4>2 DEF Shows
        <4>3. CASE m < load.cursor
          BY <1>3, <2>5, <3>1, <4>1, <4>3 DEF InPage
        <4> QED
          BY <1>4, <3>1, <4>2, <4>3
      <3> QED
        BY <3>2, <3>3
    <2>6. ASSUME ~ cut, ~ mistaken PROVE Shows(room.cursor, load.oldHead)
      BY <1>0, <1>5, <2>6 DEF PagesInv, HoleIsBelowCursor
    <2>7. HoleIsBelowCursor'
      BY <1>0, <1>2, <2>1, <2>2, <2>5, <2>6 DEF HoleIsBelowCursor, Shows
    <2> QED
      BY <2>3, <2>4, <2>7 DEF PagesInv
  <1> QED
    BY <1>1, <1>7, <1>8

LEMMA PagesStart == Init => PagesInv
  BY DEF Init, NoLoad, RoomInv, PagesInv, CursorsAreSent, PagesInOrder, HoleIsBelowCursor, Shows, PageIsWhole

LEMMA PagesStep == RoomInv /\ PagesInv /\ [Next]_vars => PagesInv'
  <1> SUFFICES ASSUME RoomInv, PagesInv, [Next]_vars PROVE PagesInv'
    OBVIOUS
  <1>1. CASE Next
    BY <1>1, ServerAndSyncPages, ResetLoadPages, AnswerLoadPages, LoadConversationPages, LoadVotePages, LoadPagePages
       DEF Next
  <1>2. CASE UNCHANGED vars
    BY <1>2 DEF vars, PagesInv, CursorsAreSent, PagesInOrder, HoleIsBelowCursor, Shows, Fresh, Erased, PageIsWhole,
               InPage
  <1> QED
    BY <1>1, <1>2

-----------------------------------------------------------------------------
(* Theorems *)

(* What every reachable room, refresh and sync satisfy: the page marks every   *)
(* message of grace it shows, a verdict it shows is the verdict, and no answer  *)
(* to be applied is more than one change of the vote behind.                    *)
THEOREM RoomInvariant == Spec => []RoomInv
  <1> QED
    BY InitIsInv, NextKeeps, PTL DEF Spec

(* After a rejection no grace message comes back to a page that knows of it,    *)
(* whatever was on its way or had been read before.                             *)
THEOREM RejectedStaysOut == Spec => []RejectedGraceStaysOut
  <1>1. RoomInv => RejectedGraceStaysOut
    BY DEF RoomInv, GraceIsMarked
  <1> QED
    BY <1>1, RoomInvariant, PTL

(* A verdict the page has shown is never taken back, whichever of refresh and   *)
(* sync asked first.                                                            *)
THEOREM VerdictsAreKept == Spec => VerdictIsNotTakenBack
  <1>1. RoomInv /\ [Next]_vars => [room.vote \in Final => room'.vote = room.vote]_vars
    BY NextKeeps DEF VerdictKept
  <1> QED
    BY <1>1, RoomInvariant, PTL DEF Spec, VerdictIsNotTakenBack

(* However many messages a page missed, refreshes that read all their pages     *)
(* leave none out between its cursor and its head (chat.js, loadRoom), for      *)
(* every size of a page.                                                        *)
THEOREM PagesHaveNoHole == Spec => []NoHoleUnlessCut
  <1>1. Spec => []PagesInv
    BY RoomInvariant, PagesStart, PagesStep, PTL DEF Spec
  <1>2. PagesInv => NoHoleUnlessCut
    BY DEF PagesInv, HoleIsBelowCursor, Shows, Fresh, NoHoleUnlessCut, Loaded
  <1> QED
    BY <1>1, <1>2, PTL

=============================================================================
