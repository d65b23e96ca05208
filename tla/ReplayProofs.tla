---------------------------- MODULE ReplayProofs ----------------------------
(***************************************************************************)
(* Proofs about Replay for every set of replays, sockets and messages,     *)
(* every list a page may keep and every limit.                             *)
(***************************************************************************)
EXTENDS Replay, FiniteSetTheorems, WellFoundedInduction, SequenceTheorems, TLAPS

(***************************************************************************)
(* The frames of one replay.  After(f) is the number that follows a frame  *)
(* of it; no frame of the same replay lies between two consecutive ones.   *)
(***************************************************************************)

After(f) == IF f.kind = "begin" THEN 0 ELSE f.number + 1

Consecutive(i, j) ==
  /\ i < j /\ queue[i].id = queue[j].id
  /\ \A k \in 1..Len(queue) : i < k /\ k < j => queue[k].id # queue[j].id

(* The first frame to be read of the replay that is being collected. *)
FirstIsExpected ==
  \A j \in 1..Len(queue) :
    queue[j].kind # "begin" /\ queue[j].id = replay.id
        /\ (\A k \in 1..Len(queue) : k < j => queue[k].id # replay.id)
      => queue[j].number = replay.next

FollowersFollow ==
  \A i, j \in 1..Len(queue) :
    Consecutive(i, j) /\ queue[j].kind # "begin" => queue[j].number = After(queue[i])

Published(r) == relay[r] # NoRelay /\ relay[r].target = page /\ up /\ ~relay[r].finished

(* What the script expects follows what it published last. *)
LastIsCounted ==
  \A r \in Replays : Published(r) =>
    /\ \A i \in 1..Len(queue) :
         queue[i].id = r /\ (\A k \in 1..Len(queue) : i < k => queue[k].id # r)
           => After(queue[i]) = relay[r].next
    /\ replay.id = r /\ (\A k \in 1..Len(queue) : queue[k].id # r) => replay.next = relay[r].next

(* A page that connects is not the target of an earlier replay. *)
TargetsWereOpened == \A r \in Replays : relay[r] # NoRelay => relay[r].target \in used

Gapless == FirstIsExpected /\ FollowersFollow /\ LastIsCounted /\ TargetsWereOpened

(***************************************************************************)
(* The list of a replay.  Every frame is of the list its loop started      *)
(* with, and what the page has collected is a prefix of it.                *)
(***************************************************************************)

Faithful(f) ==
  /\ run[f.id].state # "idle"
  /\ f.kind = "item" => f.number < Len(copy[f.id]) /\ f.message = copy[f.id][f.number + 1]
  /\ f.kind = "end" => f.number = Len(copy[f.id])

FramesAreFaithful ==
  /\ \A c \in Senders : \A i \in 1..Len(frames[c]) : Faithful(frames[c][i])
  /\ \A i \in 1..Len(queue) : Faithful(queue[i])

Prefix(r, n) == {copy[r][i] : i \in 1..n}

CollectedIsPrefix ==
  replay.id # Nobody =>
    /\ run[replay.id].state # "idle"
    /\ replay.next <= Len(copy[replay.id])
    /\ replay.messages \subseteq Prefix(replay.id, replay.next)
    /\ Admitted(Prefix(replay.id, replay.next)) \subseteq replay.messages

ReplayInv ==
  /\ TypeOK
  /\ Gapless
  /\ FramesAreFaithful /\ CollectedIsPrefix
  /\ RejectedGraceStaysOut

-----------------------------------------------------------------------------
(* Sequences and the cap *)

LEMMA AppendIsTyped ==
  ASSUME NEW S, NEW q \in Seq(S), NEW x \in S
  PROVE  /\ Append(q, x) \in Seq(S) /\ Len(q) \in Nat /\ Len(Append(q, x)) = Len(q) + 1
         /\ Append(q, x)[Len(q) + 1] = x
         /\ \A i \in 1..Len(q) : Append(q, x)[i] = q[i] /\ q[i] \in S
OBVIOUS

LEMMA TailIsTyped ==
  ASSUME NEW S, NEW q \in Seq(S), q # <<>>
  PROVE  /\ Head(q) \in S /\ Tail(q) \in Seq(S) /\ Head(q) = q[1]
         /\ Len(q) \in Nat \ {0} /\ Len(Tail(q)) = Len(q) - 1
         /\ \A i \in 1..Len(Tail(q)) : Tail(q)[i] = q[i + 1] /\ i + 1 \in 1..Len(q)
OBVIOUS

(* chat.js:205: what is kept is among what there was, and at most Capacity. *)
LEMMA TrimIsCapped ==
  ASSUME NEW S \in SUBSET Messages
  PROVE  Trim(S) \subseteq S /\ Cardinality(Trim(S)) <= Capacity
<1>1. Trim(S) \subseteq S
  BY DEF Trim
<1>2. IsFiniteSet(S) /\ S \subseteq Nat
  BY ReplayConstants, FS_Subset
<1>3. CASE Trim(S) = {}
  BY <1>3, <1>1, FS_EmptySet, ReplayConstants
<1>4. CASE Trim(S) # {}
  <2>1. PICK m \in Trim(S) : \A k \in Trim(S) : <<k, m>> \notin OpToRel(<, Nat)
    BY <1>1, <1>2, <1>4, NatLessThanWellFounded, WFMin
  <2> DEFINE Later == {k \in S : m <= k}
  <2>2. ASSUME NEW k \in Trim(S) PROVE m <= k
    <3>1. k \in Nat /\ m \in Nat
      BY <1>1, <1>2
    <3>2. ~(k < m)
      BY <2>1, <3>1 DEF OpToRel
    <3>. QED
      BY <3>1, <3>2
  <2>3. Trim(S) \subseteq Later /\ IsFiniteSet(Later)
    BY <1>1, <1>2, <2>2, FS_Subset
  <2>4. Cardinality(Later) <= Capacity
    BY <2>1 DEF Trim
  <2> HIDE DEF Later
  <2>5. /\ Cardinality(Trim(S)) <= Cardinality(Later)
        /\ Cardinality(Trim(S)) \in Nat /\ Cardinality(Later) \in Nat
    BY <2>3, FS_Subset, FS_CardinalityType
  <2>. QED
    BY <2>4, <2>5, <1>1, ReplayConstants
<1>. QED
  BY <1>1, <1>3, <1>4

-----------------------------------------------------------------------------
(* Types *)

LEMMA NullsAreTyped ==
  /\ NoRelay \in Relay
  /\ NoReplay \in Collection
BY ReplayConstants DEF NoRelay, NoReplay, Relay, Collection

LEMMA RunUpdates ==
  ASSUME NEW x \in Run
  PROVE  /\ \A state \in {"running", "over"} : [x EXCEPT !.state = state] \in Run
         /\ [x EXCEPT !.next = @ + 1] \in Run
BY DEF Run

LEMMA RelayUpdates ==
  ASSUME NEW x \in Relay
  PROVE  /\ x.next < SequenceLimit => [x EXCEPT !.next = @ + 1] \in Relay
         /\ [x EXCEPT !.finished = TRUE] \in Relay
<1>1. ASSUME x.next < SequenceLimit PROVE [x EXCEPT !.next = @ + 1] \in Relay
  BY <1>1, ReplayConstants DEF Relay
<1>2. [x EXCEPT !.finished = TRUE] \in Relay
  BY DEF Relay
<1>. QED
  BY <1>1, <1>2

LEMMA FrameIsTyped ==
  ASSUME NEW f \in Frame
  PROVE  /\ f.kind \in {"begin", "item", "end"} /\ f.id \in Replays /\ f.number \in Nat
         /\ f.kind = "item" => f.message \in Messages
BY DEF Frame

LEMMA TransmitIsTyped ==
  ASSUME TypeOK, NEW f \in Frame, sender # Nobody, Transmit(f)
  PROVE  frames' \in [Senders -> Seq(Frame)]
BY AppendIsTyped DEF TypeOK, Transmit

LEMMA PublishIsTyped ==
  ASSUME TypeOK, NEW d, NEW f \in Frame, Publish(d, f)
  PROVE  queue' \in Seq(Frame)
<1>1. queue' = queue \/ queue' = Append(queue, f)
  BY DEF Publish
<1>2. queue \in Seq(Frame)
  BY DEF TypeOK
<1>3. Append(queue, f) \in Seq(Frame)
  BY <1>2, AppendIsTyped
<1>. QED
  BY <1>1, <1>2, <1>3

LEMMA TakeIsTyped ==
  ASSUME TypeOK, NEW c \in Senders, Take(c)
  PROVE  Head(frames[c]) \in Frame /\ frames' \in [Senders -> Seq(Frame)]
<1>1. frames[c] \in Seq(Frame) /\ frames[c] # <<>>
  BY DEF TypeOK, Take
<1>. QED
  BY <1>1, TailIsTyped DEF TypeOK, Take

LEMMA TypeInit == Init => TypeOK
<1> SUFFICES ASSUME Init PROVE TypeOK
  OBVIOUS
<1>1. Cardinality({}) = 0
  BY FS_EmptySet
<1>2. /\ frames \in [Senders -> Seq(Frame)] /\ queue \in Seq(Frame) /\ copy \in [Replays -> Seq(Messages)]
  BY DEF Init
<1>3. run \in [Replays -> Run] /\ relay \in [Replays -> Relay] /\ replay \in Collection
  BY NullsAreTyped DEF Init, Run
<1>4. used \subseteq Sockets /\ live \subseteq used
  BY DEF Init, Sockets
<1>5. /\ sender \in Senders \cup {Nobody} /\ page \in Receivers /\ up \in BOOLEAN /\ pageKnows \in BOOLEAN
  BY DEF Init
<1>6. shown \subseteq Messages /\ Cardinality(shown) <= Capacity
  BY <1>1, ReplayConstants DEF Init
<1>. QED
  BY <1>2, <1>3, <1>4, <1>5, <1>6 DEF TypeOK

LEMMA TypeStep == TypeOK /\ [Next]_vars => TypeOK'
<1> SUFFICES ASSUME TypeOK, [Next]_vars PROVE TypeOK'
  OBVIOUS
<1> USE ReplayConstants, NullsAreTyped
<1>1. ASSUME NEW c \in Senders, SenderConnects(c) PROVE TypeOK'
  BY <1>1 DEF SenderConnects, Connect, TypeOK, pageVars, Sockets
<1>2. ASSUME NEW d \in Receivers, PageConnects(d) PROVE TypeOK'
  BY <1>2 DEF PageConnects, Connect, TypeOK, senderVars, Sockets
<1>3. CASE SenderCloses
  <2>1. run' \in [Replays -> Run]
    BY <1>3, RunUpdates DEF SenderCloses, TypeOK
  <2>. QED
    BY <1>3, <2>1 DEF SenderCloses, TypeOK, pageVars, socketVars
<1>4. CASE PageCloses
  BY <1>4 DEF PageCloses, TypeOK, senderVars, socketVars
<1>5. ASSUME NEW c \in Sockets, PresenceEnds(c) PROVE TypeOK'
  BY <1>5 DEF PresenceEnds, TypeOK, pageVars, senderVars
<1>6. CASE RedisLoss
  BY <1>6 DEF RedisLoss, TypeOK, pageVars, senderVars
<1>7. CASE PageLearns
  <2>1. replay' \in Collection
    BY <1>7 DEF PageLearns, TypeOK, Collection
  <2>2. IsFiniteSet(shown) /\ Cardinality(shown') <= Cardinality(shown)
    BY <1>7, FS_Subset DEF PageLearns, TypeOK
  <2>3. Cardinality(shown') \in Nat /\ Cardinality(shown) \in Nat
    BY <1>7, <2>2, FS_Subset, FS_CardinalityType DEF PageLearns, TypeOK
  <2>4. shown' \subseteq Messages /\ Cardinality(shown') <= Capacity
    BY <1>7, <2>2, <2>3 DEF PageLearns, TypeOK
  <2>. QED
    BY <1>7, <2>1, <2>4 DEF PageLearns, TypeOK, senderVars, socketVars
<1>8. ASSUME NEW r \in Replays, RelayExpires(r) PROVE TypeOK'
  BY <1>8 DEF RelayExpires, TypeOK, pageVars, senderVars, socketVars
<1>9. ASSUME NEW r \in Replays, NEW list \in Copies[r], Start(r, list) PROVE TypeOK'
  <2>1. [kind |-> "begin", id |-> r, number |-> 0] \in Frame
    BY DEF Frame
  <2>2. frames' \in [Senders -> Seq(Frame)]
    BY <1>9, <2>1, TransmitIsTyped DEF Start
  <2>3. copy' \in [Replays -> Seq(Messages)]
    BY <1>9 DEF Start, TypeOK
  <2>4. run' \in [Replays -> Run]
    BY <1>9, RunUpdates DEF Start, TypeOK
  <2>. QED
    BY <1>9, <2>2, <2>3, <2>4 DEF Start, TypeOK, pageVars, socketVars
<1>10. ASSUME NEW r \in Replays, SendItem(r) PROVE TypeOK'
  <2>1. run[r].next \in Nat /\ copy[r] \in Seq(Messages) /\ run[r].next + 1 \in 1..Len(copy[r])
    BY <1>10 DEF SendItem, TypeOK, Run
  <2>2. copy[r][run[r].next + 1] \in Messages
    BY <2>1
  <2>3. [kind |-> "item", id |-> r, number |-> run[r].next,
         message |-> copy[r][run[r].next + 1]] \in Frame
    BY <2>1, <2>2 DEF Frame
  <2>4. frames' \in [Senders -> Seq(Frame)]
    BY <1>10, <2>3, TransmitIsTyped DEF SendItem
  <2>5. run' \in [Replays -> Run]
    BY <1>10, RunUpdates DEF SendItem, TypeOK
  <2>. QED
    BY <1>10, <2>4, <2>5 DEF SendItem, TypeOK, pageVars, socketVars
<1>11. ASSUME NEW r \in Replays, SendEnd(r) PROVE TypeOK'
  <2>1. copy[r] \in Seq(Messages) /\ Len(copy[r]) \in Nat
    BY DEF TypeOK
  <2>2. [kind |-> "end", id |-> r, number |-> Len(copy[r])] \in Frame
    BY <2>1 DEF Frame
  <2>3. frames' \in [Senders -> Seq(Frame)]
    BY <1>11, <2>2, TransmitIsTyped DEF SendEnd
  <2>4. run' \in [Replays -> Run]
    BY <1>11, RunUpdates DEF SendEnd, TypeOK
  <2>. QED
    BY <1>11, <2>3, <2>4 DEF SendEnd, TypeOK, pageVars, socketVars
<1>12. ASSUME NEW c \in Senders, Refuse(c) PROVE TypeOK'
  BY <1>12, TakeIsTyped DEF Refuse, TypeOK, pageVars, senderVars, socketVars
<1>13. ASSUME NEW c \in Senders, NEW d \in Receivers, Begin(c, d) PROVE TypeOK'
  <2>1. Head(frames[c]) \in Frame /\ frames' \in [Senders -> Seq(Frame)]
    BY <1>13, TakeIsTyped DEF Begin
  <2>2. queue' \in Seq(Frame)
    BY <1>13, <2>1, PublishIsTyped DEF Begin
  <2>3. [NoRelay EXCEPT !.by = c, !.target = d] \in Relay
    BY DEF Relay
  <2>4. relay' \in [Replays -> Relay]
    BY <1>13, <2>3 DEF Begin, TypeOK
  <2>. QED
    BY <1>13, <2>1, <2>2, <2>4 DEF Begin, TypeOK, pageVars, senderVars, socketVars
<1>14. ASSUME NEW c \in Senders, Forget(c) PROVE TypeOK'
  <2>1. Head(frames[c]) \in Frame /\ frames' \in [Senders -> Seq(Frame)]
    BY <1>14, TakeIsTyped DEF Forget
  <2>. QED
    BY <1>14, <2>1 DEF Forget, TypeOK, pageVars, senderVars, socketVars
<1>15. ASSUME NEW c \in Senders, Item(c) PROVE TypeOK'
  <2>1. Head(frames[c]) \in Frame /\ frames' \in [Senders -> Seq(Frame)]
    BY <1>15, TakeIsTyped DEF Item
  <2>2. queue' \in Seq(Frame)
    BY <1>15, <2>1, PublishIsTyped DEF Item
  <2>3. Head(frames[c]).id \in Replays
    BY <2>1, FrameIsTyped
  <2>4. relay' \in [Replays -> Relay]
    BY <1>15, <2>3, RelayUpdates DEF Item, TypeOK
  <2>. QED
    BY <1>15, <2>1, <2>2, <2>4 DEF Item, TypeOK, pageVars, senderVars, socketVars
<1>16. ASSUME NEW c \in Senders, End(c) PROVE TypeOK'
  <2>1. Head(frames[c]) \in Frame /\ frames' \in [Senders -> Seq(Frame)]
    BY <1>16, TakeIsTyped DEF End
  <2>2. queue' \in Seq(Frame)
    BY <1>16, <2>1, PublishIsTyped DEF End
  <2>3. Head(frames[c]).id \in Replays
    BY <2>1, FrameIsTyped
  <2>4. relay' \in [Replays -> Relay]
    BY <1>16, <2>3, RelayUpdates DEF End, TypeOK
  <2>. QED
    BY <1>16, <2>1, <2>2, <2>4 DEF End, TypeOK, pageVars, senderVars, socketVars
<1>17. ASSUME PageTakes PROVE Head(queue) \in Frame /\ queue' \in Seq(Frame)
  BY <1>17, TailIsTyped DEF PageTakes, TypeOK
<1>18. CASE PageBegins
  <2>1. NewReplay(Head(queue).id)
          \in Collection
    BY <1>17, <1>18, FrameIsTyped DEF PageBegins, NewReplay, Collection
  <2>. QED
    BY <1>17, <1>18, <2>1 DEF PageBegins, PageTakes, TypeOK, senderVars, socketVars
<1>19. CASE PageIgnores
  BY <1>17, <1>19 DEF PageIgnores, PageTakes, TypeOK, senderVars, socketVars
<1>20. CASE PageCollects
  <2>1. Head(queue) \in Frame /\ Head(queue).kind = "item"
    BY <1>17, <1>20 DEF PageCollects
  <2>2. Head(queue).message \in Messages
    BY <2>1, FrameIsTyped
  <2>3. replay' \in Collection
    <3>1. replay.next + 1 \in 0..Capacity /\ replay \in Collection
      BY <1>20 DEF PageCollects, Fits, TypeOK, Collection
    <3>2. replay.messages \cup {Head(queue).message} \in SUBSET Messages
      BY <2>2, <3>1 DEF Collection
    <3>. QED
      BY <1>20, <3>1, <3>2 DEF PageCollects, Collection
  <2>. QED
    BY <1>17, <1>20, <2>3 DEF PageCollects, PageTakes, TypeOK, senderVars, socketVars
<1>21. CASE PageShows
  <2>1. shown \cup Admitted(replay.messages) \in SUBSET Messages
    BY DEF Admitted, TypeOK, Collection
  <2>2. shown' \subseteq Messages /\ Cardinality(shown') <= Capacity
    BY <1>21, <2>1, TrimIsCapped DEF PageShows
  <2>. QED
    BY <1>17, <1>21, <2>2 DEF PageShows, PageTakes, TypeOK, senderVars, socketVars
<1>22. CASE PageRefuses
  BY <1>17, <1>22 DEF PageRefuses, PageTakes, TypeOK, senderVars, socketVars
<1>23. CASE UNCHANGED vars
  BY <1>23 DEF vars, TypeOK, senderVars, socketVars, pageVars
<1>. QED
  BY <1>1, <1>2, <1>3, <1>4, <1>5, <1>6, <1>7, <1>8, <1>9, <1>10, <1>11, <1>12, <1>13, <1>14,
     <1>15, <1>16, <1>18, <1>19, <1>20, <1>21, <1>22, <1>23 DEF Next

-----------------------------------------------------------------------------
(***************************************************************************)
(* The frames of the queue.  A step keeps it, appends a frame that is      *)
(* published, or takes its head.                                           *)
(***************************************************************************)

Numbered == FirstIsExpected /\ FollowersFollow /\ LastIsCounted

LEMMA KeptQueue ==
  ASSUME Numbered, queue' = queue,
         replay'.id = replay.id, replay'.next = replay.next,
         \A r \in Replays : Published(r)' => Published(r) /\ relay'[r].next = relay[r].next
  PROVE  Numbered'
<1>1. FirstIsExpected'
  BY DEF Numbered, FirstIsExpected
<1>2. FollowersFollow'
  BY DEF Numbered, FollowersFollow, Consecutive, After
<1>3. LastIsCounted'
  BY DEF Numbered, LastIsCounted, After
<1>. QED
  BY <1>1, <1>2, <1>3 DEF Numbered

LEMMA AppendedQueue ==
  ASSUME Numbered, queue \in Seq(Frame), NEW f \in Frame, queue' = Append(queue, f),
         replay' = replay,
         f.kind # "begin" => Published(f.id) /\ f.number = relay[f.id].next,
         Published(f.id)' => relay'[f.id].next = After(f),
         \A r \in Replays : r # f.id /\ Published(r)' => Published(r) /\ relay'[r].next = relay[r].next
  PROVE  Numbered'
<1> DEFINE n == Len(queue)
<1>1. /\ n \in Nat /\ Len(queue') = n + 1 /\ queue'[n + 1] = f
      /\ \A i \in 1..n : queue'[i] = queue[i]
  BY AppendIsTyped
<1>2. f.id \in Replays
  BY FrameIsTyped
<1> HIDE DEF n
<1>3. FirstIsExpected'
  <2> SUFFICES ASSUME NEW j \in 1..(n + 1), queue'[j].kind # "begin", queue'[j].id = replay.id,
                      \A k \in 1..(n + 1) : k < j => queue'[k].id # replay.id
               PROVE queue'[j].number = replay.next
    BY <1>1 DEF FirstIsExpected
  <2>1. CASE j = n + 1
    <3>1. Published(f.id) /\ f.number = relay[f.id].next /\ replay.id = f.id
      BY <1>1, <2>1
    <3>2. \A k \in 1..n : queue[k].id # f.id
      BY <1>1, <2>1, <3>1
    <3>3. replay.next = relay[f.id].next
      BY <1>2, <3>1, <3>2 DEF Numbered, LastIsCounted, n
    <3>. QED
      BY <1>1, <2>1, <3>1, <3>3
  <2>2. CASE j # n + 1
    <3>1. j \in 1..n /\ queue'[j] = queue[j] /\ \A k \in 1..n : k < j => queue[k].id # replay.id
      BY <1>1, <2>2
    <3>. QED
      BY <3>1 DEF Numbered, FirstIsExpected, n
  <2>. QED
    BY <2>1, <2>2
<1>4. FollowersFollow'
  <2> SUFFICES ASSUME NEW i \in 1..(n + 1), NEW j \in 1..(n + 1), Consecutive(i, j)',
                      queue'[j].kind # "begin"
               PROVE queue'[j].number = After(queue'[i])
    BY <1>1 DEF FollowersFollow, After
  <2>1. /\ i < j /\ queue'[i].id = queue'[j].id
        /\ \A k \in 1..(n + 1) : i < k /\ k < j => queue'[k].id # queue'[j].id
    BY <1>1 DEF Consecutive
  <2>2. i \in 1..n /\ queue'[i] = queue[i]
    BY <1>1, <2>1
  <2>3. CASE j = n + 1
    <3>1. Published(f.id) /\ f.number = relay[f.id].next /\ queue[i].id = f.id
      BY <1>1, <2>1, <2>2, <2>3
    <3>2. \A k \in 1..n : i < k => queue[k].id # f.id
      BY <1>1, <2>1, <2>3
    <3>3. After(queue[i]) = relay[f.id].next
      BY <1>2, <2>2, <3>1, <3>2 DEF Numbered, LastIsCounted, n
    <3>. QED
      BY <1>1, <2>2, <2>3, <3>1, <3>3
  <2>4. CASE j # n + 1
    <3>1. j \in 1..n /\ queue'[j] = queue[j]
      BY <1>1, <2>4
    <3>2. \A k \in 1..n : i < k /\ k < j => queue[k].id # queue[j].id
      BY <1>1, <2>1, <3>1
    <3>3. Consecutive(i, j)
      BY <2>1, <2>2, <3>1, <3>2 DEF Consecutive, n
    <3>. QED
      BY <2>2, <3>1, <3>3 DEF Numbered, FollowersFollow, n
  <2>. QED
    BY <2>3, <2>4
<1>5. LastIsCounted'
  <2> SUFFICES ASSUME NEW r \in Replays, Published(r)'
               PROVE /\ \A i \in 1..(n + 1) :
                          queue'[i].id = r /\ (\A k \in 1..(n + 1) : i < k => queue'[k].id # r)
                            => After(queue'[i]) = relay'[r].next
                     /\ replay.id = r /\ (\A k \in 1..(n + 1) : queue'[k].id # r)
                          => replay.next = relay'[r].next
    BY <1>1 DEF LastIsCounted, After
  <2>1. CASE r = f.id
    <3>1. ASSUME NEW i \in 1..(n + 1), \A k \in 1..(n + 1) : i < k => queue'[k].id # r
          PROVE i = n + 1
      BY <1>1, <2>1, <3>1
    <3>2. n + 1 \in 1..(n + 1) /\ queue'[n + 1].id = r
      BY <1>1, <2>1
    <3>. QED
      BY <1>1, <2>1, <3>1, <3>2
  <2>2. CASE r # f.id
    <3>1. Published(r) /\ relay'[r].next = relay[r].next
      BY <2>2
    <3>2. \A i \in 1..(n + 1) : queue'[i].id = r => i \in 1..n /\ queue'[i] = queue[i]
      BY <1>1, <2>2
    <3>3. \A k \in 1..n : k \in 1..(n + 1) /\ queue'[k] = queue[k]
      BY <1>1
    <3>4. /\ \A i \in 1..n : queue[i].id = r /\ (\A k \in 1..n : i < k => queue[k].id # r)
                            => After(queue[i]) = relay[r].next
          /\ replay.id = r /\ (\A k \in 1..n : queue[k].id # r) => replay.next = relay[r].next
      BY <3>1 DEF Numbered, LastIsCounted, n
    <3>. QED
      BY <3>1, <3>2, <3>3, <3>4
  <2>. QED
    BY <2>1, <2>2
<1>. QED
  BY <1>3, <1>4, <1>5 DEF Numbered

LEMMA TakenQueue ==
  ASSUME Numbered, queue \in Seq(Frame), queue # <<>>, queue' = Tail(queue),
         UNCHANGED <<relay, page, up>>,
         replay'.id = Head(queue).id => replay'.next = After(Head(queue)),
         replay'.id # Head(queue).id =>
           \/ replay'.id = replay.id /\ replay'.next = replay.next
           \/ replay'.id = Nobody
  PROVE  Numbered'
<1> DEFINE n == Len(Tail(queue))
           f == Head(queue)
<1>1. /\ n \in Nat /\ Len(queue) = n + 1 /\ Len(queue') = n /\ queue[1] = f
      /\ \A i \in 1..n : queue'[i] = queue[i + 1] /\ i + 1 \in 1..Len(queue)
      /\ \A i \in 1..Len(queue) : queue[i] \in Frame
  BY TailIsTyped
<1> HIDE DEF n, f
<1>2. ASSUME NEW i \in 1..Len(queue)
      PROVE i = 1 \/ (i - 1 \in 1..n /\ queue[i] = queue'[i - 1])
  <2>1. CASE i # 1
    <3>1. i - 1 \in 1..n /\ (i - 1) + 1 = i
      BY <1>1, <2>1
    <3>2. queue'[i - 1] = queue[(i - 1) + 1]
      BY <1>1, <3>1
    <3>. QED
      BY <3>1, <3>2
  <2>. QED
    BY <2>1
<1>3. \A r : Published(r)' <=> Published(r)
  BY DEF Published
<1>4. FirstIsExpected'
  <2> SUFFICES ASSUME NEW j \in 1..n, queue'[j].kind # "begin", queue'[j].id = replay'.id,
                      \A k \in 1..n : k < j => queue'[k].id # replay'.id
               PROVE queue'[j].number = replay'.next
    BY <1>1 DEF FirstIsExpected
  <2>1. j + 1 \in 1..Len(queue) /\ queue'[j] = queue[j + 1] /\ 1 \in 1..Len(queue)
    BY <1>1
  <2>2. \A k \in 1..Len(queue) : 1 < k /\ k < j + 1 => queue[k].id # replay'.id
    <3> SUFFICES ASSUME NEW k \in 1..Len(queue), 1 < k, k < j + 1 PROVE queue[k].id # replay'.id
      OBVIOUS
    <3>1. k - 1 \in 1..n /\ k - 1 < j /\ queue[k] = queue'[k - 1]
      BY <1>1, <1>2
    <3>. QED
      BY <3>1
  <2>3. CASE replay'.id = f.id
    <3>1. Consecutive(1, j + 1)
      BY <1>1, <2>1, <2>2, <2>3 DEF Consecutive
    <3>2. queue[j + 1].number = After(queue[1])
      BY <2>1, <3>1 DEF Numbered, FollowersFollow
    <3>. QED
      BY <1>1, <2>1, <2>3, <3>2 DEF f
  <2>4. CASE replay'.id # f.id
    <3>1. queue'[j].id \in Replays /\ Nobody \notin Replays
      BY <1>1, <2>1, FrameIsTyped, ReplayConstants
    <3>2. replay'.id = replay.id /\ replay'.next = replay.next
      BY <2>4, <3>1 DEF f
    <3>3. \A k \in 1..Len(queue) : k < j + 1 => queue[k].id # replay.id
      BY <1>1, <2>2, <2>4, <3>2
    <3>4. queue[j + 1].number = replay.next
      BY <2>1, <3>2, <3>3 DEF Numbered, FirstIsExpected
    <3>. QED
      BY <2>1, <3>2, <3>4
  <2>. QED
    BY <2>3, <2>4
<1>5. FollowersFollow'
  <2> SUFFICES ASSUME NEW i \in 1..n, NEW j \in 1..n, Consecutive(i, j)', queue'[j].kind # "begin"
               PROVE queue'[j].number = After(queue'[i])
    BY <1>1 DEF FollowersFollow, After
  <2>1. /\ i < j /\ queue'[i].id = queue'[j].id
        /\ \A k \in 1..n : i < k /\ k < j => queue'[k].id # queue'[j].id
    BY <1>1 DEF Consecutive
  <2>2. /\ i + 1 \in 1..Len(queue) /\ j + 1 \in 1..Len(queue)
        /\ queue'[i] = queue[i + 1] /\ queue'[j] = queue[j + 1]
    BY <1>1
  <2>3. ASSUME NEW k \in 1..Len(queue), i + 1 < k, k < j + 1 PROVE queue[k].id # queue[j + 1].id
    <3>1. k - 1 \in 1..n /\ i < k - 1 /\ k - 1 < j /\ queue[k] = queue'[k - 1]
      BY <1>1, <1>2, <2>3
    <3>. QED
      BY <2>1, <2>2, <3>1
  <2>4. Consecutive(i + 1, j + 1)
    BY <2>1, <2>2, <2>3 DEF Consecutive
  <2>. QED
    BY <2>2, <2>4 DEF Numbered, FollowersFollow
<1>6. LastIsCounted'
  <2> SUFFICES ASSUME NEW r \in Replays, Published(r)
               PROVE /\ \A i \in 1..n :
                          queue'[i].id = r /\ (\A k \in 1..n : i < k => queue'[k].id # r)
                            => After(queue'[i]) = relay[r].next
                     /\ replay'.id = r /\ (\A k \in 1..n : queue'[k].id # r)
                          => replay'.next = relay[r].next
    BY <1>1, <1>3 DEF LastIsCounted, After
  <2>1. /\ \A i \in 1..Len(queue) :
             queue[i].id = r /\ (\A k \in 1..Len(queue) : i < k => queue[k].id # r)
               => After(queue[i]) = relay[r].next
        /\ replay.id = r /\ (\A k \in 1..Len(queue) : queue[k].id # r) => replay.next = relay[r].next
    BY DEF Numbered, LastIsCounted
  <2>2. ASSUME NEW i \in 1..n, queue'[i].id = r, \A k \in 1..n : i < k => queue'[k].id # r
        PROVE After(queue'[i]) = relay[r].next
    <3>1. i + 1 \in 1..Len(queue) /\ queue'[i] = queue[i + 1]
      BY <1>1
    <3>2. ASSUME NEW k \in 1..Len(queue), i + 1 < k PROVE queue[k].id # r
      <4>1. k - 1 \in 1..n /\ i < k - 1 /\ queue[k] = queue'[k - 1]
        BY <1>1, <1>2, <3>2
      <4>. QED
        BY <2>2, <4>1
    <3>. QED
      BY <2>1, <2>2, <3>1, <3>2
  <2>3. ASSUME replay'.id = r, \A k \in 1..n : queue'[k].id # r PROVE replay'.next = relay[r].next
    <3>1. ASSUME NEW k \in 1..Len(queue), 1 < k PROVE queue[k].id # r
      <4>1. k - 1 \in 1..n /\ queue[k] = queue'[k - 1]
        BY <1>1, <1>2, <3>1
      <4>. QED
        BY <2>3, <4>1
    <3>2. 1 \in 1..Len(queue)
      BY <1>1
    <3>3. CASE f.id = r
      BY <1>1, <2>1, <2>3, <3>1, <3>2, <3>3 DEF f
    <3>4. CASE f.id # r
      <4>1. replay'.id = replay.id /\ replay'.next = replay.next
        BY <2>3, <3>4, ReplayConstants DEF f
      <4>2. \A k \in 1..Len(queue) : queue[k].id # r
        BY <1>1, <3>1, <3>4
      <4>. QED
        BY <2>1, <2>3, <4>1, <4>2
    <3>. QED
      BY <3>3, <3>4
  <2>. QED
    BY <2>2, <2>3
<1>. QED
  BY <1>4, <1>5, <1>6 DEF Numbered

(* Begin, Item and End: the frame is appended, or the target is not listening. *)
LEMMA PublishingStep ==
  ASSUME TypeOK, Numbered, NEW f \in Frame, NEW d \in Receivers,
         UNCHANGED <<page, up, replay>>, Publish(d, f),
         relay'[f.id].target = d,
         f.kind # "begin" => /\ relay[f.id] # NoRelay /\ relay[f.id].target = d
                             /\ ~relay[f.id].finished /\ f.number = relay[f.id].next,
         ~relay'[f.id].finished => relay'[f.id].next = After(f),
         \A r \in Replays : r # f.id => relay'[r] = relay[r]
  PROVE  Numbered'
<1>0. f.id \in Replays
  BY FrameIsTyped
<1>1. \A r \in Replays : r # f.id /\ Published(r)' => Published(r) /\ relay'[r].next = relay[r].next
  BY DEF Published
<1>2. CASE d = page /\ up
  <2>1. queue' = Append(queue, f) /\ queue \in Seq(Frame)
    BY <1>2 DEF Publish, TypeOK
  <2>2. f.kind # "begin" => Published(f.id) /\ f.number = relay[f.id].next
    BY <1>2 DEF Published
  <2>3. Published(f.id)' => relay'[f.id].next = After(f)
    BY DEF Published
  <2>. QED
    BY <1>1, <2>1, <2>2, <2>3, AppendedQueue
<1>3. CASE ~(d = page /\ up)
  <2>1. queue' = queue /\ ~Published(f.id)'
    BY <1>3 DEF Publish, Published
  <2>2. \A r \in Replays : Published(r)' => Published(r) /\ relay'[r].next = relay[r].next
    BY <1>1, <2>1
  <2>. QED
    BY <2>1, <2>2, KeptQueue
<1>. QED
  BY <1>2, <1>3

LEMMA NumberedStep == TypeOK /\ Numbered /\ TargetsWereOpened /\ [Next]_vars => Numbered'
<1> SUFFICES ASSUME TypeOK, Numbered, TargetsWereOpened, [Next]_vars PROVE Numbered'
  OBVIOUS
<1>0. queue \in Seq(Frame) /\ relay \in [Replays -> Relay]
  BY DEF TypeOK
<1>a. ASSUME UNCHANGED <<queue, replay, page, up>>, \A r \in Replays : relay'[r] \in {relay[r], NoRelay}
      PROVE Numbered'
  <2>1. \A r \in Replays : Published(r)' => Published(r) /\ relay'[r].next = relay[r].next
    BY <1>a DEF Published
  <2>. QED
    BY <1>a, <2>1, KeptQueue
<1>1. ASSUME NEW c \in Senders, SenderConnects(c) PROVE Numbered'
  BY <1>1, <1>a DEF SenderConnects, pageVars
<1>2. ASSUME NEW d \in Receivers, PageConnects(d) PROVE Numbered'
  <2>1. queue' = <<>> /\ page' = d /\ d \notin used /\ relay' = relay
    BY <1>2 DEF PageConnects, Connect
  <2>2. \A r \in Replays : ~Published(r)'
    BY <2>1 DEF Published, TargetsWereOpened
  <2>3. Len(queue') = 0
    BY <2>1
  <2>. QED
    BY <2>2, <2>3 DEF Numbered, FirstIsExpected, FollowersFollow, LastIsCounted
<1>3. CASE SenderCloses
  BY <1>3, <1>a DEF SenderCloses, pageVars
<1>4. CASE PageCloses
  <2>1. queue' = queue /\ up' = FALSE /\ replay'.id = Nobody
    BY <1>4 DEF PageCloses, NoReplay
  <2>2. \A j \in 1..Len(queue) : queue[j].id # Nobody
    BY <1>0, FrameIsTyped, ReplayConstants
  <2>3. FirstIsExpected'
    BY <2>1, <2>2 DEF FirstIsExpected
  <2>4. FollowersFollow'
    BY <2>1 DEF Numbered, FollowersFollow, Consecutive, After
  <2>5. LastIsCounted'
    BY <2>1 DEF LastIsCounted, Published
  <2>. QED
    BY <2>3, <2>4, <2>5 DEF Numbered
<1>5. ASSUME NEW c \in Sockets, PresenceEnds(c) PROVE Numbered'
  BY <1>5, <1>a DEF PresenceEnds, pageVars
<1>6. CASE RedisLoss
  BY <1>6, <1>a DEF RedisLoss, pageVars
<1>7. CASE PageLearns
  <2>1. /\ queue' = queue /\ relay' = relay /\ page' = page /\ up' = up
        /\ replay'.id = replay.id /\ replay'.next = replay.next
    BY <1>7 DEF PageLearns, TypeOK, Collection
  <2>2. \A r \in Replays : Published(r)' => Published(r) /\ relay'[r].next = relay[r].next
    BY <2>1 DEF Published
  <2>. QED
    BY <2>1, <2>2, KeptQueue
<1>8. ASSUME NEW r \in Replays, RelayExpires(r) PROVE Numbered'
  BY <1>0, <1>8, <1>a DEF RelayExpires, pageVars
<1>9. ASSUME NEW r \in Replays, SendItem(r) \/ SendEnd(r) \/ \E list \in Copies[r] : Start(r, list)
      PROVE Numbered'
  BY <1>9, <1>a DEF SendItem, SendEnd, Start, pageVars
<1>10. ASSUME NEW c \in Senders, Refuse(c) PROVE Numbered'
  BY <1>10, <1>a DEF Refuse, pageVars
<1>11. ASSUME NEW c \in Senders, Forget(c) PROVE Numbered'
  BY <1>0, <1>11, <1>a DEF Forget, pageVars
<1>12. ASSUME NEW c \in Senders, NEW d \in Receivers, Begin(c, d) PROVE Numbered'
  <2> DEFINE f == Head(frames[c])
  <2>1. f \in Frame /\ f.id \in Replays /\ f.kind = "begin"
    BY <1>12, TakeIsTyped, FrameIsTyped DEF Begin
  <2>2. /\ Publish(d, f) /\ UNCHANGED <<page, up, replay>>
        /\ relay' = [relay EXCEPT ![f.id] = [NoRelay EXCEPT !.by = c, !.target = d]]
    BY <1>12 DEF Begin, pageVars
  <2>3. [NoRelay EXCEPT !.by = c, !.target = d].target = d /\ [NoRelay EXCEPT !.by = c, !.target = d].next = 0
    BY DEF NoRelay
  <2> HIDE DEF f
  <2>4. relay'[f.id].target = d /\ relay'[f.id].next = After(f)
    BY <1>0, <2>1, <2>2, <2>3 DEF After
  <2>5. \A r \in Replays : r # f.id => relay'[r] = relay[r]
    BY <1>0, <2>2
  <2>. QED
    BY <2>1, <2>2, <2>4, <2>5, PublishingStep
<1>13. ASSUME NEW c \in Senders, Item(c) PROVE Numbered'
  <2> DEFINE f == Head(frames[c])
             d == relay[f.id].target
  <2>1. f \in Frame /\ f.id \in Replays /\ f.kind = "item" /\ f.number \in Nat
    BY <1>13, TakeIsTyped, FrameIsTyped DEF Item
  <2>2. /\ Publish(d, f) /\ UNCHANGED <<page, up, replay>>
        /\ relay' = [relay EXCEPT ![f.id].next = @ + 1]
        /\ Accepts(c, f) /\ Present(f.id)
    BY <1>13 DEF Item, pageVars
  <2>3. d \in Receivers
    <3>1. d \in live /\ d \in Receivers \cup {Nobody}
      BY <1>0, <2>1, <2>2 DEF Present, Relay
    <3>. QED
      BY <3>1, ReplayConstants DEF TypeOK, Sockets
  <2> HIDE DEF f
  <2>4. /\ relay[f.id] # NoRelay /\ ~relay[f.id].finished /\ f.number = relay[f.id].next
        /\ relay'[f.id].target = d /\ relay'[f.id].next = After(f)
    BY <1>0, <2>1, <2>2 DEF Accepts, InOrder, After, Relay
  <2>5. \A r \in Replays : r # f.id => relay'[r] = relay[r]
    BY <1>0, <2>2
  <2>. QED
    BY <2>1, <2>2, <2>3, <2>4, <2>5, PublishingStep
<1>14. ASSUME NEW c \in Senders, End(c) PROVE Numbered'
  <2> DEFINE f == Head(frames[c])
             d == relay[f.id].target
  <2>1. f \in Frame /\ f.id \in Replays /\ f.kind = "end" /\ f.number \in Nat
    BY <1>14, TakeIsTyped, FrameIsTyped DEF End
  <2>2. /\ Publish(d, f) /\ UNCHANGED <<page, up, replay>>
        /\ relay' = [relay EXCEPT ![f.id].finished = TRUE]
        /\ Accepts(c, f) /\ Present(f.id)
    BY <1>14 DEF End, pageVars
  <2>3. d \in Receivers
    <3>1. d \in live /\ d \in Receivers \cup {Nobody}
      BY <1>0, <2>1, <2>2 DEF Present, Relay
    <3>. QED
      BY <3>1, ReplayConstants DEF TypeOK, Sockets
  <2> HIDE DEF f
  <2>4. relay[f.id] # NoRelay /\ ~relay[f.id].finished /\ f.number = relay[f.id].next
    BY <1>0, <2>1, <2>2 DEF Accepts, InOrder
  <2>5. relay'[f.id].target = d /\ relay'[f.id].finished
    BY <1>0, <2>1, <2>2 DEF Relay
  <2>6. \A r \in Replays : r # f.id => relay'[r] = relay[r]
    BY <1>0, <2>2
  <2>. QED
    BY <2>1, <2>2, <2>3, <2>4, <2>5, <2>6, PublishingStep
<1>b. ASSUME PageTakes,
             replay'.id = Head(queue).id => replay'.next = After(Head(queue)),
             replay'.id # Head(queue).id =>
               \/ replay'.id = replay.id /\ replay'.next = replay.next
               \/ replay'.id = Nobody
      PROVE Numbered'
  <2>1. queue # <<>> /\ queue' = Tail(queue) /\ UNCHANGED <<relay, page, up>>
    BY <1>b DEF PageTakes
  <2>. QED
    BY <1>0, <1>b, <2>1, TakenQueue
<1>15. CASE PageBegins
  <2>1. PageTakes /\ replay'.id = Head(queue).id /\ replay'.next = After(Head(queue))
    BY <1>15 DEF PageBegins, NewReplay, After
  <2>. QED
    BY <1>b, <2>1
<1>16. CASE PageIgnores
  BY <1>16, <1>b DEF PageIgnores
<1>17. CASE PageCollects
  <2>1. /\ PageTakes /\ replay'.id = Head(queue).id /\ replay'.next = replay.next + 1
        /\ Head(queue).number = replay.next /\ Head(queue).kind = "item"
    BY <1>17 DEF PageCollects, TypeOK, Collection
  <2>. QED
    BY <1>b, <2>1 DEF After
<1>18. CASE PageShows \/ PageRefuses
  <2>1. PageTakes /\ replay'.id = Nobody
    BY <1>18 DEF PageShows, PageRefuses, NoReplay
  <2>2. Head(queue).id # Nobody
    BY <1>0, <2>1, TailIsTyped, FrameIsTyped, ReplayConstants DEF PageTakes
  <2>. QED
    BY <1>b, <2>1, <2>2
<1>19. CASE UNCHANGED vars
  BY <1>19, <1>a DEF vars, pageVars
<1>. QED
  BY <1>1, <1>2, <1>3, <1>4, <1>5, <1>6, <1>7, <1>8, <1>9, <1>10, <1>11, <1>12, <1>13, <1>14,
     <1>15, <1>16, <1>17, <1>18, <1>19 DEF Next

LEMMA TargetsStep == TypeOK /\ TargetsWereOpened /\ [Next]_vars => TargetsWereOpened'
<1> SUFFICES ASSUME TypeOK, TargetsWereOpened, [Next]_vars PROVE TargetsWereOpened'
  OBVIOUS
<1>0. relay \in [Replays -> Relay] /\ live \subseteq used
  BY DEF TypeOK
<1>a. ASSUME used \subseteq used',
             \A r \in Replays : relay'[r] # NoRelay =>
               \/ relay[r] # NoRelay /\ relay'[r].target = relay[r].target
               \/ relay'[r].target \in used
      PROVE TargetsWereOpened'
  BY <1>a DEF TargetsWereOpened
<1>1. ASSUME used \subseteq used', relay' = relay PROVE TargetsWereOpened'
  BY <1>1, <1>a
<1>2. ASSUME NEW c \in Senders, SenderConnects(c) PROVE TargetsWereOpened'
  BY <1>1, <1>2 DEF SenderConnects, Connect
<1>3. ASSUME NEW d \in Receivers, PageConnects(d) PROVE TargetsWereOpened'
  BY <1>1, <1>3 DEF PageConnects, Connect
<1>4. CASE SenderCloses \/ PageCloses \/ PageLearns
  BY <1>1, <1>4 DEF SenderCloses, PageCloses, PageLearns, socketVars
<1>5. ASSUME NEW c \in Sockets, PresenceEnds(c) PROVE TargetsWereOpened'
  BY <1>1, <1>5 DEF PresenceEnds
<1>6. CASE RedisLoss
  BY <1>a, <1>6 DEF RedisLoss
<1>7. ASSUME NEW r \in Replays, RelayExpires(r) PROVE TargetsWereOpened'
  BY <1>0, <1>a, <1>7 DEF RelayExpires, socketVars
<1>8. ASSUME NEW r \in Replays, SendItem(r) \/ SendEnd(r) \/ \E list \in Copies[r] : Start(r, list)
      PROVE TargetsWereOpened'
  BY <1>1, <1>8 DEF SendItem, SendEnd, Start, socketVars
<1>9. ASSUME NEW c \in Senders, Refuse(c) PROVE TargetsWereOpened'
  BY <1>1, <1>9 DEF Refuse, socketVars
<1>10. ASSUME NEW c \in Senders, Forget(c) PROVE TargetsWereOpened'
  BY <1>0, <1>a, <1>10 DEF Forget, socketVars
<1>11. ASSUME NEW c \in Senders, NEW d \in Receivers, Begin(c, d) PROVE TargetsWereOpened'
  <2>1. [NoRelay EXCEPT !.by = c, !.target = d].target = d /\ d \in used
    BY <1>0, <1>11 DEF Begin, NoRelay
  <2>2. used' = used /\ \E r \in Replays :
          relay' = [relay EXCEPT ![r] = [NoRelay EXCEPT !.by = c, !.target = d]]
    BY <1>11, TakeIsTyped, FrameIsTyped DEF Begin, socketVars
  <2>3. ASSUME NEW r \in Replays PROVE relay'[r] = relay[r] \/ relay'[r].target = d
    BY <1>0, <2>1, <2>2
  <2>. QED
    BY <1>a, <2>1, <2>2, <2>3
<1>12. ASSUME NEW c \in Senders, Item(c) \/ End(c) PROVE TargetsWereOpened'
  <2>1. used' = used /\ Head(frames[c]).id \in Replays /\ relay[Head(frames[c]).id] # NoRelay
    BY <1>12, TakeIsTyped, FrameIsTyped DEF Item, End, Accepts, socketVars
  <2>2. \A r \in Replays : relay'[r].target = relay[r].target
    BY <1>0, <1>12, <2>1 DEF Item, End, Relay
  <2>3. \A r \in Replays : r # Head(frames[c]).id => relay'[r] = relay[r]
    BY <1>0, <1>12 DEF Item, End
  <2>. QED
    BY <1>a, <2>1, <2>2, <2>3
<1>13. CASE PageBegins \/ PageIgnores \/ PageCollects \/ PageShows \/ PageRefuses
  BY <1>1, <1>13 DEF PageBegins, PageIgnores, PageCollects, PageShows, PageRefuses, PageTakes, socketVars
<1>14. CASE UNCHANGED vars
  BY <1>1, <1>14 DEF vars, socketVars
<1>. QED
  BY <1>2, <1>3, <1>4, <1>5, <1>6, <1>7, <1>8, <1>9, <1>10, <1>11, <1>12, <1>13, <1>14 DEF Next

-----------------------------------------------------------------------------
(***************************************************************************)
(* The lists.  A loop that has started keeps its list and never becomes    *)
(* idle again, so that a frame stays faithful.                             *)
(***************************************************************************)

StartedStays ==
  \A r \in Replays : run[r].state # "idle" => run'[r].state # "idle" /\ copy'[r] = copy[r]

LEMMA ListsStay == TypeOK /\ [Next]_vars => StartedStays
<1> SUFFICES ASSUME TypeOK, [Next]_vars PROVE StartedStays
  OBVIOUS
<1>0. run \in [Replays -> Run] /\ copy \in [Replays -> Seq(Messages)]
  BY DEF TypeOK
<1>1. ASSUME UNCHANGED <<run, copy>> PROVE StartedStays
  BY <1>1 DEF StartedStays
<1>2. CASE SenderCloses
  BY <1>0, <1>2 DEF SenderCloses, StartedStays, Run
<1>3. ASSUME NEW r \in Replays, NEW list, Start(r, list) PROVE StartedStays
  BY <1>0, <1>3 DEF Start, StartedStays, Run
<1>4. ASSUME NEW r \in Replays, SendItem(r) PROVE StartedStays
  BY <1>0, <1>4 DEF SendItem, StartedStays, Run
<1>5. ASSUME NEW r \in Replays, SendEnd(r) PROVE StartedStays
  BY <1>0, <1>5 DEF SendEnd, StartedStays, Run
<1>6. ASSUME UNCHANGED senderVars PROVE StartedStays
  BY <1>1, <1>6 DEF senderVars
<1>7. CASE PageCloses \/ RedisLoss \/ PageLearns
  BY <1>6, <1>7 DEF PageCloses, RedisLoss, PageLearns
<1>8. ASSUME NEW c, SenderConnects(c) \/ PageConnects(c) \/ PresenceEnds(c) PROVE StartedStays
  BY <1>1, <1>6, <1>8 DEF SenderConnects, PageConnects, PresenceEnds
<1>9. ASSUME NEW c, Refuse(c) \/ Forget(c) \/ Item(c) \/ End(c) \/ RelayExpires(c) PROVE StartedStays
  BY <1>6, <1>9 DEF Refuse, Forget, Item, End, RelayExpires
<1>10. ASSUME NEW c, NEW d, Begin(c, d) PROVE StartedStays
  BY <1>6, <1>10 DEF Begin
<1>11. CASE PageTakes
  BY <1>6, <1>11 DEF PageTakes
<1>12. CASE UNCHANGED vars
  BY <1>6, <1>12 DEF vars
<1>. QED
  BY <1>2, <1>3, <1>4, <1>5, <1>7, <1>8, <1>9, <1>10, <1>11, <1>12
     DEF Next, PageBegins, PageIgnores, PageCollects, PageShows, PageRefuses

LEMMA FaithfulStays ==
  ASSUME StartedStays, NEW f \in Frame, Faithful(f)
  PROVE  Faithful(f)'
BY FrameIsTyped DEF StartedStays, Faithful

(* A step appends faithful frames, or takes from the head. *)
LEMMA FramesStep == TypeOK /\ FramesAreFaithful /\ [Next]_vars => FramesAreFaithful'
<1> SUFFICES ASSUME TypeOK, FramesAreFaithful, [Next]_vars PROVE FramesAreFaithful'
  OBVIOUS
<1>0. StartedStays /\ frames \in [Senders -> Seq(Frame)] /\ queue \in Seq(Frame)
  BY ListsStay DEF TypeOK
<1> DEFINE Carried == \A c \in Senders : \A i \in 1..Len(frames[c]) : Faithful(frames[c][i])
           Queued  == \A i \in 1..Len(queue) : Faithful(queue[i])
<1>a. ASSUME frames' = frames PROVE Carried'
  <2> SUFFICES ASSUME NEW c \in Senders, NEW i \in 1..Len(frames[c]) PROVE Faithful(frames[c][i])'
    BY <1>a
  <2>1. frames[c][i] \in Frame /\ frames'[c][i] = frames[c][i] /\ Faithful(frames[c][i])
    BY <1>0, <1>a DEF FramesAreFaithful
  <2>. QED
    BY <1>0, <2>1, FrameIsTyped DEF StartedStays, Faithful
<1>b. ASSUME queue' = queue PROVE Queued'
  <2> SUFFICES ASSUME NEW i \in 1..Len(queue) PROVE Faithful(queue[i])'
    BY <1>b
  <2>1. queue[i] \in Frame /\ queue'[i] = queue[i] /\ Faithful(queue[i])
    BY <1>0, <1>b DEF FramesAreFaithful
  <2>. QED
    BY <1>0, <2>1, FrameIsTyped DEF StartedStays, Faithful
<1>c. ASSUME NEW c \in Senders, Take(c) PROVE Carried' /\ Head(frames[c]) \in Frame /\ Faithful(Head(frames[c]))
  <2>1. frames[c] \in Seq(Frame) /\ frames[c] # <<>> /\ 1 \in 1..Len(frames[c])
    BY <1>0, <1>c DEF Take
  <2>2. Head(frames[c]) \in Frame /\ Faithful(Head(frames[c]))
    BY <2>1, TailIsTyped DEF FramesAreFaithful
  <2>3. ASSUME NEW e \in Senders, NEW i \in 1..Len(frames'[e]) PROVE Faithful(frames[e][i])'
    <3>1. \E j \in 1..Len(frames[e]) : frames'[e][i] = frames[e][j]
      <4>1. CASE e = c
        BY <1>0, <1>c, <2>1, <2>3, <4>1, TailIsTyped DEF Take
      <4>2. CASE e # c
        BY <1>0, <1>c, <2>3, <4>2 DEF Take
      <4>. QED
        BY <4>1, <4>2
    <3>2. PICK j \in 1..Len(frames[e]) : frames'[e][i] = frames[e][j]
      BY <3>1
    <3>3. frames[e][j] \in Frame /\ Faithful(frames[e][j])
      BY <1>0 DEF FramesAreFaithful
    <3>. QED
      BY <1>0, <3>2, <3>3, FrameIsTyped DEF StartedStays, Faithful
  <2>. QED
    BY <2>2, <2>3
<1>d. ASSUME NEW f \in Frame, Transmit(f), sender \in Senders,
             run'[f.id].state # "idle",
             f.kind = "item" => f.number < Len(copy'[f.id]) /\ f.message = copy'[f.id][f.number + 1],
             f.kind = "end" => f.number = Len(copy'[f.id])
      PROVE Carried'
  <2> SUFFICES ASSUME NEW e \in Senders, NEW i \in 1..Len(frames'[e]) PROVE Faithful(frames[e][i])'
    OBVIOUS
  <2>1. frames'[e][i] = f \/ \E j \in 1..Len(frames[e]) : frames'[e][i] = frames[e][j]
    <3>1. CASE e = sender
      <4>1. frames'[e] = Append(frames[e], f) /\ frames[e] \in Seq(Frame)
        BY <1>0, <1>d, <3>1 DEF Transmit
      <4>. QED
        BY <4>1, AppendIsTyped
    <3>2. CASE e # sender
      BY <1>0, <1>d, <3>2 DEF Transmit
    <3>. QED
      BY <3>1, <3>2
  <2>2. CASE frames'[e][i] = f
    BY <1>d, <2>2 DEF Faithful
  <2>3. ASSUME NEW j \in 1..Len(frames[e]), frames'[e][i] = frames[e][j] PROVE Faithful(frames[e][i])'
    <3>1. frames[e][j] \in Frame /\ Faithful(frames[e][j])
      BY <1>0 DEF FramesAreFaithful
    <3>. QED
      BY <1>0, <2>3, <3>1, FrameIsTyped DEF StartedStays, Faithful
  <2>. QED
    BY <2>1, <2>2, <2>3
<1>e. ASSUME NEW d, NEW f \in Frame, Faithful(f), Publish(d, f) PROVE Queued'
  <2>1. CASE queue' = queue
    BY <1>b, <2>1
  <2>2. CASE queue' = Append(queue, f)
    <3> SUFFICES ASSUME NEW i \in 1..Len(queue') PROVE Faithful(queue[i])'
      OBVIOUS
    <3>1. queue'[i] \in Frame /\ (queue'[i] = f \/ \E j \in 1..Len(queue) : queue'[i] = queue[j])
      BY <1>0, <2>2, AppendIsTyped
    <3>2. ASSUME NEW g \in Frame, Faithful(g), queue'[i] = g PROVE Faithful(queue[i])'
      BY <1>0, <3>2, FrameIsTyped DEF StartedStays, Faithful
    <3>. QED
      BY <1>e, <3>1, <3>2 DEF FramesAreFaithful
  <2>. QED
    BY <1>e, <2>1, <2>2 DEF Publish
<1>f. Carried' /\ Queued' => FramesAreFaithful'
  BY DEF FramesAreFaithful
<1>g. ASSUME PageTakes PROVE Carried' /\ Queued'
  <2>1. Carried'
    BY <1>a, <1>g DEF PageTakes
  <2>2. ASSUME NEW i \in 1..Len(queue') PROVE Faithful(queue[i])'
    <3>1. i + 1 \in 1..Len(queue) /\ queue'[i] = queue[i + 1]
      BY <1>0, <1>g, <2>2, TailIsTyped DEF PageTakes
    <3>2. queue[i + 1] \in Frame /\ Faithful(queue[i + 1])
      BY <1>0, <3>1 DEF FramesAreFaithful
    <3>. QED
      BY <1>0, <3>1, <3>2, FrameIsTyped DEF StartedStays, Faithful
  <2>. QED
    BY <2>1, <2>2
<1> HIDE DEF Carried, Queued
<1>1. ASSUME NEW c \in Senders, SenderConnects(c) PROVE FramesAreFaithful'
  BY <1>1, <1>a, <1>b, <1>f DEF SenderConnects
<1>2. ASSUME NEW d \in Receivers, PageConnects(d) PROVE FramesAreFaithful'
  <2>1. Carried' /\ queue' = <<>>
    BY <1>2, <1>a DEF PageConnects
  <2>2. Queued'
    BY <2>1 DEF Queued
  <2>. QED
    BY <2>1, <2>2, <1>f
<1>3. CASE SenderCloses \/ PageCloses \/ PageLearns \/ RedisLoss
  BY <1>3, <1>a, <1>b, <1>f DEF SenderCloses, PageCloses, PageLearns, RedisLoss
<1>4. ASSUME NEW c, PresenceEnds(c) \/ RelayExpires(c) PROVE FramesAreFaithful'
  BY <1>4, <1>a, <1>b, <1>f DEF PresenceEnds, RelayExpires
<1>h. /\ run \in [Replays -> Run] /\ copy \in [Replays -> Seq(Messages)]
      /\ sender # Nobody => sender \in Senders
  BY DEF TypeOK
<1>5. ASSUME NEW r \in Replays, NEW list \in Copies[r], Start(r, list) PROVE FramesAreFaithful'
  <2> DEFINE f == [kind |-> "begin", id |-> r, number |-> 0]
  <2>1. f \in Frame /\ Transmit(f) /\ sender \in Senders /\ queue' = queue
    BY <1>5, <1>h DEF Start, Frame
  <2>2. run'[r].state # "idle"
    BY <1>5, <1>h DEF Start, Run
  <2>3. f.id = r /\ f.kind = "begin"
    OBVIOUS
  <2> HIDE DEF f
  <2>. QED
    BY <2>1, <2>2, <2>3, <1>b, <1>d, <1>f
<1>6. ASSUME NEW r \in Replays, SendItem(r) PROVE FramesAreFaithful'
  <2> DEFINE f == [kind |-> "item", id |-> r, number |-> run[r].next,
                   message |-> copy[r][run[r].next + 1]]
  <2>1. /\ run[r].next \in Nat /\ run[r].next < Len(copy[r]) /\ copy[r] \in Seq(Messages)
        /\ Transmit(f) /\ sender \in Senders /\ queue' = queue /\ copy' = copy
    BY <1>6, <1>h DEF SendItem, Run
  <2>2. copy[r][run[r].next + 1] \in Messages
    BY <2>1
  <2>3. f \in Frame
    BY <2>1, <2>2 DEF Frame
  <2>4. run'[r].state # "idle"
    BY <1>6, <1>h DEF SendItem, Run
  <2>5. /\ f.id = r /\ f.kind = "item" /\ f.number = run[r].next
        /\ f.message = copy[r][run[r].next + 1]
    OBVIOUS
  <2> HIDE DEF f
  <2>. QED
    BY <2>1, <2>3, <2>4, <2>5, <1>b, <1>d, <1>f
<1>7. ASSUME NEW r \in Replays, SendEnd(r) PROVE FramesAreFaithful'
  <2> DEFINE f == [kind |-> "end", id |-> r, number |-> Len(copy[r])]
  <2>1. /\ copy[r] \in Seq(Messages)
        /\ Transmit(f) /\ sender \in Senders /\ queue' = queue /\ copy' = copy
    BY <1>7, <1>h DEF SendEnd, Run
  <2>2. f \in Frame
    BY <2>1 DEF Frame
  <2>3. run'[r].state # "idle"
    BY <1>7, <1>h DEF SendEnd, Run
  <2>4. f.id = r /\ f.kind = "end" /\ f.number = Len(copy[r])
    OBVIOUS
  <2> HIDE DEF f
  <2>. QED
    BY <2>1, <2>2, <2>3, <2>4, <1>b, <1>d, <1>f
<1>8. ASSUME NEW c \in Senders, Refuse(c) \/ Forget(c) PROVE FramesAreFaithful'
  BY <1>8, <1>b, <1>c, <1>f DEF Refuse, Forget
<1>9. ASSUME NEW c \in Senders, Item(c) \/ End(c) PROVE FramesAreFaithful'
  <2>1. Take(c) /\ Publish(relay[Head(frames[c]).id].target, Head(frames[c]))
    BY <1>9 DEF Item, End
  <2>. QED
    BY <2>1, <1>c, <1>e, <1>f
<1>10. ASSUME NEW c \in Senders, NEW d \in Receivers, Begin(c, d) PROVE FramesAreFaithful'
  <2>1. Take(c) /\ Publish(d, Head(frames[c]))
    BY <1>10 DEF Begin
  <2>. QED
    BY <2>1, <1>c, <1>e, <1>f
<1>11. CASE PageTakes
  BY <1>11, <1>f, <1>g
<1>12. CASE UNCHANGED vars
  BY <1>12, <1>a, <1>b, <1>f DEF vars
<1>. QED
  BY <1>1, <1>2, <1>3, <1>4, <1>5, <1>6, <1>7, <1>8, <1>9, <1>10, <1>11, <1>12
     DEF Next, PageBegins, PageIgnores, PageCollects, PageShows, PageRefuses

LEMMA CollectedStep ==
  TypeOK /\ FramesAreFaithful /\ CollectedIsPrefix /\ [Next]_vars => CollectedIsPrefix'
<1> SUFFICES ASSUME TypeOK, FramesAreFaithful, CollectedIsPrefix, [Next]_vars
             PROVE CollectedIsPrefix'
  OBVIOUS
<1>0. /\ StartedStays /\ queue \in Seq(Frame) /\ replay \in Collection
      /\ copy \in [Replays -> Seq(Messages)]
  BY ListsStay DEF TypeOK
<1>a. ASSUME replay'.id = Nobody PROVE CollectedIsPrefix'
  BY <1>a DEF CollectedIsPrefix
<1>b. ASSUME replay' = replay, pageKnows' = pageKnows PROVE CollectedIsPrefix'
  <2> SUFFICES ASSUME replay.id # Nobody PROVE CollectedIsPrefix'
    BY <1>b DEF CollectedIsPrefix
  <2>1. run'[replay.id].state # "idle" /\ copy'[replay.id] = copy[replay.id]
    BY <1>0 DEF CollectedIsPrefix, StartedStays, Collection
  <2>. QED
    BY <1>b, <2>1 DEF CollectedIsPrefix, Prefix, Admitted
<1>c. ASSUME PageTakes PROVE Head(queue) \in Frame /\ Faithful(Head(queue))
  <2>1. queue # <<>> /\ 1 \in 1..Len(queue) /\ Head(queue) = queue[1]
    BY <1>0, <1>c DEF PageTakes
  <2>. QED
    BY <1>0, <2>1 DEF FramesAreFaithful
<1>1. ASSUME UNCHANGED pageVars PROVE CollectedIsPrefix'
  BY <1>1, <1>b DEF pageVars
<1>2. CASE PageLearns
  <2> SUFFICES ASSUME replay'.id # Nobody PROVE CollectedIsPrefix'
    BY DEF CollectedIsPrefix
  <2>1. /\ replay'.id = replay.id /\ replay'.next = replay.next
        /\ replay'.messages = replay.messages \ Grace /\ pageKnows' = TRUE
        /\ ~pageKnows /\ copy' = copy /\ run' = run
    BY <1>0, <1>2 DEF PageLearns, Collection, senderVars
  <2>2. /\ replay.messages \subseteq Prefix(replay.id, replay.next)
        /\ Prefix(replay.id, replay.next) \subseteq replay.messages
    BY <2>1 DEF CollectedIsPrefix, Admitted
  <2>3. Prefix(replay.id, replay.next)' = Prefix(replay.id, replay.next)
    BY <2>1 DEF Prefix
  <2>4. Admitted(Prefix(replay.id, replay.next))' = Prefix(replay.id, replay.next) \ Grace
    BY <2>1, <2>3 DEF Admitted
  <2>5. run[replay.id].state # "idle" /\ replay.next <= Len(copy[replay.id])
    BY <2>1 DEF CollectedIsPrefix
  <2>. QED
    BY <2>1, <2>2, <2>3, <2>4, <2>5 DEF CollectedIsPrefix
<1>3. CASE PageBegins
  <2> DEFINE r == Head(queue).id
  <2>1. /\ PageTakes /\ replay'.id = r /\ replay'.next = 0 /\ replay'.messages = {}
    BY <1>3 DEF PageBegins, NewReplay
  <2>2. r \in Replays /\ run[r].state # "idle"
    BY <1>c, <2>1, FrameIsTyped DEF Faithful
  <2>3. run'[r].state # "idle" /\ copy'[r] \in Seq(Messages)
    <3>1. copy'[r] = copy[r] /\ run'[r].state # "idle"
      BY <1>0, <2>2 DEF StartedStays
    <3>. QED
      BY <1>0, <2>2, <3>1
  <2> HIDE DEF r
  <2>4. 0 <= Len(copy'[r])
    BY <2>3
  <2>5. {copy'[r][i] : i \in 1..0} = {}
    OBVIOUS
  <2>. QED
    BY <2>1, <2>3, <2>4, <2>5 DEF CollectedIsPrefix, Prefix, Admitted
<1>4. CASE PageCollects
  <2> DEFINE f == Head(queue)
             r == replay.id
             n == replay.next
  <2>1. /\ PageTakes /\ f.kind = "item" /\ f.id = r /\ f.number = n
        /\ replay' = [replay EXCEPT !.next = @ + 1, !.messages = @ \cup {f.message}]
        /\ pageKnows' = pageKnows
    BY <1>4 DEF PageCollects, PageTakes
  <2>2. /\ r \in Replays /\ r # Nobody /\ run[r].state # "idle" /\ n \in Nat
        /\ n < Len(copy[r]) /\ f.message = copy[r][n + 1]
    BY <1>c, <2>1, FrameIsTyped, ReplayConstants DEF Faithful
  <2>3. run'[r].state # "idle" /\ copy'[r] = copy[r] /\ copy[r] \in Seq(Messages)
    BY <1>0, <2>2 DEF StartedStays
  <2>4. /\ replay'.id = r /\ replay'.next = n + 1
        /\ replay'.messages = replay.messages \cup {f.message}
    BY <1>0, <2>1 DEF Collection
  <2>5. /\ replay.messages \subseteq Prefix(r, n)
        /\ Admitted(Prefix(r, n)) \subseteq replay.messages
    BY <2>2 DEF CollectedIsPrefix
  <2> HIDE DEF f, r, n
  <2>6. Prefix(r, n + 1) = Prefix(r, n) \cup {copy[r][n + 1]}
    <3>1. 1..(n + 1) = (1..n) \cup {n + 1}
      BY <2>2
    <3>. QED
      BY <3>1 DEF Prefix
  <2>7. {copy'[r][i] : i \in 1..(n + 1)} = Prefix(r, n + 1)
    BY <2>3 DEF Prefix
  <2>8. n + 1 <= Len(copy'[r])
    BY <2>2, <2>3
  <2>9. Prefix(replay.id, replay.next)' = Prefix(r, n) \cup {f.message}
    BY <2>2, <2>4, <2>6, <2>7 DEF Prefix
  <2>10. replay'.messages \subseteq Prefix(replay.id, replay.next)'
    BY <2>4, <2>5, <2>9
  <2>11. Admitted(Prefix(replay.id, replay.next))' \subseteq replay'.messages
    BY <2>1, <2>4, <2>5, <2>9 DEF Admitted
  <2>. QED
    BY <2>3, <2>4, <2>8, <2>10, <2>11 DEF CollectedIsPrefix
<1>5. CASE PageShows \/ PageRefuses \/ PageCloses
  BY <1>5, <1>a DEF PageShows, PageRefuses, PageCloses, NoReplay
<1>6. CASE PageIgnores
  BY <1>6, <1>b DEF PageIgnores, PageTakes
<1>7. ASSUME NEW c, SenderConnects(c) \/ PageConnects(c) \/ PresenceEnds(c) \/ RelayExpires(c)
                    \/ SendItem(c) \/ SendEnd(c) \/ Refuse(c) \/ Forget(c) \/ Item(c) \/ End(c)
      PROVE CollectedIsPrefix'
  BY <1>7, <1>1, <1>b DEF SenderConnects, PageConnects, PresenceEnds, RelayExpires, SendItem,
     SendEnd, Refuse, Forget, Item, End
<1>8. ASSUME NEW c, NEW d, Begin(c, d) \/ Start(c, d) PROVE CollectedIsPrefix'
  BY <1>8, <1>1 DEF Begin, Start
<1>9. CASE SenderCloses \/ RedisLoss \/ UNCHANGED vars
  BY <1>9, <1>1 DEF SenderCloses, RedisLoss, vars
<1>. QED
  BY <1>2, <1>3, <1>4, <1>5, <1>6, <1>7, <1>8, <1>9 DEF Next

(* What is shown changes in two steps only. *)
LEMMA ShownChanges ==
  ASSUME [Next]_vars
  PROVE  \/ PageLearns \/ PageShows
         \/ shown' = shown /\ pageKnows' = pageKnows
<1>1. ASSUME UNCHANGED pageVars PROVE shown' = shown /\ pageKnows' = pageKnows
  BY <1>1 DEF pageVars
<1>2. CASE PageBegins \/ PageIgnores \/ PageCollects \/ PageRefuses \/ PageCloses
  BY <1>2 DEF PageBegins, PageIgnores, PageCollects, PageRefuses, PageTakes, PageCloses
<1>3. ASSUME NEW c, SenderConnects(c) \/ PageConnects(c) \/ PresenceEnds(c) \/ RelayExpires(c)
                    \/ SendItem(c) \/ SendEnd(c) \/ Refuse(c) \/ Forget(c) \/ Item(c) \/ End(c)
      PROVE shown' = shown /\ pageKnows' = pageKnows
  BY <1>3, <1>1 DEF SenderConnects, PageConnects, PresenceEnds, RelayExpires, SendItem,
     SendEnd, Refuse, Forget, Item, End
<1>4. ASSUME NEW c, NEW d, Begin(c, d) \/ Start(c, d) PROVE shown' = shown /\ pageKnows' = pageKnows
  BY <1>4, <1>1 DEF Begin, Start
<1>5. CASE SenderCloses \/ RedisLoss \/ UNCHANGED vars
  BY <1>5, <1>1 DEF SenderCloses, RedisLoss, vars
<1>. QED
  BY <1>2, <1>3, <1>4, <1>5 DEF Next

LEMMA RejectedStep == TypeOK /\ RejectedGraceStaysOut /\ [Next]_vars => RejectedGraceStaysOut'
<1> SUFFICES ASSUME TypeOK, RejectedGraceStaysOut, [Next]_vars PROVE RejectedGraceStaysOut'
  OBVIOUS
<1>1. CASE PageLearns
  BY <1>1 DEF PageLearns, RejectedGraceStaysOut
<1>2. CASE PageShows
  <2>1. shown \cup Admitted(replay.messages) \in SUBSET Messages
    BY DEF Admitted, TypeOK, Collection
  <2>2. shown' \subseteq shown \cup Admitted(replay.messages) /\ pageKnows' = pageKnows
    BY <1>2, <2>1, TrimIsCapped DEF PageShows, PageTakes
  <2>. QED
    BY <2>2 DEF RejectedGraceStaysOut, Admitted
<1>3. CASE shown' = shown /\ pageKnows' = pageKnows
  BY <1>3 DEF RejectedGraceStaysOut
<1>. QED
  BY <1>1, <1>2, <1>3, ShownChanges

-----------------------------------------------------------------------------
(* The invariant and what follows from it *)

LEMMA InvInit == Init => ReplayInv
<1> SUFFICES ASSUME Init PROVE ReplayInv
  OBVIOUS
<1>1. queue = <<>> /\ frames = [c \in Senders |-> <<>>]
  BY DEF Init
<1>2. Len(queue) = 0 /\ \A c \in Senders : Len(frames[c]) = 0
  BY <1>1
<1>3. \A r \in Replays : relay[r] = NoRelay
  BY DEF Init
<1>4. Gapless
  BY <1>2, <1>3 DEF Gapless, FirstIsExpected, FollowersFollow, LastIsCounted, Published,
     TargetsWereOpened
<1>5. FramesAreFaithful
  BY <1>2 DEF FramesAreFaithful
<1>6. CollectedIsPrefix /\ RejectedGraceStaysOut
  BY DEF Init, NoReplay, CollectedIsPrefix, RejectedGraceStaysOut
<1>. QED
  BY <1>4, <1>5, <1>6, TypeInit DEF ReplayInv

LEMMA InvStep == ReplayInv /\ [Next]_vars => ReplayInv'
BY TypeStep, NumberedStep, TargetsStep, FramesStep, CollectedStep, RejectedStep
   DEF ReplayInv, Gapless, Numbered

(* Inductive: the numbers of a replay have no gap from the script to the page,  *)
(* and its frames are those of the list the loop of the sender started with.    *)
THEOREM ReplayInvariant == Spec => []ReplayInv
<1>. QED
  BY InvInit, InvStep, PTL DEF Spec

(* Every value has its type, and the page shows at most Capacity copied        *)
(* messages (chat.js:205).                                                     *)
THEOREM TypeCorrect == Spec => []TypeOK
<1>1. ReplayInv => TypeOK
  BY DEF ReplayInv
<1>. QED
  BY <1>1, ReplayInvariant, PTL

(* The next item the page reads of the replay it collects has the number it     *)
(* expects, and the end its count (recovery_redis.py:35).                       *)
THEOREM NoGapReachesThePage == Spec => []RelayIsGapless
<1>1. ReplayInv => RelayIsGapless
  <2> SUFFICES ASSUME ReplayInv, queue # <<>>, Head(queue).kind # "begin",
                      Head(queue).id = replay.id
               PROVE Head(queue).number = replay.next
    BY DEF RelayIsGapless
  <2>1. 1 \in 1..Len(queue) /\ Head(queue) = queue[1]
    BY DEF ReplayInv, TypeOK
  <2>2. \A k \in 1..Len(queue) : ~(k < 1)
    OBVIOUS
  <2>. QED
    BY <2>1, <2>2 DEF ReplayInv, Gapless, FirstIsExpected
<1>. QED
  BY <1>1, ReplayInvariant, PTL

(* A page that knows the verdict shows no rejected message (DEC-102). *)
THEOREM RejectedStaysOut == Spec => []RejectedGraceStaysOut
<1>1. ReplayInv => RejectedGraceStaysOut
  BY DEF ReplayInv
<1>. QED
  BY <1>1, ReplayInvariant, PTL

(* The messages shown grow only by a whole list, less the rejected ones. *)
THEOREM CopiesAreWhole == Spec => PageShowsWholeCopies
<1>1. ReplayInv /\ [Next]_vars =>
        [~(shown' \subseteq shown) =>
           \E r \in Replays : shown' = Trim(shown \cup Admitted(CopyOf(r)))]_vars
  <2> SUFFICES ASSUME ReplayInv, [Next]_vars, ~(shown' \subseteq shown)
               PROVE \E r \in Replays : shown' = Trim(shown \cup Admitted(CopyOf(r)))
    OBVIOUS
  <2>1. PageShows
    BY ShownChanges DEF PageLearns
  <2> DEFINE r == replay.id
             f == Head(queue)
  <2>2. /\ queue # <<>> /\ f.kind = "end" /\ f.id = r /\ f.number = replay.next
        /\ shown' = Trim(shown \cup Admitted(replay.messages))
    BY <2>1 DEF PageShows, PageTakes
  <2>3. 1 \in 1..Len(queue) /\ f = queue[1] /\ f \in Frame
    BY <2>2 DEF ReplayInv, TypeOK
  <2>4. r \in Replays /\ r # Nobody /\ replay.next = Len(copy[r])
    BY <2>2, <2>3, FrameIsTyped, ReplayConstants DEF ReplayInv, FramesAreFaithful, Faithful
  <2>5. Prefix(r, replay.next) = CopyOf(r)
    BY <2>4 DEF Prefix, CopyOf
  <2>6. replay.messages \subseteq CopyOf(r) /\ Admitted(CopyOf(r)) \subseteq replay.messages
    BY <2>4, <2>5 DEF ReplayInv, CollectedIsPrefix
  <2> HIDE DEF r, f
  <2>7. Admitted(replay.messages) = Admitted(CopyOf(r))
    BY <2>6 DEF Admitted
  <2>. QED
    BY <2>2, <2>4, <2>7
<1>. QED
  BY <1>1, ReplayInvariant, PTL DEF Spec, PageShowsWholeCopies
=============================================================================
