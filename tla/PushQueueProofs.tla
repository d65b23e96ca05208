--------------------------- MODULE PushQueueProofs ---------------------------
(***************************************************************************)
(* Proofs about PushQueue for every set of jobs, workers, subscriptions,   *)
(* keys and sessions, and every number of attempts and rollbacks.          *)
(***************************************************************************)
EXTENDS PushQueue, TLAPS

(***************************************************************************)
(* The inductive invariant.  A claimed job is locked, so what its worker   *)
(* has in hand is all that is missing in the committed rows.               *)
(***************************************************************************)

(* Only unfinished jobs are worked on. *)
ClaimedJobsAreQueued ==
  \A w \in Workers : work[w].job # None => job[work[w].job].status = "queued"

(* A subscription is listed once, and not after a receipt. *)
CallsAreUnanswered ==
  \A w \in Workers : \A t \in work[w].todo :
    /\ work[w].job # None
    /\ t.id \notin work[w].receipts
    /\ <<work[w].job, t.id>> \notin receipts
    /\ \A u \in work[w].todo : u.id = t.id => u = t

(* A revocation that waits for its commit keeps the keys it is for. *)
RevocationsAreOfDeadKeys ==
  \A w \in Workers : \A s \in work[w].revoked : <<s, sub[s].key>> \in dead

(* The subscriptions with a receipt in the rows or in an open transaction. *)
Answered(j, s) ==
  <<j, s>> \in receipts \/ \E w \in Workers : work[w].job = j /\ s \in work[w].receipts

(* What was accepted and left no receipt was lost by a rollback. *)
AcceptedIsAnswered ==
  \A j \in Jobs, s \in Subscriptions :
    job[j].status \in {"none", "queued"} /\ ~Answered(j, s) => accepted[<<j, s>>] <= rollbacks[j]

(* Every committed round of an unfinished job used an attempt. *)
RoundsAreAttempts ==
  \A j \in Jobs : job[j].status \in {"none", "queued"} => rounds[j] = job[j].attempts

PushInv ==
  /\ TypeOK
  /\ ClaimedJobsAreQueued
  /\ CallsAreUnanswered
  /\ RevocationsAreOfDeadKeys /\ OnlyDeadKeysAreRevoked
  /\ AcceptedIsAnswered /\ PushedOncePerRollback
  /\ RoundsAreAttempts /\ GivenUpAfterAllAttempts

-----------------------------------------------------------------------------
(* Types *)

LEMMA RowsAreTyped ==
  /\ NoSubscription \notin Subscription
  /\ Idle \in Work /\ Idle.job = None /\ Idle.todo = {}
  /\ Idle.receipts = {} /\ Idle.revoked = {} /\ Idle.pending = {}
BY PushConstants DEF NoSubscription, Subscription, Idle, Work

LEMMA JobUpdates ==
  ASSUME NEW x \in Job
  PROVE  /\ \A status \in {"queued", "finished", "gone"} : [x EXCEPT !.status = status] \in Job
         /\ [x EXCEPT !.due = TRUE] \in Job
         /\ [x EXCEPT !.expired = TRUE] \in Job
         /\ x.attempts < Attempts - 1 => [x EXCEPT !.attempts = @ + 1, !.due = FALSE] \in Job
<1>1. \A status \in {"queued", "finished", "gone"} : [x EXCEPT !.status = status] \in Job
  BY DEF Job
<1>2. [x EXCEPT !.due = TRUE] \in Job
  BY DEF Job
<1>3. [x EXCEPT !.expired = TRUE] \in Job
  BY DEF Job
<1>4. ASSUME x.attempts < Attempts - 1 PROVE [x EXCEPT !.attempts = @ + 1, !.due = FALSE] \in Job
  <2>1. [x EXCEPT !.attempts = @ + 1] \in Job
    BY <1>4, PushConstants DEF Job
  <2>2. ASSUME NEW y \in Job PROVE [y EXCEPT !.due = FALSE] \in Job
    BY DEF Job
  <2>3. [[x EXCEPT !.attempts = @ + 1] EXCEPT !.due = FALSE] \in Job
    BY <2>1, <2>2
  <2>. QED
    BY <2>3
<1>. QED
  BY <1>1, <1>2, <1>3, <1>4

LEMMA SubscriptionUpdates ==
  ASSUME NEW x \in Subscription \cup {NoSubscription}
  PROVE  [x EXCEPT !.revoked = TRUE] \in Subscription \cup {NoSubscription}
<1>1. CASE x \in Subscription
  <2>1. [x EXCEPT !.revoked = TRUE] \in Subscription
    BY <1>1 DEF Subscription
  <2>. QED
    BY <2>1
<1>2. CASE x = NoSubscription
  <2> DEFINE Null == [key : {None}, session : {None}, revoked : {TRUE}]
  <2>1. ASSUME NEW y \in Null PROVE [y EXCEPT !.revoked = TRUE] \in Null
    OBVIOUS
  <2>2. x \in Null
    BY <1>2 DEF NoSubscription
  <2>3. \A y \in Null : y = NoSubscription
    <3> SUFFICES ASSUME NEW y \in Null PROVE y = NoSubscription
      OBVIOUS
    <3>1. y.key = None /\ y.session = None
      OBVIOUS
    <3>2. y.revoked = TRUE
      OBVIOUS
    <3>3. y = [key |-> y.key, session |-> y.session, revoked |-> y.revoked]
      OBVIOUS
    <3>. QED
      BY <3>1, <3>2, <3>3, Zenon DEF NoSubscription
  <2>. QED
    BY <2>1, <2>2, <2>3
<1>. QED
  BY <1>1, <1>2

LEMMA TypeInit == Init => TypeOK
<1> SUFFICES ASSUME Init PROVE TypeOK
  OBVIOUS
<1> USE PushConstants, RowsAreTyped DEF Init
<1>1. job \in [Jobs -> Job]
  BY DEF Job
<1>. QED
  BY <1>1 DEF TypeOK

LEMMA TypeStep == TypeOK /\ ClaimedJobsAreQueued /\ [Next]_vars => TypeOK'
<1> SUFFICES ASSUME TypeOK, ClaimedJobsAreQueued, [Next]_vars PROVE TypeOK'
  OBVIOUS
<1> USE PushConstants, RowsAreTyped DEF TypeOK
<1>1. ASSUME NEW j \in Jobs, Enqueue(j) \/ RetryDue(j) \/ JobExpires(j) \/ Purge(j) PROVE TypeOK'
  <2>1. job[j] \in Job
    OBVIOUS
  <2>2. job' = [job EXCEPT ![j] = job'[j]] /\ job'[j] \in Job
    BY <1>1, <2>1, JobUpdates DEF Enqueue, RetryDue, JobExpires, Purge
  <2>. QED
    BY <1>1, <2>2 DEF Enqueue, RetryDue, JobExpires, Purge, history
<1>2. ASSUME NEW s \in Subscriptions, Unsubscribe(s) PROVE TypeOK'
  <2>1. sub' \in [Subscriptions -> Subscription \cup {NoSubscription}]
    BY <1>2 DEF Unsubscribe, Subscription
  <2>. QED
    BY <1>2, <2>1 DEF Unsubscribe
<1>3. ASSUME NEW s \in Subscriptions, NEW k \in Keys, NEW x \in Sessions, Subscribe(s, k, x)
      PROVE TypeOK'
  <2>1. sub' \in [Subscriptions -> Subscription \cup {NoSubscription}]
    BY <1>3 DEF Subscribe, Subscription
  <2>. QED
    BY <1>3, <2>1 DEF Subscribe
<1>4. ASSUME NEW x \in Sessions, SessionEnds(x) PROVE TypeOK'
  BY <1>4 DEF SessionEnds, history
<1>5. ASSUME NEW w \in Workers, NEW j \in Jobs, NEW allowed \in BOOLEAN, Claim(w, j, allowed)
      PROVE TypeOK'
  <2>1. Listed(j) \subseteq Target
    BY DEF Listed
  <2>2. work' \in [Workers -> Work]
    BY <1>5, <2>1 DEF Claim, Work
  <2>3. \A u, v \in Workers : work'[u].job = work'[v].job => u = v \/ work'[u].job = None
    BY <1>5 DEF Claim, Free, Work
  <2>. QED
    BY <1>5, <2>2, <2>3 DEF Claim, rowVars, history
<1>6. ASSUME NEW w \in Workers, NEW t \in Target, Accepted(w, t) \/ Gone(w, t) \/ Failed(w, t)
      PROVE TypeOK'
  <2>1. work[w].job \in Jobs /\ t.id \in Subscriptions /\ t.key \in Keys
    BY <1>6 DEF Accepted, Gone, Failed, Called, Work, Target
  <2>2. work' \in [Workers -> Work]
    <3>1. work[w] \in Work /\ t.id \in Subscriptions
      BY <2>1
    <3>2. CASE Accepted(w, t)
      BY <3>1, <3>2 DEF Accepted, Work
    <3>3. CASE Gone(w, t)
      <4>1. PICK r \in SUBSET Subscriptions :
              work' = [work EXCEPT ![w] = [work[w] EXCEPT !.todo = @ \ {t}, !.receipts = @ \cup {t.id},
                                                          !.revoked = r]]
        BY <3>1, <3>3 DEF Gone, Work
      <4>. QED
        BY <3>1, <4>1 DEF Work
    <3>4. CASE Failed(w, t)
      BY <3>1, <3>4 DEF Failed, Work
    <3>. QED
      BY <1>6, <3>2, <3>3, <3>4
  <2>3. \A v \in Workers : work'[v].job = work[v].job
    BY <1>6 DEF Accepted, Gone, Failed, Work
  <2>4. accepted' \in [Jobs \X Subscriptions -> Nat]
    <3>1. accepted[<<work[w].job, t.id>>] + 1 \in Nat
      BY <2>1
    <3>2. accepted' = accepted \/ accepted' = [accepted EXCEPT ![<<work[w].job, t.id>>] = @ + 1]
      BY <1>6 DEF Accepted, Gone, Failed, history
    <3>. QED
      BY <3>1, <3>2
  <2>5. dead' \subseteq Subscriptions \X Keys
    BY <1>6, <2>1 DEF Accepted, Gone, Failed, history
  <2>. QED
    BY <1>6, <2>2, <2>3, <2>4, <2>5 DEF Accepted, Gone, Failed, rowVars, history
<1>7. ASSUME NEW w \in Workers, Skip(w) PROVE TypeOK'
  <2>1. work' \in [Workers -> Work] /\ \A v \in Workers : work'[v].job = work[v].job
    BY <1>7 DEF Skip, Work
  <2>. QED
    BY <1>7, <2>1 DEF Skip, rowVars, history
<1>8. ASSUME NEW w \in Workers, Commit(w) PROVE TypeOK'
  <2>1. work[w].job \in Jobs /\ work[w].pending \subseteq Subscriptions
        /\ work[w].receipts \subseteq Subscriptions
    BY <1>8 DEF Commit, Work
  <2>2. Outcome(w, work[w].job) \in Job
    <3>1. job[work[w].job] \in Job
      BY <2>1
    <3>. QED
      BY <3>1, JobUpdates DEF Outcome, MayRetry
  <2>3. sub' \in [Subscriptions -> Subscription \cup {NoSubscription}]
    <3>1. ASSUME NEW s \in Subscriptions PROVE sub'[s] \in Subscription \cup {NoSubscription}
      <4>1. CASE s \in work[w].revoked
        BY <1>8, <4>1, SubscriptionUpdates DEF Commit
      <4>2. CASE s \notin work[w].revoked
        BY <1>8, <4>2 DEF Commit
      <4>. QED
        BY <4>1, <4>2
    <3>. QED
      BY <1>8, <3>1 DEF Commit
  <2>4. work' \in [Workers -> Work]
    BY <1>8 DEF Commit
  <2>5. \A u, v \in Workers : work'[u].job = work'[v].job => u = v \/ work'[u].job = None
    BY <1>8 DEF Commit
  <2>. QED
    BY <1>8, <2>1, <2>2, <2>3, <2>4, <2>5 DEF Commit, Receipts
<1>9. ASSUME NEW w \in Workers, Rollback(w) PROVE TypeOK'
  <2>1. work[w].job \in Jobs
    BY <1>9 DEF Rollback, Work
  <2>2. work' \in [Workers -> Work]
    BY <1>9 DEF Rollback
  <2>3. \A u, v \in Workers : work'[u].job = work'[v].job => u = v \/ work'[u].job = None
    BY <1>9 DEF Rollback
  <2>. QED
    BY <1>9, <2>1, <2>2, <2>3 DEF Rollback, rowVars
<1>10. CASE UNCHANGED vars
  BY <1>10 DEF vars, rowVars, history
<1>. QED
  <2> HIDE DEF TypeOK
  <2>. QED
    BY <1>1, <1>2, <1>3, <1>4, <1>5, <1>6, <1>7, <1>8, <1>9, <1>10 DEF Next

-----------------------------------------------------------------------------
(***************************************************************************)
(* What a step does to one job and to the transactions open on it.         *)
(***************************************************************************)

LEMMA ClaimedStep ==
  TypeOK /\ ClaimedJobsAreQueued /\ [Next]_vars => ClaimedJobsAreQueued'
<1> SUFFICES ASSUME TypeOK, ClaimedJobsAreQueued, [Next]_vars,
                    NEW v \in Workers, work'[v].job # None
             PROVE job'[work'[v].job].status = "queued"
  BY DEF ClaimedJobsAreQueued
<1> USE PushConstants, RowsAreTyped DEF TypeOK, ClaimedJobsAreQueued
<1>0. work[v].job # None => work[v].job \in Jobs
  BY DEF Work
<1>1. ASSUME NEW j \in Jobs, Enqueue(j) \/ RetryDue(j) \/ JobExpires(j) \/ Purge(j)
      PROVE job'[work'[v].job].status = "queued"
  <2>1. work' = work /\ work[v].job # None
    BY <1>1 DEF Enqueue, RetryDue, JobExpires, Purge
  <2>2. job[work[v].job].status = "queued" /\ work[v].job \in Jobs
    BY <1>0, <2>1
  <2>3. work[v].job # j \/ job'[j].status = "queued"
    BY <1>1, <2>2 DEF Enqueue, RetryDue, JobExpires, Purge, Job
  <2>4. job'[work[v].job] = job[work[v].job] \/ work[v].job = j
    BY <1>1, <2>2 DEF Enqueue, RetryDue, JobExpires, Purge
  <2>. QED
    BY <2>1, <2>2, <2>3, <2>4
<1>2. ASSUME NEW s \in Subscriptions,
             Unsubscribe(s) \/ \E k \in Keys, x \in Sessions : Subscribe(s, k, x)
      PROVE job'[work'[v].job].status = "queued"
  BY <1>2 DEF Unsubscribe, Subscribe
<1>3. ASSUME NEW x \in Sessions, SessionEnds(x) PROVE job'[work'[v].job].status = "queued"
  BY <1>3 DEF SessionEnds
<1>4. ASSUME NEW w \in Workers, NEW j \in Jobs, NEW allowed \in BOOLEAN, Claim(w, j, allowed)
      PROVE job'[work'[v].job].status = "queued"
  BY <1>4 DEF Claim, Due, rowVars, Work
<1>5. ASSUME NEW w \in Workers, NEW t \in Target, Accepted(w, t) \/ Gone(w, t) \/ Failed(w, t)
      PROVE job'[work'[v].job].status = "queued"
  <2>1. job' = job /\ work'[v].job = work[v].job
    BY <1>5 DEF Accepted, Gone, Failed, rowVars, Work
  <2>. QED
    BY <2>1
<1>6. ASSUME NEW w \in Workers, Skip(w) PROVE job'[work'[v].job].status = "queued"
  BY <1>6 DEF Skip, rowVars, Work
<1>7. ASSUME NEW w \in Workers, Commit(w) PROVE job'[work'[v].job].status = "queued"
  BY <1>0, <1>7 DEF Commit, Work
<1>8. ASSUME NEW w \in Workers, Rollback(w) PROVE job'[work'[v].job].status = "queued"
  BY <1>8 DEF Rollback, rowVars
<1>9. CASE UNCHANGED vars
  BY <1>9 DEF vars, rowVars
<1>. QED
  BY <1>1, <1>2, <1>3, <1>4, <1>5, <1>6, <1>7, <1>8, <1>9 DEF Next

LEMMA CallsStep ==
  TypeOK /\ CallsAreUnanswered /\ [Next]_vars => CallsAreUnanswered'
<1> SUFFICES ASSUME TypeOK, CallsAreUnanswered, [Next]_vars,
                    NEW v \in Workers, NEW t \in work'[v].todo
             PROVE /\ work'[v].job # None
                   /\ t.id \notin work'[v].receipts
                   /\ <<work'[v].job, t.id>> \notin receipts'
                   /\ \A u \in work'[v].todo : u.id = t.id => u = t
  BY DEF CallsAreUnanswered
<1> DEFINE Goal == /\ work'[v].job # None
                   /\ t.id \notin work'[v].receipts
                   /\ <<work'[v].job, t.id>> \notin receipts'
                   /\ \A u \in work'[v].todo : u.id = t.id => u = t
<1>0. ASSUME /\ work'[v].todo \subseteq work[v].todo
             /\ work'[v].job = work[v].job
             /\ t.id \notin work'[v].receipts \/ work'[v].receipts = work[v].receipts
             /\ <<work[v].job, t.id>> \in receipts' => <<work[v].job, t.id>> \in receipts
      PROVE Goal
  BY <1>0 DEF CallsAreUnanswered
<1>1. ASSUME NEW j \in Jobs, Enqueue(j) \/ RetryDue(j) \/ JobExpires(j) \/ Purge(j) PROVE Goal
  <2>1. work' = work /\ receipts' \subseteq receipts
    BY <1>1 DEF Enqueue, RetryDue, JobExpires, Purge
  <2>. QED
    BY <1>0, <2>1
<1>2. ASSUME NEW s \in Subscriptions,
             Unsubscribe(s) \/ \E k \in Keys, x \in Sessions : Subscribe(s, k, x)
      PROVE Goal
  <2>1. work' = work /\ receipts' = receipts
    BY <1>2 DEF Unsubscribe, Subscribe
  <2>. QED
    BY <1>0, <2>1
<1>3. ASSUME NEW x \in Sessions, SessionEnds(x) PROVE Goal
  <2>1. work' = work /\ receipts' = receipts
    BY <1>3 DEF SessionEnds
  <2>. QED
    BY <1>0, <2>1
<1>4. ASSUME NEW w \in Workers, NEW j \in Jobs, NEW allowed \in BOOLEAN, Claim(w, j, allowed)
      PROVE Goal
  <2>1. CASE v = w
    <3>1. /\ work'[v].todo \subseteq Listed(j)
          /\ work'[v].job = j /\ work'[v].receipts = {}
      BY <1>4, <2>1, RowsAreTyped DEF Claim, TypeOK, Work
    <3>2. receipts' = receipts
      BY <1>4 DEF Claim, rowVars
    <3>3. \A u \in Listed(j) : u \in Target /\ u.key = sub[u.id].key /\ <<j, u.id>> \notin receipts
      BY DEF Listed
    <3>4. ASSUME NEW u \in Target, u.id = t.id, u.key = t.key PROVE u = t
      <4>1. t \in Target
        BY <3>1, <3>3
      <4>2. \A x \in Target : x = [id |-> x.id, key |-> x.key]
        BY DEF Target
      <4>. QED
        BY <3>4, <4>1, <4>2, Zenon
    <3>. QED
      BY <3>1, <3>2, <3>3, <3>4, PushConstants
  <2>2. CASE v # w
    <3>1. work'[v] = work[v] /\ receipts' = receipts
      BY <1>4, <2>2 DEF Claim, TypeOK, rowVars
    <3>. QED
      BY <1>0, <3>1
  <2>. QED
    BY <2>1, <2>2
<1>5. ASSUME NEW w \in Workers, NEW q \in Target, Accepted(w, q) \/ Gone(w, q) \/ Failed(w, q)
      PROVE Goal
  <2>1. receipts' = receipts /\ q \in work[w].todo
    BY <1>5 DEF Accepted, Gone, Failed, Called, rowVars
  <2>2. CASE v = w
    <3>1. /\ work'[w].todo = work[w].todo \ {q} /\ work'[w].job = work[w].job
          /\ work'[w].receipts \subseteq work[w].receipts \cup {q.id}
      BY <1>5 DEF Accepted, Gone, Failed, TypeOK, Work
    <3>2. t \in work[w].todo /\ t # q
      BY <2>2, <3>1
    <3>3. t.id # q.id /\ t.id \notin work[w].receipts
      BY <2>1, <3>2 DEF CallsAreUnanswered
    <3>. QED
      BY <1>0, <2>1, <2>2, <3>1, <3>3
  <2>3. CASE v # w
    <3>1. work'[v] = work[v]
      BY <1>5, <2>3 DEF Accepted, Gone, Failed, TypeOK
    <3>. QED
      BY <1>0, <2>1, <3>1
  <2>. QED
    BY <2>2, <2>3
<1>6. ASSUME NEW w \in Workers, Skip(w) PROVE Goal
  <2>1. /\ work'[v].todo \subseteq work[v].todo
        /\ work'[v].job = work[v].job /\ work'[v].receipts = work[v].receipts
    BY <1>6 DEF Skip, TypeOK, Work
  <2>2. receipts' = receipts
    BY <1>6 DEF Skip, rowVars
  <2>. QED
    BY <1>0, <2>1, <2>2
<1>7. ASSUME NEW w \in Workers, Commit(w) PROVE Goal
  <2>1. CASE v = w
    BY <1>7, <2>1, RowsAreTyped DEF Commit, TypeOK
  <2>2. CASE v # w
    <3>1. work'[v] = work[v] /\ work[w].job # None
      BY <1>7, <2>2 DEF Commit, TypeOK
    <3>2. work[v].job # work[w].job
      BY <2>2, <3>1 DEF TypeOK
    <3>3. \A x \in receipts' : x \in receipts \/ \E s \in work[w].receipts : x = <<work[w].job, s>>
      BY <1>7 DEF Commit, Receipts
    <3>4. <<work[v].job, t.id>> \in receipts' => <<work[v].job, t.id>> \in receipts
      BY <3>2, <3>3
    <3>. QED
      BY <1>0, <3>1, <3>4
  <2>. QED
    BY <2>1, <2>2
<1>8. ASSUME NEW w \in Workers, Rollback(w) PROVE Goal
  <2>1. v # w
    BY <1>8, RowsAreTyped DEF Rollback, TypeOK
  <2>2. work'[v] = work[v] /\ receipts' = receipts
    BY <1>8, <2>1 DEF Rollback, TypeOK, rowVars
  <2>. QED
    BY <1>0, <2>2
<1>9. CASE UNCHANGED vars
  <2>1. work' = work /\ receipts' = receipts
    BY <1>9 DEF vars, rowVars
  <2>. QED
    BY <1>0, <2>1
<1>. QED
  <2> HIDE DEF Goal
  <2>1. CASE UNCHANGED vars
    BY <2>1, <1>9
  <2>2. CASE Next
    <3>1. Goal
      BY <2>2, <1>1, <1>2, <1>3, <1>4, <1>5, <1>6, <1>7, <1>8 DEF Next
    <3>. QED
      BY <3>1 DEF Goal
  <2>. QED
    BY <2>1, <2>2 DEF Goal

-----------------------------------------------------------------------------
(***************************************************************************)
(* Revocations.  While one waits for its commit nobody renews the keys.    *)
(***************************************************************************)

DeadKeys == RevocationsAreOfDeadKeys /\ OnlyDeadKeysAreRevoked

LEMMA DeadKeysStep == TypeOK /\ DeadKeys /\ [Next]_vars => DeadKeys'
<1> SUFFICES ASSUME TypeOK, DeadKeys, [Next]_vars PROVE DeadKeys'
  OBVIOUS
<1>0. ASSUME sub' = sub, dropped' = dropped, dead \subseteq dead',
             \A w \in Workers : work'[w].revoked \subseteq work[w].revoked
      PROVE DeadKeys'
  BY <1>0 DEF DeadKeys, RevocationsAreOfDeadKeys, OnlyDeadKeysAreRevoked
<1>1. ASSUME NEW j \in Jobs, Enqueue(j) \/ RetryDue(j) \/ JobExpires(j) \/ Purge(j) PROVE DeadKeys'
  <2>1. sub' = sub /\ work' = work /\ dropped' = dropped /\ dead' = dead
    BY <1>1 DEF Enqueue, RetryDue, JobExpires, Purge, history
  <2>. QED
    BY <1>0, <2>1
<1>2. ASSUME NEW s \in Subscriptions, Unsubscribe(s) PROVE DeadKeys'
  <2>1. /\ work' = work /\ dead' = dead /\ dropped' = dropped \cup {s}
        /\ \A r \in Subscriptions : r # s => sub'[r] = sub[r]
        /\ sub'[s].key = sub[s].key
    BY <1>2 DEF Unsubscribe, TypeOK, Subscription
  <2>2. RevocationsAreOfDeadKeys'
    BY <2>1 DEF DeadKeys, RevocationsAreOfDeadKeys, TypeOK, Work
  <2>3. OnlyDeadKeysAreRevoked'
    BY <2>1 DEF DeadKeys, OnlyDeadKeysAreRevoked
  <2>. QED
    BY <2>2, <2>3 DEF DeadKeys
<1>3. ASSUME NEW s \in Subscriptions, NEW k \in Keys, NEW x \in Sessions, Subscribe(s, k, x)
      PROVE DeadKeys'
  <2>1. /\ work' = work /\ dead' = dead /\ dropped' = dropped \ {s}
        /\ \A r \in Subscriptions : r # s => sub'[r] = sub[r]
        /\ ~sub'[s].revoked
    BY <1>3 DEF Subscribe, TypeOK
  <2>2. \A w \in Workers : s \notin work[w].revoked
    BY <1>3 DEF Subscribe, Unlocked
  <2>3. RevocationsAreOfDeadKeys'
    BY <2>1, <2>2 DEF DeadKeys, RevocationsAreOfDeadKeys, TypeOK, Work
  <2>4. OnlyDeadKeysAreRevoked'
    BY <2>1 DEF DeadKeys, OnlyDeadKeysAreRevoked
  <2>. QED
    BY <2>3, <2>4 DEF DeadKeys
<1>4. ASSUME NEW x \in Sessions, SessionEnds(x) PROVE DeadKeys'
  <2>1. sub' = sub /\ work' = work /\ dropped' = dropped /\ dead' = dead
    BY <1>4 DEF SessionEnds, history
  <2>. QED
    BY <1>0, <2>1
<1>5. ASSUME NEW w \in Workers, NEW j \in Jobs, NEW allowed \in BOOLEAN, Claim(w, j, allowed)
      PROVE DeadKeys'
  <2>1. sub' = sub /\ dropped' = dropped /\ dead' = dead
    BY <1>5 DEF Claim, rowVars, history
  <2>2. \A v \in Workers : work'[v].revoked = work[v].revoked
    BY <1>5, RowsAreTyped DEF Claim, TypeOK, Work
  <2>. QED
    BY <1>0, <2>1, <2>2
<1>6. ASSUME NEW w \in Workers, NEW t \in Target, Accepted(w, t) \/ Failed(w, t) PROVE DeadKeys'
  <2>1. sub' = sub /\ dropped' = dropped /\ dead' = dead
    BY <1>6 DEF Accepted, Failed, rowVars, history
  <2>2. CASE Accepted(w, t)
    <3>1. \A v \in Workers : work'[v].revoked = work[v].revoked
      BY <2>2 DEF Accepted, TypeOK, Work
    <3>. QED
      BY <1>0, <2>1, <3>1
  <2>3. CASE Failed(w, t)
    <3>1. \A v \in Workers : work'[v].revoked = work[v].revoked
      BY <2>3 DEF Failed, TypeOK, Work
    <3>. QED
      BY <1>0, <2>1, <3>1
  <2>. QED
    BY <1>6, <2>2, <2>3
<1>7. ASSUME NEW w \in Workers, NEW t \in Target, Gone(w, t) PROVE DeadKeys'
  <2>1. sub' = sub /\ dropped' = dropped /\ dead' = dead \cup {<<t.id, t.key>>}
    BY <1>7 DEF Gone, rowVars
  <2>2. ASSUME NEW v \in Workers, NEW s \in work'[v].revoked
        PROVE s \in work[v].revoked \/ (s = t.id /\ sub[s].key = t.key)
    BY <1>7, <2>2 DEF Gone, SameKey, TypeOK, Work
  <2>3. RevocationsAreOfDeadKeys'
    BY <2>1, <2>2 DEF DeadKeys, RevocationsAreOfDeadKeys
  <2>4. OnlyDeadKeysAreRevoked'
    BY <2>1 DEF DeadKeys, OnlyDeadKeysAreRevoked
  <2>. QED
    BY <2>3, <2>4 DEF DeadKeys
<1>8. ASSUME NEW w \in Workers, Skip(w) PROVE DeadKeys'
  <2>1. sub' = sub /\ dropped' = dropped /\ dead' = dead
    BY <1>8 DEF Skip, rowVars, history
  <2>2. \A v \in Workers : work'[v].revoked = work[v].revoked
    BY <1>8 DEF Skip, TypeOK, Work
  <2>. QED
    BY <1>0, <2>1, <2>2
<1>9. ASSUME NEW w \in Workers, Commit(w) PROVE DeadKeys'
  <2>1. /\ dropped' = dropped /\ dead' = dead
        /\ \A v \in Workers : work'[v].revoked \subseteq work[v].revoked
    BY <1>9, RowsAreTyped DEF Commit, TypeOK
  <2>2. ASSUME NEW s \in Subscriptions
        PROVE /\ sub'[s].key = sub[s].key
              /\ s \in work[w].revoked \/ sub'[s] = sub[s]
    BY <1>9 DEF Commit, TypeOK, Subscription, NoSubscription
  <2>3. RevocationsAreOfDeadKeys'
    BY <2>1, <2>2 DEF DeadKeys, RevocationsAreOfDeadKeys, TypeOK, Work
  <2>4. OnlyDeadKeysAreRevoked'
    BY <2>1, <2>2 DEF DeadKeys, RevocationsAreOfDeadKeys, OnlyDeadKeysAreRevoked
  <2>. QED
    BY <2>3, <2>4 DEF DeadKeys
<1>10. ASSUME NEW w \in Workers, Rollback(w) PROVE DeadKeys'
  <2>1. /\ sub' = sub /\ dropped' = dropped /\ dead' = dead
        /\ \A v \in Workers : work'[v].revoked \subseteq work[v].revoked
    BY <1>10, RowsAreTyped DEF Rollback, TypeOK, rowVars
  <2>. QED
    BY <1>0, <2>1
<1>11. CASE UNCHANGED vars
  <2>1. sub' = sub /\ work' = work /\ dropped' = dropped /\ dead' = dead
    BY <1>11 DEF vars, rowVars, history
  <2>. QED
    BY <1>0, <2>1
<1>. QED
  BY <1>1, <1>2, <1>3, <1>4, <1>5, <1>6, <1>7, <1>8, <1>9, <1>10, <1>11 DEF Next

-----------------------------------------------------------------------------
(***************************************************************************)
(* Counts.  What a worker has in hand reaches the rows, or a rollback is   *)
(* counted; no other worker has the same job.                              *)
(***************************************************************************)

Counted == AcceptedIsAnswered /\ PushedOncePerRollback

LEMMA CountedStep ==
  TypeOK /\ ClaimedJobsAreQueued /\ CallsAreUnanswered /\ Counted /\ [Next]_vars => Counted'
<1> SUFFICES ASSUME TypeOK, ClaimedJobsAreQueued, CallsAreUnanswered, Counted, [Next]_vars,
                    NEW i \in Jobs, NEW s \in Subscriptions
             PROVE /\ accepted'[<<i, s>>] <= 1 + rollbacks'[i]
                   /\ job'[i].status \in {"none", "queued"} /\ ~Answered(i, s)'
                        => accepted'[<<i, s>>] <= rollbacks'[i]
  BY DEF Counted, AcceptedIsAnswered, PushedOncePerRollback
<1> DEFINE Goal == /\ accepted'[<<i, s>>] <= 1 + rollbacks'[i]
                   /\ job'[i].status \in {"none", "queued"} /\ ~Answered(i, s)'
                        => accepted'[<<i, s>>] <= rollbacks'[i]
<1>a. /\ accepted[<<i, s>>] \in Nat /\ rollbacks[i] \in Nat
      /\ accepted[<<i, s>>] <= 1 + rollbacks[i]
      /\ job[i].status \in {"none", "queued"} /\ ~Answered(i, s) => accepted[<<i, s>>] <= rollbacks[i]
  BY PushConstants DEF TypeOK, Counted, AcceptedIsAnswered, PushedOncePerRollback
<1>b. ASSUME accepted'[<<i, s>>] = accepted[<<i, s>>], rollbacks'[i] = rollbacks[i],
             job'[i].status \in {"none", "queued"} => job[i].status \in {"none", "queued"},
             job'[i].status \in {"none", "queued"} /\ Answered(i, s) => Answered(i, s)'
      PROVE Goal
  BY <1>a, <1>b
<1> HIDE DEF Goal
<1>1. ASSUME NEW j \in Jobs, Enqueue(j) \/ RetryDue(j) \/ JobExpires(j) PROVE Goal
  <2>1. /\ accepted' = accepted /\ rollbacks' = rollbacks /\ receipts' = receipts /\ work' = work
        /\ job'[i].status \in {"none", "queued"} => job[i].status \in {"none", "queued"}
    BY <1>1 DEF Enqueue, RetryDue, JobExpires, history, TypeOK, Job
  <2>. QED
    BY <1>b, <2>1 DEF Answered
<1>2. ASSUME NEW j \in Jobs, Purge(j) PROVE Goal
  <2>1. accepted' = accepted /\ rollbacks' = rollbacks /\ work' = work
    BY <1>2 DEF Purge, history
  <2>2. i = j => job'[i].status = "gone"
    BY <1>2 DEF Purge, TypeOK, Job
  <2>3. i # j => job'[i] = job[i] /\ (<<i, s>> \in receipts => <<i, s>> \in receipts')
    BY <1>2 DEF Purge, TypeOK, Job
  <2>. QED
    BY <1>b, <2>1, <2>2, <2>3 DEF Answered
<1>3. ASSUME NEW r \in Subscriptions,
             Unsubscribe(r) \/ \E k \in Keys, x \in Sessions : Subscribe(r, k, x)
      PROVE Goal
  <2>1. /\ accepted' = accepted /\ rollbacks' = rollbacks /\ receipts' = receipts
        /\ work' = work /\ job' = job
    BY <1>3 DEF Unsubscribe, Subscribe
  <2>. QED
    BY <1>b, <2>1 DEF Answered
<1>4. ASSUME NEW x \in Sessions, SessionEnds(x) PROVE Goal
  <2>1. /\ accepted' = accepted /\ rollbacks' = rollbacks /\ receipts' = receipts
        /\ work' = work /\ job' = job
    BY <1>4 DEF SessionEnds, history
  <2>. QED
    BY <1>b, <2>1 DEF Answered
<1>5. ASSUME NEW w \in Workers, NEW j \in Jobs, NEW allowed \in BOOLEAN, Claim(w, j, allowed)
      PROVE Goal
  <2>1. /\ accepted' = accepted /\ rollbacks' = rollbacks /\ receipts' = receipts /\ job' = job
    BY <1>5 DEF Claim, rowVars, history
  <2>2. \A v \in Workers : v # w => work'[v] = work[v]
    BY <1>5 DEF Claim, TypeOK
  <2>3. Answered(i, s) => Answered(i, s)'
    BY <1>5, <2>1, <2>2, RowsAreTyped DEF Answered, Claim
  <2>. QED
    BY <1>b, <2>1, <2>3
<1>6. ASSUME NEW w \in Workers, NEW t \in Target, Accepted(w, t) PROVE Goal
  <2>1. /\ rollbacks' = rollbacks /\ receipts' = receipts /\ job' = job
        /\ t \in work[w].todo /\ work[w].job # None
    BY <1>6 DEF Accepted, Called, rowVars
  <2>2. /\ \A v \in Workers : v # w => work'[v] = work[v]
        /\ work'[w].job = work[w].job /\ work'[w].receipts = work[w].receipts \cup {t.id}
    BY <1>6 DEF Accepted, TypeOK, Work
  <2>3. Answered(i, s) => Answered(i, s)'
    BY <2>1, <2>2 DEF Answered
  <2>4. CASE i = work[w].job /\ s = t.id
    <3>1. ~Answered(i, s)
      BY <2>1, <2>4 DEF Answered, CallsAreUnanswered, TypeOK
    <3>2. job[i].status = "queued"
      BY <2>1, <2>4 DEF ClaimedJobsAreQueued
    <3>3. Answered(i, s)'
      BY <2>2, <2>4 DEF Answered
    <3>4. accepted'[<<i, s>>] = accepted[<<i, s>>] + 1
      BY <1>6, <2>4 DEF Accepted, TypeOK
    <3>. QED
      BY <1>a, <2>1, <3>1, <3>2, <3>3, <3>4 DEF Goal
  <2>5. CASE ~(i = work[w].job /\ s = t.id)
    <3>1. accepted'[<<i, s>>] = accepted[<<i, s>>]
      BY <1>6, <2>5 DEF Accepted, TypeOK
    <3>. QED
      BY <1>b, <2>1, <2>3, <3>1
  <2>. QED
    BY <2>4, <2>5
<1>7. ASSUME NEW w \in Workers, NEW t \in Target, Gone(w, t) \/ Failed(w, t) PROVE Goal
  <2>1. accepted' = accepted /\ rollbacks' = rollbacks /\ receipts' = receipts /\ job' = job
    BY <1>7 DEF Gone, Failed, rowVars, history
  <2>2. \A v \in Workers : work'[v].job = work[v].job /\ work[v].receipts \subseteq work'[v].receipts
    BY <1>7 DEF Gone, Failed, TypeOK, Work
  <2>. QED
    BY <1>b, <2>1, <2>2 DEF Answered
<1>8. ASSUME NEW w \in Workers, Skip(w) PROVE Goal
  <2>1. accepted' = accepted /\ rollbacks' = rollbacks /\ receipts' = receipts /\ job' = job
    BY <1>8 DEF Skip, rowVars, history
  <2>2. \A v \in Workers : work'[v].job = work[v].job /\ work[v].receipts = work'[v].receipts
    BY <1>8 DEF Skip, TypeOK, Work
  <2>. QED
    BY <1>b, <2>1, <2>2 DEF Answered
<1>9. ASSUME NEW w \in Workers, Commit(w) PROVE Goal
  <2>1. accepted' = accepted /\ rollbacks' = rollbacks /\ work[w].job # None
    BY <1>9 DEF Commit
  <2>2. \A v \in Workers : v # w => work'[v] = work[v]
    BY <1>9 DEF Commit, TypeOK
  <2>3. receipts' = receipts \cup {<<work[w].job, r>> : r \in work[w].receipts}
    BY <1>9 DEF Commit, Receipts
  <2>4. Answered(i, s) => Answered(i, s)'
    BY <2>2, <2>3 DEF Answered
  <2>5. job'[i].status \in {"none", "queued"} => job[i].status \in {"none", "queued"}
    <3>1. CASE i = work[w].job
      BY <2>1, <3>1 DEF ClaimedJobsAreQueued
    <3>2. CASE i # work[w].job
      BY <1>9, <3>2 DEF Commit, TypeOK
    <3>. QED
      BY <3>1, <3>2
  <2>. QED
    BY <1>b, <2>1, <2>4, <2>5
<1>10. ASSUME NEW w \in Workers, Rollback(w) PROVE Goal
  <2>1. accepted' = accepted /\ receipts' = receipts /\ job' = job
    BY <1>10 DEF Rollback, rowVars
  <2>2. CASE i = work[w].job
    <3>1. rollbacks'[i] = rollbacks[i] + 1
      BY <1>10, <2>2 DEF Rollback, TypeOK
    <3>. QED
      BY <1>a, <2>1, <3>1 DEF Goal
  <2>3. CASE i # work[w].job
    <3>1. rollbacks'[i] = rollbacks[i] /\ \A v \in Workers : v # w => work'[v] = work[v]
      BY <1>10, <2>3 DEF Rollback, TypeOK
    <3>2. Answered(i, s) => Answered(i, s)'
      BY <2>1, <2>3, <3>1 DEF Answered
    <3>. QED
      BY <1>b, <2>1, <3>1, <3>2
  <2>. QED
    BY <2>2, <2>3
<1>11. ASSUME UNCHANGED vars PROVE Goal
  <2>1. /\ accepted' = accepted /\ rollbacks' = rollbacks /\ receipts' = receipts
        /\ work' = work /\ job' = job
    BY <1>11 DEF vars, rowVars, history
  <2>. QED
    BY <1>b, <2>1 DEF Answered
<1>. QED
  <2>1. Goal
    BY <1>1, <1>2, <1>3, <1>4, <1>5, <1>6, <1>7, <1>8, <1>9, <1>10, <1>11 DEF Next
  <2>. QED
    BY <2>1 DEF Goal

-----------------------------------------------------------------------------
(* Rounds.  Only a commit counts one, of a job that is unfinished. *)

Rounds == RoundsAreAttempts /\ GivenUpAfterAllAttempts

LEMMA RoundsStep == TypeOK /\ ClaimedJobsAreQueued /\ Rounds /\ [Next]_vars => Rounds'
<1> SUFFICES ASSUME TypeOK, ClaimedJobsAreQueued, Rounds, [Next]_vars, NEW i \in Jobs
             PROVE /\ job'[i].status \in {"none", "queued"} => rounds'[i] = job'[i].attempts
                   /\ rounds'[i] <= Attempts
                   /\ job'[i].status = "finished" /\ missed'[i] # {} => rounds'[i] = Attempts
  BY DEF Rounds, RoundsAreAttempts, GivenUpAfterAllAttempts
<1> DEFINE Goal == /\ job'[i].status \in {"none", "queued"} => rounds'[i] = job'[i].attempts
                   /\ rounds'[i] <= Attempts
                   /\ job'[i].status = "finished" /\ missed'[i] # {} => rounds'[i] = Attempts
<1>a. /\ job[i].status \in {"none", "queued"} => rounds[i] = job[i].attempts
      /\ rounds[i] \in Nat /\ rounds[i] <= Attempts
      /\ job[i].status = "finished" /\ missed[i] # {} => rounds[i] = Attempts
  BY DEF TypeOK, Rounds, RoundsAreAttempts, GivenUpAfterAllAttempts
<1>b. ASSUME rounds'[i] = rounds[i], missed'[i] = missed[i], job'[i].attempts = job[i].attempts,
             \/ job'[i].status = job[i].status
             \/ job[i].status = "none" /\ job'[i].status = "queued"
             \/ job'[i].status = "gone"
      PROVE Goal
  BY <1>a, <1>b
<1> HIDE DEF Goal
<1>1. ASSUME NEW j \in Jobs, Enqueue(j) \/ RetryDue(j) \/ JobExpires(j) \/ Purge(j) PROVE Goal
  <2>1. rounds' = rounds /\ missed' = missed
    BY <1>1 DEF Enqueue, RetryDue, JobExpires, Purge, history
  <2>2. job[i] \in Job
    BY DEF TypeOK
  <2>3. /\ job'[i].attempts = job[i].attempts
        /\ \/ job'[i].status = job[i].status
           \/ job[i].status = "none" /\ job'[i].status = "queued"
           \/ job'[i].status = "gone"
    BY <1>1, <2>2 DEF Enqueue, RetryDue, JobExpires, Purge, TypeOK, Job
  <2>. QED
    BY <1>b, <2>1, <2>3
<1>2. ASSUME NEW w \in Workers, Commit(w) PROVE Goal
  <2>1. CASE i = work[w].job
    <3>1. /\ job'[i] = Outcome(w, i) /\ rounds'[i] = rounds[i] + 1 /\ missed'[i] = work[w].pending
      BY <1>2, <2>1 DEF Commit, TypeOK
    <3>2. job[i].status = "queued" /\ job[i] \in Job
      BY <1>2, <2>1 DEF Commit, ClaimedJobsAreQueued, TypeOK
    <3>3. rounds[i] = job[i].attempts /\ job[i].attempts \in Nat /\ job[i].attempts <= Attempts - 1
      BY <1>a, <3>2, PushConstants DEF Job
    <3>4. CASE work[w].pending # {} /\ MayRetry(i)
      <4>1. job'[i].attempts = job[i].attempts + 1 /\ job'[i].status = "queued"
        BY <3>1, <3>2, <3>4 DEF Outcome, Job
      <4>. QED
        BY <3>1, <3>3, <4>1, PushConstants DEF Goal
    <3>5. CASE ~(work[w].pending # {} /\ MayRetry(i))
      <4>1. job'[i].status = "finished"
        BY <3>1, <3>2, <3>5 DEF Outcome, Job
      <4>2. work[w].pending # {} => job[i].attempts = Attempts - 1
        BY <3>3, <3>5, PushConstants DEF MayRetry
      <4>. QED
        BY <3>1, <3>3, <4>1, <4>2, PushConstants DEF Goal
    <3>. QED
      BY <3>4, <3>5
  <2>2. CASE i # work[w].job
    <3>1. job'[i] = job[i] /\ rounds'[i] = rounds[i] /\ missed'[i] = missed[i]
      BY <1>2, <2>2 DEF Commit, TypeOK
    <3>. QED
      BY <1>b, <3>1
  <2>. QED
    BY <2>1, <2>2
<1>3. ASSUME UNCHANGED <<job, rounds, missed>> PROVE Goal
  BY <1>b, <1>3
<1>4. ASSUME NEW s \in Subscriptions,
             Unsubscribe(s) \/ \E k \in Keys, x \in Sessions : Subscribe(s, k, x)
      PROVE Goal
  BY <1>3, <1>4 DEF Unsubscribe, Subscribe
<1>5. ASSUME NEW x \in Sessions, SessionEnds(x) PROVE Goal
  BY <1>3, <1>5 DEF SessionEnds, history
<1>6. ASSUME NEW w \in Workers,
             \/ \E j \in Jobs, allowed \in BOOLEAN : Claim(w, j, allowed)
             \/ \E t \in Target : Accepted(w, t) \/ Gone(w, t) \/ Failed(w, t)
             \/ Skip(w) \/ Rollback(w)
      PROVE Goal
  BY <1>3, <1>6 DEF Claim, Accepted, Gone, Failed, Skip, Rollback, rowVars, history
<1>7. ASSUME UNCHANGED vars PROVE Goal
  BY <1>3, <1>7 DEF vars, rowVars, history
<1>. QED
  <2>1. Goal
    BY <1>1, <1>2, <1>4, <1>5, <1>6, <1>7 DEF Next
  <2>. QED
    BY <2>1 DEF Goal

-----------------------------------------------------------------------------
(* Theorems *)

LEMMA PushInvInit == Init => PushInv
<1> SUFFICES ASSUME Init PROVE PushInv
  OBVIOUS
<1>1. TypeOK
  BY TypeInit
<1>2. ClaimedJobsAreQueued /\ CallsAreUnanswered /\ RevocationsAreOfDeadKeys
  BY RowsAreTyped DEF Init, ClaimedJobsAreQueued, CallsAreUnanswered, RevocationsAreOfDeadKeys
<1>3. OnlyDeadKeysAreRevoked
  BY DEF Init, OnlyDeadKeysAreRevoked
<1>4. AcceptedIsAnswered /\ PushedOncePerRollback
  BY DEF Init, AcceptedIsAnswered, PushedOncePerRollback
<1>5. RoundsAreAttempts /\ GivenUpAfterAllAttempts
  BY PushConstants DEF Init, RoundsAreAttempts, GivenUpAfterAllAttempts
<1>. QED
  BY <1>1, <1>2, <1>3, <1>4, <1>5 DEF PushInv

(* The inductive invariant: what the workers hold completes what the rows     *)
(* say about answers, keys and rounds (push.py:26-87).                        *)
THEOREM PushInvariant == Spec => []PushInv
<1>1. PushInv /\ [Next]_vars => PushInv'
  BY TypeStep, ClaimedStep, CallsStep, DeadKeysStep, CountedStep, RoundsStep
     DEF PushInv, DeadKeys, Counted, Rounds
<1>. QED
  BY PushInvInit, <1>1, PTL DEF Spec

(* Jobs, subscriptions and open transactions keep their types, and no job is  *)
(* held by two workers.                                                       *)
THEOREM TypeCorrect == Spec => []TypeOK
<1>1. PushInv => TypeOK
  BY DEF PushInv
<1>. QED
  BY PushInvariant, <1>1, PTL

(* A notice is repeated to a subscription only by as many rollbacks. *)
THEOREM NoticesAreNotRepeated == Spec => []PushedOncePerRollback
<1>1. PushInv => PushedOncePerRollback
  BY DEF PushInv
<1>. QED
  BY PushInvariant, <1>1, PTL

(* A renewed subscription is not revoked for the answer to its old keys. *)
THEOREM RenewedKeysSurvive == Spec => []OnlyDeadKeysAreRevoked
<1>1. PushInv => OnlyDeadKeysAreRevoked
  BY DEF PushInv
<1>. QED
  BY PushInvariant, <1>1, PTL

(* A notice is given up after all its attempts and no earlier. *)
THEOREM AttemptsAreUsed == Spec => []GivenUpAfterAllAttempts
<1>1. PushInv => GivenUpAfterAllAttempts
  BY DEF PushInv
<1>. QED
  BY PushInvariant, <1>1, PTL
=============================================================================
