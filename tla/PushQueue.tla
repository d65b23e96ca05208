------------------------------ MODULE PushQueue ------------------------------
(***************************************************************************)
(* The queue of Web Push notices of one user.  A job is inserted with the  *)
(* message or the offer it announces.  Workers claim a job with FOR UPDATE *)
(* SKIP LOCKED and, inside that one transaction, call the provider of each *)
(* subscription in turn: up to five seconds each, with the row of the job  *)
(* locked and the list of subscriptions read once, before the first call.  *)
(* A commit keeps the receipts; a failure in between loses them, though    *)
(* the provider may have accepted the notice.                              *)
(***************************************************************************)
EXTENDS Naturals, FiniteSets

CONSTANTS
  Jobs, Workers,
  Subscriptions,  \* rows of web_push_subscriptions, one per endpoint
  Keys,           \* p256dh and auth_secret
  Sessions,
  None,
  Attempts,       \* 5 in the code
  MaxRollbacks    \* bound: rolled back transactions per job

ASSUME PushConstants ==
  /\ None \notin Jobs \cup Keys
  /\ Attempts \in Nat \ {0} /\ MaxRollbacks \in Nat

VARIABLES
  job,       \* push_jobs
  sub,       \* web_push_subscriptions
  ended,     \* sessions revoked or expired
  receipts,  \* push_job_deliveries
  work,      \* the open transaction of each worker
  dead,      \* history: keys for which a provider answered 404 or 410
  dropped,   \* history: subscriptions last revoked by the user
  accepted,  \* history: the notices a provider accepted, counted
  rounds,    \* history: committed rounds of a job
  rollbacks, \* history: rounds of a job that were rolled back
  missed     \* history: the subscriptions the last round of a job left without a receipt

rowVars == <<job, sub, ended, receipts>>
history == <<dead, dropped, accepted, rounds, rollbacks, missed>>
vars == <<rowVars, work, history>>

-----------------------------------------------------------------------------

NoSubscription == [key |-> None, session |-> None, revoked |-> TRUE]
Idle == [job |-> None, todo |-> {}, pending |-> {}, receipts |-> {}, revoked |-> {}]

(* due stands for next_attempt_at, expired for expires_at. *)
Job == [status : {"none", "queued", "finished", "gone"}, attempts : 0..(Attempts - 1),
        due : BOOLEAN, expired : BOOLEAN]
Target == [id : Subscriptions, key : Keys]
Subscription == [key : Keys, session : Sessions, revoked : BOOLEAN]
Work == [job : Jobs \cup {None}, todo : SUBSET Target, pending : SUBSET Subscriptions,
         receipts : SUBSET Subscriptions, revoked : SUBSET Subscriptions]

TypeOK ==
  /\ job \in [Jobs -> Job]
  /\ sub \in [Subscriptions -> Subscription \cup {NoSubscription}]
  /\ ended \subseteq Sessions
  /\ receipts \subseteq Jobs \X Subscriptions
  /\ work \in [Workers -> Work]
  /\ \A v, w \in Workers : work[v].job = work[w].job => v = w \/ work[v].job = None
  /\ dead \subseteq Subscriptions \X Keys
  /\ dropped \subseteq Subscriptions
  /\ accepted \in [Jobs \X Subscriptions -> Nat]
  /\ rounds \in [Jobs -> Nat] /\ rollbacks \in [Jobs -> 0..MaxRollbacks]
  /\ missed \in [Jobs -> SUBSET Subscriptions]

Init ==
  /\ job = [j \in Jobs |-> [status |-> "none", attempts |-> 0, due |-> TRUE, expired |-> FALSE]]
  /\ sub = [s \in Subscriptions |-> NoSubscription]
  /\ ended = {} /\ receipts = {}
  /\ work = [w \in Workers |-> Idle]
  /\ dead = {} /\ dropped = {}
  /\ accepted = [x \in Jobs \X Subscriptions |-> 0]
  /\ rounds = [j \in Jobs |-> 0] /\ rollbacks = [j \in Jobs |-> 0]
  /\ missed = [j \in Jobs |-> {}]

-----------------------------------------------------------------------------
(* Messages, subscriptions and sessions *)

(* Once per message: a repeated insertion does nothing. *)
Enqueue(j) ==
  /\ job[j].status = "none"
  /\ job' = [job EXCEPT ![j].status = "queued"]
  /\ UNCHANGED <<sub, ended, receipts, work, history>>

(* An uncommitted revocation holds the row; the request waits. *)
Unlocked(s) == \A w \in Workers : s \notin work[w].revoked

Subscribe(s, k, x) ==
  /\ x \notin ended /\ Unlocked(s)
  /\ sub' = [sub EXCEPT ![s] = [key |-> k, session |-> x, revoked |-> FALSE]]
  /\ dropped' = dropped \ {s}
  /\ UNCHANGED <<job, ended, receipts, work, dead, accepted, rounds, rollbacks, missed>>

Unsubscribe(s) ==
  /\ sub[s] # NoSubscription /\ ended # Sessions /\ Unlocked(s)
  /\ sub' = [sub EXCEPT ![s].revoked = TRUE]
  /\ dropped' = dropped \cup {s}
  /\ UNCHANGED <<job, ended, receipts, work, dead, accepted, rounds, rollbacks, missed>>

SessionEnds(x) ==
  /\ x \notin ended
  /\ ended' = ended \cup {x}
  /\ UNCHANGED <<job, sub, receipts, work, history>>

-----------------------------------------------------------------------------
(* Time *)

RetryDue(j) ==
  /\ ~job[j].due
  /\ job' = [job EXCEPT ![j].due = TRUE]
  /\ UNCHANGED <<sub, ended, receipts, work, history>>

JobExpires(j) ==
  /\ job[j].status \in {"queued", "finished"} /\ ~job[j].expired
  /\ job' = [job EXCEPT ![j].expired = TRUE]
  /\ UNCHANGED <<sub, ended, receipts, work, history>>

(* The purge deletes the receipts with the job, and waits for its row. *)
Purge(j) ==
  /\ job[j].status \in {"queued", "finished"} /\ job[j].expired
  /\ \A w \in Workers : work[w].job # j
  /\ job' = [job EXCEPT ![j].status = "gone"]
  /\ receipts' = {x \in receipts : x[1] # j}
  /\ UNCHANGED <<sub, ended, work, history>>

-----------------------------------------------------------------------------
(* The worker *)

Free(j) == \A w \in Workers : work[w].job # j

Due(j) == job[j].status = "queued" /\ job[j].due /\ ~job[j].expired

(* What the query of subscriptions answers. *)
Listed(j) ==
  {t \in Target : /\ sub[t.id].key = t.key /\ ~sub[t.id].revoked
                  /\ sub[t.id].session \notin ended
                  /\ <<j, t.id>> \notin receipts}

(* allowed: still a participant and, for an offer, still unanswered, to a user *)
(* without a socket, in a conversation that may use it.                        *)
Claim(w, j, allowed) ==
  /\ work[w] = Idle
  /\ Due(j) /\ Free(j)
  /\ work' = [work EXCEPT ![w] = [Idle EXCEPT !.job = j,
                                              !.todo = IF allowed THEN Listed(j) ELSE {}]]
  /\ UNCHANGED <<rowVars, history>>

Called(w, t) ==
  /\ work[w].job # None /\ t \in work[w].todo
  /\ ~job[work[w].job].expired

Accepted(w, t) ==
  /\ Called(w, t)
  /\ work' = [work EXCEPT ![w].todo = @ \ {t}, ![w].receipts = @ \cup {t.id}]
  /\ accepted' = [accepted EXCEPT ![<<work[w].job, t.id>>] = @ + 1]
  /\ UNCHANGED <<rowVars, dead, dropped, rounds, rollbacks, missed>>

(* mutant: the subscription is revoked by its identifier *)
SameRow(t) == TRUE

SameKey(t) == sub[t.id].key = t.key

(* 404 or 410: an UPDATE of the same row waits for another worker's. *)
Gone(w, t) ==
  /\ Called(w, t)
  /\ SameKey(t) => Unlocked(t.id)
  /\ work' = [work EXCEPT ![w].todo = @ \ {t}, ![w].receipts = @ \cup {t.id},
                          ![w].revoked = IF SameKey(t) THEN @ \cup {t.id} ELSE @]
  /\ dead' = dead \cup {<<t.id, t.key>>}
  /\ UNCHANGED <<rowVars, dropped, accepted, rounds, rollbacks, missed>>

Failed(w, t) ==
  /\ Called(w, t)
  /\ work' = [work EXCEPT ![w].todo = @ \ {t}, ![w].pending = @ \cup {t.id}]
  /\ UNCHANGED <<rowVars, history>>

(* The job expires between two calls: the rest of the list is skipped. *)
Skip(w) ==
  /\ work[w].todo # {} /\ job[work[w].job].expired
  /\ work' = [work EXCEPT ![w].todo = {}]
  /\ UNCHANGED <<rowVars, history>>

(* mutant: one attempt fewer *)
MayRetryLess(j) == job[j].attempts + 2 < Attempts

MayRetry(j) == job[j].attempts < Attempts - 1

(* attempts < 4: another round, or the last one. *)
Outcome(w, j) ==
  IF work[w].pending # {} /\ MayRetry(j)
  THEN [job[j] EXCEPT !.attempts = @ + 1, !.due = FALSE]
  ELSE [job[j] EXCEPT !.status = "finished"]

(* mutant: the receipts are written once nothing is pending *)
ReceiptsWhenDone(w) == IF work[w].pending = {} THEN work[w].receipts ELSE {}

Receipts(w) == work[w].receipts

Commit(w) ==
  LET j == work[w].job IN
  /\ j # None /\ work[w].todo = {}
  /\ job' = [job EXCEPT ![j] = Outcome(w, j)]
  /\ receipts' = receipts \cup {<<j, s>> : s \in Receipts(w)}
  /\ sub' = [s \in Subscriptions |-> IF s \in work[w].revoked
                                     THEN [sub[s] EXCEPT !.revoked = TRUE] ELSE sub[s]]
  /\ work' = [work EXCEPT ![w] = Idle]
  /\ rounds' = [rounds EXCEPT ![j] = @ + 1]
  /\ missed' = [missed EXCEPT ![j] = work[w].pending]
  /\ UNCHANGED <<ended, dead, dropped, accepted, rollbacks>>

(* A process that dies, a lock that is not obtained, a database that is lost. *)
Rollback(w) ==
  LET j == work[w].job IN
  /\ j # None /\ rollbacks[j] < MaxRollbacks
  /\ work' = [work EXCEPT ![w] = Idle]
  /\ rollbacks' = [rollbacks EXCEPT ![j] = @ + 1]
  /\ UNCHANGED <<rowVars, dead, dropped, accepted, rounds, missed>>

-----------------------------------------------------------------------------

Next ==
  \/ \E j \in Jobs : Enqueue(j) \/ RetryDue(j) \/ JobExpires(j) \/ Purge(j)
  \/ \E s \in Subscriptions : Unsubscribe(s) \/ \E k \in Keys, x \in Sessions : Subscribe(s, k, x)
  \/ \E x \in Sessions : SessionEnds(x)
  \/ \E w \in Workers :
       \/ \E j \in Jobs, allowed \in BOOLEAN : Claim(w, j, allowed)
       \/ \E t \in Target : Accepted(w, t) \/ Gone(w, t) \/ Failed(w, t)
       \/ Skip(w) \/ Commit(w) \/ Rollback(w)

Spec == Init /\ [][Next]_vars

-----------------------------------------------------------------------------
(* Properties *)

(* A subscription gets a notice at most once, except for what a rollback after *)
(* the call loses (DEC-83): neither a second worker, nor the retry of a round  *)
(* in which another subscription failed, nor registering again repeats it.     *)
PushedOncePerRollback ==
  \A j \in Jobs, s \in Subscriptions : accepted[<<j, s>>] <= 1 + rollbacks[j]

(* Only the user or its own provider revokes a subscription: an answer 410     *)
(* that concerns the keys of before a renewal does not cut off the new ones.   *)
OnlyDeadKeysAreRevoked ==
  \A s \in Subscriptions :
    sub[s] # NoSubscription /\ sub[s].revoked /\ s \notin dropped
      => <<s, sub[s].key>> \in dead

(* A notice some provider refused is given up after five rounds and not        *)
(* before, and no job has more rounds than that.                               *)
GivenUpAfterAllAttempts ==
  \A j \in Jobs :
    /\ rounds[j] <= Attempts
    /\ job[j].status = "finished" /\ missed[j] # {} => rounds[j] = Attempts
=============================================================================
