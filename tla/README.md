# ChatTemporal: TLA+ specifications

Temporary end-to-end encrypted chat: a FastAPI server (`src/python/chat/`), PostgreSQL for what
lasts, Redis for what does not, a worker process, and a web client (`src/web/public/`).
The specifications here are translated from the code at the lines `PROJECT.json` names for every
definition; `src/docs/DECISIONES.md` (DEC-nn) is quoted for intent only.

## 1. Inventory

| component | state | operations | talks to |
|---|---|---|---|
| Messaging (`messaging.py`, `persistence.py`, `realtime_redis.py`) | `message_events`, `messages`, `message_deliveries`; Redis attempts and ciphertexts | offer, ready, send, ack, status, history | both stores, Pub/Sub |
| Reconciliation (`reconciliation.py`) | none of its own | `reconcile_once`: every second, on disconnection, on accept, upgrade and close | both stores, Pub/Sub |
| Realtime sockets (`websocket_api.py`) | presence keys, one listener and one reader per socket | handshake, frames, listener, teardown | Messaging, Redis |
| Conversations (`conversations.py`, `conversation_store.py`) | `conversations`, members, invitation codes | redeem, accept, upgrade, close, leave, regenerate codes | Voting, Reconciliation |
| Voting and grace (`voting.py`, `vote_store.py`) | `votes`, electorate, ballots, `grace_messages_used` | open, ballot, resolve | history, worker |
| Identity (`identity*.py`) | accounts, sessions, refresh families, revocations, tickets | register, authenticate, recover, exchange, refresh, logout, verify, delete | sockets, main application |
| Transfers (`transfers.py`) | key blob of a replaced device and its grant | create, upload, download | Identity, web client |
| Recovery replay (`replay.py`) | sequence of a replay bound to two sockets | relay | sockets, web client |
| Push (`push.py`, `push_api.py`) | jobs, subscriptions | enqueue, send once, subscribe | Messaging, worker |
| Web client (`web/public/*.js`) | outbox, rooms, session, keys in memory | send, retry, handle, sync, refresh | the API |
| Worker (`worker.py`) | none | resolve votes, reconcile, purge, push | all stores |
| Server process, backups, resources, migrations, mail, metrics | | | |

### How the parts interact

* Every handler that changes a conversation takes its PostgreSQL row lock and keeps it to the
  commit. Redis is written **inside** that transaction and Pub/Sub **after** it. So a rollback can
  leave Redis ahead of PostgreSQL, and a crash can leave a notice unpublished.
* `send` of an ephemeral message uses **two** transactions: record the event, then hand out the
  ciphertext. Reconciler, status poll and close can run in between.
* Redis keeps no data over a restart. Everything that matters must come out right from PostgreSQL alone,
  and what Redis forgot must fail closed.
* Pub/Sub events go to every socket of a user; each listener filters.
* Votes are resolved by whoever comes first: worker, reader, late ballot, repeated accept.

### What is hard

Redis and PostgreSQL disagreeing after a rollback; the two-transaction send; acks racing
deadlines; late notices; a page that gives up before the server does; buffered frames of a
closed socket; two tabs of one recipient; upgrade, vote and close under open offers; ballots that commit
after the deadline; history read before the verdict is stored; refresh tokens reused after a lost
answer; duplicated uploads; replays cut in the middle; pushes repeated after a crash. The list with
lines and covering properties is `hazards` in `PROJECT.json`.

### What makes each component correct

* *Delivery*: one outcome, final; the sender is never told or shown something that turns out false;
  the ciphertext reaches only the bound socket, is never stored, and leaves Redis with the outcome;
  every delivery and every attempt ends.
* *Votes*: the verdict is the majority of the frozen electorate over timely ballots; a rejection
  erases grace messages for good; readers see the same before and after the resolution; the quota
  holds over purges and deletions; every vote ends.
* *Identity*: at most one live refresh token per family, reuse revokes it, nothing of a revoked
  session stays usable. *Transfers*: one blob per grant. *Replay*: gapless, in order, once.
  *Push*: a job that matters is sent or given up for a reason.
* *Conversations and invitations*: one code of a user works, a conversation comes only from a code that works
  at that moment, transitions never go back, and handlers do not stop each other by the order of their locks.
* *Web client*: what the page holds is of its last sign-in, it never spends a refresh token twice and never signs
  out of a session that lives; a room keeps the verdict it has shown, shows no rejected message, and has
  no hole between its cursor and its head.

## 2. Modules

| module | models | extends |
|---|---|---|
| `EphemeralDelivery` | offer/ready/send/ack/status, both loops of the reconciler, sockets and listener, the sender's outbox | |
| `DeliveryPromise` | abstract: recorded at most once, one outcome, announced truthfully | |
| `EphemeralDeliveryProofs` | types, outcome, ciphertext, memory of Redis, notices, the sender's page, and the refinement of `DeliveryPromise` | `EphemeralDelivery`, TLAPS |
| `MCDelivery` | its instances | `EphemeralDelivery` |
| `GraceVote` | grace quota, acceptance, ballots, resolution, erasure, history, purge, leaving and account deletion | |
| `GraceVoteProofs` | theorems about it | `GraceVote`, TLAPS |
| `MCGraceVote` | its instances | `GraceVote` |
| `Sessions` | accounts, verification of the address, sessions, refresh tokens, bootstrap tokens, upload permission | |
| `SessionSockets` | tickets, handshake, revocation listener and monitor of the sockets of those sessions | `Sessions` |
| `KeyTransfers` | the key blob a replaced device uploads for its successor | `Sessions` |
| `SessionsProofs` | theorems about the three | `SessionSockets`, `KeyTransfers`, TLAPS |
| `WebSession` | one page of the web client (`api.js`) against those sessions: sign-in, refresh, calls, uploaders, logout | `Sessions` |
| `WebSessionProofs` | theorems about the page | `WebSession`, `SessionsProofs` |
| `MCSessionSockets`, `MCKeyTransfers`, `MCWebSession` | their instances | |
| `Conversations` | codes, redemptions and transitions of conversations as transactions that take row locks one by one | |
| `ConversationsProofs` | theorems about them | `Conversations`, TLAPS |
| `Room` | a room of the page (`chat.js`): refresh, sync, `message.new`, the vote and its verdict | |
| `RoomProofs` | theorems about it | `Room`, TLAPS |
| `MCConversations`, `MCRoom` | their instances | |
| `Replay` | the sending loop, the script of `replay.py` and the receiving page of a recovery replay | |
| `PushQueue` | push jobs, receipts, subscriptions, and the transaction of a worker around its calls | |
| `ReplayProofs`, `PushQueueProofs` | theorems about them | the module named, TLAPS |
| `MCReplay`, `MCPushQueue` | their instances | |

### EphemeralDelivery and the code

* `row` is `message_events` joined with `message_deliveries`; `attempt` and `payload` are the two
  Redis keys of a message; `live` the presence keys. `frames` holds what a client wrote and the
  server has not handled, in no order and with no loss until the socket ends; `wire` every notice
  published so far, which a client may take late, twice, in any order or never.
* A handler is **one action**, because of the row lock. Its parameter `committed` is FALSE when the transaction
  rolls back after Redis was written. The second half of `send` is a set of actions of its own
  (`SendSettled`, `SendDisconnected`, `SendPayload`, `SendAborts`), enabled by `between`.
* Deadlines are a flag `due` that becomes true at any moment: the code compares clocks with
  instants only, and the row and the attempt carry the same instant once recorded.
* The reconciler collects candidates and re-reads each one under the lock, so one candidate is one action.
* `SocketEnds(c, clean)`: the `finally` block, or a process that dies and leaves presence to its TTL.
  `RedisLoss` empties Redis at any moment.
* `Refuse` stands for the answers that write nothing (rate limit, quota, closed, lost presence);
  it is allowed at any time, which only adds behaviours.
* The client acknowledges only what it could decrypt, hence the guard `<<c, m>> \in got` in `Ack`.
* The recipient's page is reduced to `ready` and `ack`; invitations, passwords and rooms are not there.

### GraceVote and the code

* The clock is explicit (`now`), because three deadlines are compared: the vote, the timestamps of
  ballots and messages, and the retention of 30 days.
* A ballot's timestamp is read by its INSERT, its commit may come later: `Cast` and `CastEnds`. In
  between the conversation is locked; only history, purge and the deletion of the other account run.
* The first acceptance is two actions as well, and not for its commit: it *counts* the participants (`Accept`), and stamps, marks
  and freezes whoever is left in later statements, each with its own snapshot (`AcceptEnds`). The deletion of the guest's account takes
  no lock the acceptance holds and may come in between; the electorate is then the host alone, whose yes is a majority. Every
  other handler is one action.
* `History` is the query of `persistence.py`: a *definition*, so that properties can compare what
  it answers before and after every step.
* Leaving closes the conversation. Deleting an account cascades over membership and messages sent,
  and leaves electorate and ballots alone (migrations 0004 and 0006).

### Sessions, sockets and transfers, and the code

* One account. Sessions are numbered in the order of `created_at`, which is the order of the row
  lock, so "the newest" of `transfer_predecessor` is the highest number. Refresh token `<<s, n>>` is the
  n-th of family s. Any token ever issued, and any code ever mailed, may be presented at any time:
  that stands for lost answers, retries and thieves alike.
* Every handler takes the row lock of the user before it reads what it decides on: one action. Two things are
  outside: the bootstrap mark, set in Redis before the transaction (`ConsumeBootstrap`, then `Exchange` or
  `ExchangeFails`), and the publication of revocations after it (`unpublished`, `Publish`).
* `committed` is FALSE when the provider took the message with the code and the transaction rolled back (DEC-38).
* `identity.py:176` compares addresses without their case; two addresses of the model differ in more than that.
* `revoke` marks sessions and tokens in one transaction, so one set (`revoked`) holds both. The worker's purge takes a
  session 30 days after it expired; deleting the account takes all rows.
* Time is a set of actions that may come whenever their rows exist: `SessionExpires`, `GrantExpires`,
  `CodeExpires`, `MarkLapses`, `DeadlinePasses`, `TicketExpires`.
* `SessionSockets` composes the sessions with the sockets: `PublishRevocation` is `Publish` together with
  its subscribers, some of which may be missed (`lost`, history). The handshake is split where the
  code awaits: subscribed, checked, accepted.
* `KeyTransfers` composes them with the script of `transfers.py`. The address of the account and the
  publication of revocations play no part in it and are left out of its next-state relation.
* What only feeds properties is marked as history: `origin`, `forgot`, `accused`, `presented`, `lost`, `read`.

### WebSession and the code

* The page (`tokens`, `fresh`, `refreshing`, `entry`, `uploaders`, `op`) and its requests in flight (`net`), composed with
  the handlers of `Sessions`: a request is served by one of them, once, at any time; its answer may be taken in any
  order or lost; after 15 s the page gives the request up and the server may serve it all the same.
* `api.js` numbers the generations of the page and compares. What the comparison tells is whether `clear()` ran since the request
  left: the flag `current` of the request, which `clear()` sets to FALSE on all of them.
* `op` is the operation `perform` admits. The refresh and the authorised calls are not under it: the chat runs in the background.
* `Elsewhere`: the other devices of the account, the worker, and time; they use sessions the page did not open, except for
  the purge and the expiry. `GrantExpires`, `MarkLapses` and Redis losses are the subject of the runs over `Sessions` and are left out.
* A refused request (quota, credential, a service that is down) is an error, as a lost one is (`Fails`).

### Conversations and the code

* One record per open transaction: what it does, the rows it holds and what it has read. `Locks` lists its statements in order, each
  with the rows it locks and the mode: `FOR UPDATE`, `FOR NO KEY UPDATE`, and the `KEY SHARE` that a foreign key takes on the users
  a delivery names. `Acquire` takes one row when nobody holds it in a mode that conflicts.
* The rows are those of users, invitations, conversations, votes, members, messages (`message_events` and `messages`) and deliveries. The
  messages of one sender in a conversation are one row, and so are the deliveries of a conversation: who takes several of them does so
  under the conversation, or is in a pair of `CirclesNeedAPair` anyway. `ack` stands also for `ready` and the second half of a send
  (user, conversation, delivery), `reconcile` for the status poll (conversation, delivery), `cast` for every read of a vote, `resolve` for
  the worker's.
* Deleting an account locks the user, its invitations, and then what `ON DELETE CASCADE` and `SET NULL` reach (`Cascade`): its members,
  messages and deliveries, and the conversations that name it or its invitations. The triggers run in the order of their names, which hold
  a number given at their creation, anew by a restored dump: the model takes the rows of the cascade in any order, after the
  invitations, for which nobody waits.
* A count of members is a read without a lock: `accept` counts before it marks (`Marking`), and a member may go in between.
* What a transaction decides on is read under its locks (READ COMMITTED): `Read` fills `current`, `generation` and `status`
  once the row that protects them is held, and `Admitted` is what the code asks of them; if it does not hold, the transaction ends.
* `Commit*` writes everything at once and releases. `Rollback` may come at any moment: a cancelled request, a timeout, or the victim
  PostgreSQL chooses in a deadlock, which the client sees as 503.
* Sends, acks, ballots, the worker with its purge, and changes of address are here for their locks, and because a redemption
  asks for verified addresses; what else they write is in the other modules.
* Left out: the rows of sessions, keys, transfers and push jobs, and a statement that waits for the commit of a rival with the same key
  (a unique index); these rows are taken under their user or by one worker.
* Users are numbers, because `redeem` locks guest and host in the order of their UUIDs.

### Room and the code

* The server answers a request from what it holds then (`AnswerLoad`, `AnswerSync`); the page applies the answer later
  (`LoadVote`, `LoadPage`, `SyncVote`, ...), or the request fails. `loadRoom` is serialised with itself (`room.loading`), `sync` with
  itself, and neither with the other.
* `message.new` does not say whether the message is of grace; the page compares its time with the acceptance it knows of
  (`HandleNew`). A page of history does say it (`ReceivePage`).
* `AnswersAreRecent`: a vote lasts 30 s and a request of the page 15 s, so no answer read before the acceptance is applied after
  the verdict.
* The verdict stands for the deadline: `Persistence.history` counts an overdue vote as its resolution will (`GraceVote` shows they agree).
* Left out: messages of one's own, the cap of 500, expiry, ephemeral rooms, which have no history, and the removal of rooms.

### Replay and the code

* Two pages. What one keeps when a loop starts is any list of `Copies[r]`, in the order of time (`chat.js:304`).
  The loop walks that list, whatever happens to its frames: no answer reaches it.
* `frames` is what the server has not read of each sender's socket, `queue` what the page has not handled of its
  own; both are sequences, because WebSocket, reader, Pub/Sub connection and `Chat.chain` keep the order. A frame is lost
  by a refusal (`Refuse`: any answer that changes nothing), or with its socket.
* A socket that ended, cleanly or not, is a presence key that may last (`PresenceEnds`). The page
  still handles what its closed socket had received, until it opens the next (`this.ws !== ws`).
* `SenderCloses` ends the loops as well: they transmit again within 60 ms and fail, the reconnection waits a second.
* Nothing is relayed while a vote is open, so the verdict is fixed when the model starts; the page
  learns it whenever its refresh answers (`PageLearns`). `Grace` is what it holds to be before the acceptance.
* A message the page cannot decrypt is a `PageRefuses`, possible for any item. Items the sender received by
  an earlier replay are not copied, and the ids of the others are those of the server: messages are a set.

### PushQueue and the code

* One transaction per job: `Claim` (row locked, subscriptions read), one call after another
  (`Accepted`, `Gone`, `Failed`), then `Commit` or `Rollback`. `work` is what the transaction has not committed; other
  transactions do not see it, but wait for its row locks (`Unlocked`, `Free`).
* A subscription is a row per endpoint; registering it again renews its keys and its session. Which keys
  a call used is in `Target`.
* `allowed` stands for membership, the phase of the offer, presence and the conversation: any answer.
* Deleting an account, or purging a session, cascades over jobs and subscriptions and is left out.
* `accepted`, `rounds`, `rollbacks`, `missed`, `dead` and `dropped` are history.

## 3. Runs

| run | instance | question |
|---|---|---|
| `delivery_reconnect` | 1 message, 2 sender sockets, 1 recipient socket | are the notices and the page ever contradicted; does the protocol implement `DeliveryPromise` |
| `delivery_tabs` | 1 message, 1 sender socket, 2 recipient sockets, `FairSpec` | who reads the ciphertext, when is it erased, is the outcome final, does every delivery and every attempt end |
| `delivery_forward` | 1 message, 1 + 1 sockets, violation expected | the claim of `websocket_api.py:204`, for a ciphertext the reconciler has deleted |
| `grace_vote` | 2 messages, quota 1, `FairSpec` | verdict (also when the guest's account goes during the acceptance), erasure, quota, silence during the vote, history; does every vote end |
| `session_sockets` | 1 socket, 2 sessions, 2 codes, 2 addresses, `FairSocketsSpec` | is a socket told that its session ended; does it close when it is not told; is an address verified by its own code |
| `key_transfers` | 3 sessions, 2 bootstrap tokens, 1 transfer, 2 blobs | whose key is downloaded; what may a bootstrap token open |
| `web_session` | 2 sessions of 2 tokens, 2 requests, 1 bootstrap token | what does the page hold; is it ever taken for a thief; what signs it out; is a refresh refused after a revocation |
| `replay` | 2 replays of 2 and 1 messages, 2 + 2 sockets, 500 is 2 | does the page show a whole copy or nothing; does rejected grace stay out |
| `push_queue` | 1 job, 2 workers, 2 subscriptions, 2 keys, 2 sessions, 3 attempts, 1 rollback | is a notice repeated, given up early, or a renewed subscription cut off |
| `transactions` | 2 users (one may regenerate codes, change the address and delete the account), ephemeral codes, 2 transactions at once, 2 generations, 2 invitations, 1 conversation | one working code; creation against regeneration, change of address and deletion; transitions; who waits for whom in a circle |
| `room` | 3 messages in pages of 1, `FairSpec` | does a verdict stay; do rejected messages stay out; where may a hole be; does a rejection reach a room that is not selected |
| `room_gap` | same, violation expected | the claim of `chat.js:66` |

**Bounds.** One message suffices for delivery: no handler reads the state of another message,
and what messages share (presence, conversation, Redis loss) is unrestricted. Two sockets on one side give a
reconnection (sender) or two tabs (recipient), separately because the two questions do not meet.
Nothing else is bounded: sets of notices and frames make the space finite. Sockets of one side are
interchangeable, so `delivery_reconnect` uses symmetry; runs with a liveness property use none. For votes, a quota of one
and a second message reach the limit and one past it; a vote of two ticks on a clock of four leaves instants before, during,
at and after the deadline; retention 3 makes a grace message age out after the vote. The clock stops at `MaxTime`, so
this run does not check deadlock.

Sessions: two sessions are one and its replacement, two tokens let a family rotate once, so
that a used token is presented before and after its successor; two codes cover a registration and a change or a failed
registration and a good one. Transfers need three sessions, since a wrong predecessor is at
least two exchanges old, and one token per family, since transfers look at sessions only. One socket suffices: sockets share
nothing but their sessions. Two requests let an answer be of an earlier generation than the other. The bounds `MaxSessions`,
`MaxTokens` and `MaxCodes` stop the account after a number of logins, rotations and messages, so deadlock is not checked in these runs.

Transactions: two, because what one may do to another needs the two; a circle of three that contains no circle of two
is outside the instance, and is the subject of the theorem. `Movers` bounds who may regenerate codes, set an address or delete the account:
one user does, as host or as guest, so that the other's row is fixed; both redeem, have codes and use the room. `CreatedAs` is the mode of the
codes: a conversation begins ephemeral, and is stored once it is upgraded. Two generations and two invitations regenerate a code once and reach the end of the 32-bit generation
(`MaxGeneration`); one conversation suffices, since no handler reads two. Once the rows are used up only rolled-back
transactions remain, so deadlock is not checked. Room: with pages of one message, three messages are a head, a page and the page before
the cursor; the page's own state is finite, and the run checks deadlock.

Replays: two, so that one interrupts the other; two sockets on each side are a reconnection of either, or a second
tab of the recipient that a replay goes to instead. Two items have a gap, a swap and a
short count. `Capacity` 2 makes three messages reach the cap. `Backlog` 1 is what each socket may carry unread: since
both ends read one frame at a time, more only delays them. Push: two workers and one job contend for one row (jobs share nothing
but subscriptions, and two of those let one fail while the other succeeds); two keys are a renewal;
three attempts stand for five. Both systems stop when replays and jobs are used up, so deadlock is not checked.

The runs do not repeat the type invariants: those of the modules with proofs are theorems, for every value of the constants (section 4).

**Fairness.** The worker calls `reconcile_once` and `resolve_votes_once` every second and survives
their failures, so each is weakly fair in its committed form. Deadlines pass and clocks advance. A transaction in flight ends,
because statement and lock timeouts are set. The monitor of an open
socket wakes each second, and what it cannot ask closes the socket as well: weakly fair. The interval of five seconds of the page runs
and its requests end (`Sync`, `AnswerSync`), and they do not fail for ever (`SyncList`, `SyncVote`, strongly fair);
the refresh of a room is not fair, since a room that is not selected may never get one. Nothing else is fair: clients may vanish,
sockets and handlers may stop anywhere.

**The findings.** The comment at `websocket_api.py:204` says the listener does not forward ephemeral
ciphertext after its deletion. The listener looks in Redis and then waits for `send_lock` and
the socket; the deletion may happen in that gap, and the ciphertext still goes out. The run shows it with the deletion of
the reconciler: the deadline passes after the listener's checks, `reconcile_once` settles the row as expired and deletes attempt and
ciphertext, and the listener forwards what it had read. `NoForwardAfterDelete` counts only that: the row settled against delivery
and the attempt failed, not a ciphertext that Redis lost or let lapse. No harm to the
sender's view follows: the ack of such a message is refused.

The comment at `chat.js:66` says that after a cut the pages before the last known head are recovered as well. `loadRoom` sets
`room.head` to the newest message after the *first* page of a refresh (64) and reads the pages before the previous head afterwards. If
one of those fails, the next refresh meets its own head on its first page and stops (67): the messages in between are
not read by any refresh after it (`room_gap`). `NoHoleUnlessCut` shows that nothing else leaves such a hole.

**Noticed while modelling, not findings.** A *stored* message retried on a new socket may be
answered VOTE_OPEN while the frame buffered on the old socket is recorded later: the page shows it
failed although it is delivered; no document promises otherwise, so `SenderIsNeverMisled` speaks
of failures of ephemeral messages only. A ballot that commits after the deadline hides approved grace messages for an instant
and then shows them again: `HiddenGraceStaysHidden` excepts a ballot in flight.

The mark of a bootstrap token is given the life the token has left when the handler looks at
the clock, before it is set. A second request that passed the clock by then and is delayed
until the mark lapsed opens a second session: `BootstrapOpensOneSession` excepts marks that lapsed or were
lost with Redis. Deleting a transfer erases it in Redis before the commit: after a rollback the permission
stays, and the repeated request is answered 410 before it reaches it; it ends within 24 hours. After a recovery or
an exchange whose publication fails the answer is 503: the new session exists and nobody holds its tokens.

*Locks.* Some pairs of transactions may wait for each other, which PostgreSQL ends with an error: the server answers 503, the worker
tries again a second later (`CirclesNeedAPair`; DEC-55 and DEC-71 order the rest). No data is lost. They are a send, which takes `KEY SHARE`
on its recipient after the conversation, with a redemption by that recipient; the deletion of an account with whoever takes two of the rows of
its cascade (a send, a ballot, an ack, a second acceptance, another deletion, and the worker's resolution, reconciliation and purge); and the
purge with whoever erases rejected messages. The deletion takes members, messages, deliveries *and* conversations of others, without
locking the conversation first: a reconciliation holds the conversation and asks for the delivery, the deletion holds the delivery
and asks for the conversation to clear its invitation. Which of these a database shows depends on the order of its triggers: as the migrations
create them, conversations come before deliveries, and after a dump is restored the order may be the other. In the instance
every pair closes a circle alone, except two deletions (one user deletes) and a deletion with an acceptance: the host accepts, so the deletion that waits for the conversation
would be the guest's, and a conversation that may be accepted names no guest. The theorem does not use that, holds for any number of users who delete, and keeps both pairs.

*Electorate.* An account deleted between the redemption and the acceptance makes the acceptance fail with 409, and one deleted *during* the
acceptance, after its count, leaves an electorate of one: the yes of the host approves alone. `VerdictMatchesBallots` allows
exactly that: the verdict is the majority of whoever was frozen, and whoever still has an account was frozen.

*Room.* A page that does not know of the acceptance yet takes a message sent after the vote for grace; if the verdict it then
learns is a rejection, that message is taken out until its page of history is read again (`mistaken`).
*Web session.* The permission to upload of a replaced device ends with the page's session: `clear()` disposes it,
and any authorised call answered 401 runs `clear()`.

*Replay.* `PageShowsWholeCopies` trusts `Trim`: a send whose frame cannot be transmitted leaves `chat.js:245` before
it trims, so a room may keep 501 messages, and the 501st item of its replay is refused (286). Whether an item is a grace
message is judged from the time its sender wrote (288), for messages of its own its page's clock (233). A `begin` replaces
a replay in progress without notice. *Push.* Subscriptions are read before the first call, so a session
revoked during the calls may still get one notice, against the wording of DEC-82; an answer 410 for keys renewed meanwhile
writes a receipt too, so the new keys do not get that notice. Neither loses a message: notices carry none.

## 4. Proofs

For every set of messages, sockets, jobs and replays, every list a page may copy, every quota and every duration, from `Spec`:

| theorem | property | argument |
|---|---|---|
| `EphemeralDeliveryProofs!TypeCorrect` | `TypeOK` | inductive by itself |
| `OutcomesAreFinal` | `OutcomeIsFinal` | every write to a row is `Finish`, or needs a row that is absent or pending |
| `OnlyTheBoundSocketReads` | `CiphertextOnlyToBoundSocket` | `BindingInv`: a notice "new" names the connection of its row |
| `CiphertextIsErased` | `CiphertextOnlyWhileWaiting` | `PayloadInv`: between its transactions a message is ephemeral and not delivered by anyone |
| `EphemeralIsNeverStored` | `EphemeralNeverStored` | `MemoryInv`, below |
| `NoticesAreTrue` | `NoticesAreTruthful` | `DeliveryInv`, below |
| `ThePageIsRight` | `SenderIsNeverMisled` | the same invariant |
| `ThePromiseIsKept` | `PromiseIsKept` | every step concerns one message and is a `Record`, `Settle`, `Tell` or a stutter of it |
| `GraceVoteProofs!TypeCorrect` | `TypeOK` | inductive by itself |
| `VerdictsAreRight` | `VerdictMatchesBallots` | `VoteInv`, below |
| `RejectionErases`, `SilenceWhileVoting` | `RejectedGraceIsErased`, `NothingSentWhileVoting` | the same invariant |
| `QuotaIsKept` | `QuotaHolds` | `QuotaInv` |
| `ReadersAreNotMisled`, `HiddenStaysHidden` | `VisibleGraceStays`, `HiddenGraceStaysHidden` | step by step from the same invariant |
| `GraceIsAPrefix` | the whole vote lies between the last grace message and the first other one | `GraceInv`: grace was sent before the vote began |
| `ServerOfTheRoom`, `HistoryOfTheRoom` | composition with `Room`, below | `VoteInv`; once decided, the count is fixed (`CountIsFixed`) |
| `SessionsProofs!TypeCorrect` | `TypeOK` of `Sessions` | needs that the predecessor is the newest session |
| `NewestOnly`, `GrantToReplaced` | `OnlyNewestSessionLives`, `GrantOnlyToReplaced` | `SessionInv`, below |
| `OneTokenPerFamily`, `RevocationIsFinal` | `OneUsableToken`, `NoRefreshAfterRevocation` | every token but the last is marked (`EarlierTokensAreUsed`); the accused are revoked |
| `BootstrapOnce` | `BootstrapOpensOneSession` | `BootstrapsAreRemembered` |
| `VerifiedAddressGotTheCode` | `VerifiedMeansMailed` | `CodeIsForAddress`: the code in force was mailed to the address in force |
| `SocketsTypeCorrect`, `RevocationReachesSockets` | `SocketsTypeOK`, `RevokedSocketIsTold` | a revocation joins the unpublished in the step that makes it; a check that passed saw no revocation |
| `TransfersTypeCorrect`, `KeysFromReplaced`, `OneBlobPerTransfer` | `TransfersTypeOK`, `KeysComeFromReplaced`, `DownloadsAgree` | `TransfersInv`, below |
| `TransfersImplementSessions`, `SocketsImplementSessions` | with transfers, or with sockets, every step is one of `Sessions` or none | none: ending a transfer is `GrantExpires` to the accounts |
| `PushQueueProofs!TypeCorrect` | `TypeOK` of `PushQueue` | a job is claimed only when no worker holds it |
| `NoticesAreNotRepeated` | `PushedOncePerRollback` | `AcceptedIsAnswered`, below |
| `RenewedKeysSurvive` | `OnlyDeadKeysAreRevoked` | a revocation that waits for its commit keeps the keys it is for |
| `AttemptsAreUsed` | `GivenUpAfterAllAttempts` | `RoundsAreAttempts`: a committed round of an unfinished job used one attempt |
| `ReplayProofs!TypeCorrect` | `TypeOK` of `Replay` | what survives the cap counts at most `Capacity`, from its least element |
| `NoGapReachesThePage` | `RelayIsGapless` | `Gapless`, below |
| `CopiesAreWhole` | `PageShowsWholeCopies` | `CollectedIsPrefix`, below, at the count the end carries |
| `RejectedStaysOut` | `RejectedGraceStaysOut` | both places the copies go through are filtered once the verdict is read |
| `RoomProofs!VerdictsAreKept` | `VerdictIsNotTakenBack` of `Room` | `RoomInv`, below |
| `RoomProofs!RejectedStaysOut` | `RejectedGraceStaysOut` of `Room` | the same invariant |
| `PagesHaveNoHole` | `NoHoleUnlessCut` | `PagesInv`, below |
| `CirclesAreKnown` | `CirclesNeedAPair` | `HeldInv`, below |
| `CodesAndVotesAreFree` | nobody waits for the row of a code or of a vote | `HeldInv`: it is locked under its owner, under its conversation |
| `WritesAreLocked` | a step writes only rows its transaction holds, members of conversations included | by `CommitHolds`, what each statement locked is held at the commit |
| `OneCodeWorks` | `OneActiveInvitation` | `ConversationsInv`, below |
| `TransitionsGoForward` | `TransitionsNeverUndo` | the same invariant: a commit decides on the status that is still in the row |
| `ConversationsFromWorkingCodes` | `CreatedFromWorkingCode` | the same invariant: users and code are as the redemption found them |
| `WebImplementsSessions` | a page in front of the server: every step is one of `Sessions` or none | types of the requests (`TypesInv`) |
| `WebTypeCorrect`, `LastSignInHeld` | `WebTypeOK`, `PageHoldsLastSignIn` | `PageInv`, below |
| `ExpelledFromDead` | `ExpelledOnlyFromDead` | `PageInv`: what is not authenticated never is again |
| `NeverAccused` | `PageNeverAccused` | `SpendInv`, below |

*Why `MemoryInv`.* That an ephemeral message is never stored is not inductive: Redis forgets the
attempt that would tell. What saves it is presence. Redis forgets everything at once, so if a
send still finds its own socket present, the attempt it was offered with is present too. The
invariant says so (`PresenceKeepsAttempt`), and needs to know that an unsent message is unknown
everywhere (`UnsentIsUnknown`), that the modes of page, frame and row agree while
the conversation is ephemeral (`ModesAgree`) and that a UUID of a socket is never reused (`SocketsWereOpened`).

*Why `DeliveryInv`.* A notice of failure is true for ever only if what it names can no longer be
delivered by anything in flight. `FailureIsFinal` says so through `Doomed`: the message failed, or it is
ephemeral, unrecorded, and neither an attempt, a frame nor the page itself can still record it.
That needs `FramesAreSentOnce` (one offer and one send per ephemeral message),
`CommitPrecedesPayload` (no ciphertext handed out before its commit), `DeliveryIsCommitted`, and `MemoryInv`.
The refinement then reads `fate` and `told` off the row and the notices; a step touches one message, so the
abstract step is that message's.

*Why `VoteInv`.* The verdict compares ballots with a deadline that has passed; the induction
needs that the electorate is the host and, unless the account went before the freeze, the guest, and that `eligible_members` is its size
(`ElectorateIsFrozen`), that while an acceptance is in flight nobody leaves and the host stays (`AcceptanceInFlight`), that every counted ballot is earlier than the
deadline (`BallotsInTime`), that a ballot in flight keeps the vote open (`FlightKeepsVoteOpen`), that the vote exists exactly when
the conversation was accepted (`VoteFollowsConversation`), and that a stored verdict belongs to the past
(`VerdictIsPast`). The quota has an invariant of its own, `QuotaInv`: types, the count and its finiteness.

*Why `SessionInv`.* That every row but the newest is revoked survives a creation only if the creation revokes
what has a row (`OnlyNewestSessionLives`), rows are numbered up to `created` (`RowsAreCreated`), and
registration, which revokes nothing, finds none (`NoAccountNoSession`). The number a new session
takes must not be revoked already (`RevokedWereCreated`). A bootstrap token that waits for its transaction
has opened nothing unless Redis forgot it.

*Why `TransfersInv`.* The key comes from the neighbour because a permission joins consecutive sessions
(`GrantJoinsNeighbours`), for the predecessor is the newest session or none; so a blob comes from its
target or the one before (`BlobIsFromNeighbour`). Downloads agree because as long as a transfer exists
everything read from it is what it still holds (`ReadsAreOfTheBlob`), and no UUID is given twice (`UsedIdsAreSpent`).

*Why `PushInv`.* A row alone does not say whether a subscription was pushed to: the receipt may still be in
an open transaction. So the invariant speaks of rows and transactions together (`Answered`): a subscription is in a
worker's list only while it has no receipt in either (`CallsAreUnanswered`), the job it belongs to is still queued
(`ClaimedJobsAreQueued`), and what was accepted and left no receipt was rolled back (`AcceptedIsAnswered`).

*Why `ReplayInv`.* That the next frame has the expected number says nothing of the frames behind it. `Gapless`
describes the whole queue: the first frame of the replay being collected is the expected one (`FirstIsExpected`),
consecutive frames of one replay follow each other (`FollowersFollow`), and the script expects what comes after the last it
published (`LastIsCounted`), which a page that reconnects escapes because no relay can be aimed at a socket that was not
yet open (`TargetsWereOpened`). That a copy is whole needs the content too: every frame is of the list its loop
walks (`FramesAreFaithful`), so what is collected is a prefix of it, less the rejected messages (`CollectedIsPrefix`).

*Why `RoomInv`.* That a rejection takes out every grace message needs the page to have marked it as one (`GraceIsMarked`), although the page
judges `message.new` by an acceptance it may not know of: it then errs on the side of grace. That a verdict stays needs
that no answer about the vote on its way is more than one change behind it (`AnswersAreTold`, from `AnswersAreRecent`): otherwise an
answer from before the acceptance would take the verdict back.

*Why `PagesInv`.* Between two pages of a refresh there is a hole, so the property speaks of the end of one only. `HoleIsBelowCursor`
says where the hole is: the refresh has read from the head down to its cursor, and below the old head nothing changed. A page joins the
two because it leaves nothing out between its cursor and the next (`PageIsWhole`), although messages are sent and erased between the
reading of the page and its use, and because only the first page moves head or cursor of the room (`PagesInOrder`). That the
invariant is lost with `cut` is the finding of `room_gap`.

*How the modules fit.* `KeyTransfers`, `SessionSockets` and `WebSession` extend `Sessions` with actions of their own; three theorems
(`TransfersImplementSessions`, `SocketsImplementSessions`, `WebImplementsSessions`) show that none of these does to the accounts what
`Sessions` does not, so what is proved of `Sessions` holds in front of each. `Room` has a server without a clock: one vote that is
none, open, then final, silence while it is open, grace messages first. `GraceVote` is where this is earned. `Seen` reads that vote off the rows, an overdue one as its
resolution will decide, and `ServerOfTheRoom` shows that its steps are those of `Room` and that a message is of grace exactly if it was sent before the acceptance;
`GraceIsAPrefix` gives the order `Room` numbers them in, and `HistoryOfTheRoom` that the history shows what `Room` says, except while a ballot cast in
time commits after the deadline: the history then leaves grace messages out that may be approved a moment later, and `Room` has no such moment. `WritesAreLocked` is one half of why handlers are single actions in
`EphemeralDelivery` and `GraceVote`: what a transaction writes, nobody else writes before it ends. It says nothing of what is only read. There the
condition is that the row which protects the reading is locked too; the members of a conversation are not such a case, because a deletion
does not lock the conversation, and this is why `GraceVote` splits the acceptance at its count. A send reads its recipient without a lock as
well, but a deletion that slips in leaves what one right after the send would (the delivery goes in cascade), so the send stays one action.

*Why `ConversationsInv`.* Nothing reads again before it commits. The properties hold because what a transaction read under a lock
(`ReadIsCurrent`, `StillAdmitted`) is still so: whoever changes a row had it `FOR UPDATE`, and such a lock admits no other on that row
(`LocksExclude`). A redemption relies on more than it reads last, since the verification of its users is in other rows: it
has locked both by the time it locks the code (`InOrder`). That the next generation is above all others needs only the code that works,
since every owner of a code has one (`OwnersHaveOne`) and it has the greatest (`OneActiveInvitation`).
That invariant does not use that users are locked in order: that is for progress.

*Why `HeldInv`.* Which transactions may wait for each other in a circle depends on what each holds when it waits. `HeldInv` says that
whatever a transaction holds is a lock of its kind, taken after those that `MayLock` puts before it, and that there is one purge at a time
(`OnePurge`, the advisory lock of `cleanup_once`); it is inductive because rows keep
their owner and none disappears (`RowsOnlyGrow`). Suppose a circle has none of the pairs. Nobody waits for a code or a vote: two transactions
that want one would both hold its owner, or its conversation, for update (`WaitedRows`). A purge waits only for who erases or deletes
(`NoPurge`), a send with a conversation only for its recipient, which a redemption or a deletion holds (`NoSend`), and a deletion
only for a conversation or what belongs to it, each held by one of its pairs, or by a leave, which never waits once it holds something below its
own user (`HeldByOutsider`, `LeaveNeverWaits`, `NoDeletion`). So nobody in the circle holds a conversation and waits
(`OddHoldsNoRoom`). All are then waiting for users, and who holds a user and waits for a user is a redemption with the lower id that
wants the higher one (`WaitsWithUser`): the users waited for would go up for ever, and they are finitely many (`LastUser`, which is
`UsersAssumption` and the well-founded order of finite subsets).

*Why `WebInv`.* `SessionInv` carries over because the page only moves the server by its handlers. What the page holds is of its last
sign-in because a request of the present generation is of the present session (`PageAsked`), at most one sign-in or logout is awaited
(`OneOperation`), and what an answer says stays true while it travels (`Truthful`): a session that ended does not come back. That the page is never accused is a
statement about tokens: a refresh token of the page that is still to be spent is in one place only, the page itself or one
request (`NoSharing`, `PageHoldsAlone`), and is unused (`AllSpendable`). A request the page gave up keeps its token, and the page has
signed out of it by then: had it only tried again, two would carry the same.

The constants' assumptions (`ConnectionsAreDistinct`, `GraceVoteConstants`, `SessionConstants`, `PushConstants`, `ReplayConstants`, `PageAssumption`, `UsersAssumption`, `MoversAssumption`, `CreatedAsAssumption`, `GenerationAssumption`) are all the proofs take for granted.

**Model-checked only.** What depends on fairness (`EverythingSettles`, `EveryVoteEnds`, `UnfitSocketsClose`, `RejectionReachesPage`): the
prover does not do liveness. Every other invariant and action property of the passing runs is proved.
`NoForwardAfterDelete` and `WholeRefreshLeavesNoHole` are the two that do not hold.

## 5. Plan

What interleaves is modelled. What is left, in this order:

1. `Backups`: files, their fsync and the retention of a week and four weeks against a reference over the whole history.
2. Pure algorithms: cursors of listings and the rate limit against reference definitions.

## 6. Not modelled

Cryptography (keys, envelopes, backup and push encryption): data no handler looks into. HTTP parsing,
configuration, mail, metrics, pages and layout: pure I/O. Migrations: schema, read where a cascade or
a key decides an action. `push.js`, `transfers-ui.js`, `keys.js`, the Python recovery client and the launcher: one request each, and browser
APIs. `bootstrap.js`: the window that hands the token over is a token the page comes to hold. Resources and listings other than
history: reads and single-row updates. Backups: one process under a lock, over files nobody else writes; later than what interleaves. The drain
of the server: its order is that of uvicorn and the event loop, which are not in the repository; what it leaves behind is a socket lost
without a word, which every module with sockets allows at any moment.

## 7. Running

`tlc -config DeliveryReconnect.cfg MCDelivery.tla` and so on for the runs of `PROJECT.json`;
`tlapm ConversationsProofs.tla`, and likewise for every module whose name ends in `Proofs`.
