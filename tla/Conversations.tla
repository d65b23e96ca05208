---------------------------- MODULE Conversations ----------------------------
(* Invitation codes, redemptions and the transitions of a conversation as      *)
(* the transactions they are: each takes row locks one by one (FOR UPDATE,     *)
(* FOR NO KEY UPDATE, the KEY SHARE of a foreign key), decides on what it      *)
(* reads under them (READ COMMITTED), and shows its writes when it commits.    *)
(* The transactions of other modules on the same rows (sends, ballots, the     *)
(* worker, changes and deletion of an account) are here for their locks.       *)
(* Sessions, keys and rate limits are a transaction that rolls back; the rows  *)
(* of sessions, keys, push jobs and transfers are left out.                    *)
EXTENDS Integers, Sequences, FiniteSetsExt

CONSTANTS
  Users,             \* their UUIDs, for the order of the locks
  Transactions,      \* as many as may be open at once
  MaxGeneration,     \* 0xFFFFFFFF in the code
  Movers,            \* users who regenerate codes, delete the account, have or set an address not verified
  CreatedAs,         \* modes of the codes that are redeemed
  MaxInvitations, MaxConversations    \* bounds of the instance, as are Movers and CreatedAs

ASSUME UsersAssumption == Users \subseteq Nat \ {0} /\ IsFiniteSet(Users)
ASSUME MoversAssumption == Movers \subseteq Users
ASSUME CreatedAsAssumption == CreatedAs \subseteq {"ephemeral", "stored"}
ASSUME GenerationAssumption == MaxGeneration \in Nat \ {0}

VARIABLES
  alive,       \* users with a row
  verified,    \* users.email_verified
  inv,         \* rows of invitations, by order of insertion
  conv,        \* rows of conversations with their members
  txn          \* open transactions: what they do, hold and have read

vars == <<alive, verified, inv, conv, txn>>

Codes       == {"get_codes", "regenerate"}
Transitions == {"accept", "upgrade", "close", "leave"}
OnUser      == {"address", "delete"}
OfWorker    == {"resolve", "reconcile"}
InRoom      == Transitions \cup {"send", "cast", "ack"}
Modes       == {"ephemeral", "stored"}

Idle == [kind |-> "none", user |-> 0, of |-> 0, held |-> {}, current |-> {}, generation |-> 0,
         status |-> "none"]
Transaction(kind, user, of) == [Idle EXCEPT !.kind = kind, !.user = user, !.of = of]

Owned(u)  == {i \in DOMAIN inv : inv[i].owner = u /\ inv[i].status # "gone"}
Active(u) == {i \in Owned(u) : inv[i].status = "active"}
Party(c)  == {conv[c].host, conv[c].guest}
-----------------------------------------------------------------------------
(* Locks of rows.  The messages of a user in a conversation (message_events    *)
(* and messages) count as one row, and so do the deliveries of a conversation: *)
(* transactions that take several of them in different orders are a pair the   *)
(* property below names, or share the lock of the conversation.                *)

User(u)         == <<"user", u>>
Invitation(i)   == <<"invitation", i>>
Conversation(c) == <<"conversation", c>>
Vote(c)         == <<"vote", c>>
Member(c, u)    == <<"member", <<c, u>>>>
Message(c, u)   == <<"message", <<c, u>>>>
Delivery(c)     == <<"delivery", c>>
Lock(rows, mode) == {<<r, mode>> : r \in rows}

(* KEY SHARE bars only FOR UPDATE; FOR NO KEY UPDATE bars itself too.          *)
Conflict(a, b) == a[1] = b[1] /\ ("update" \in {a[2], b[2]} \/ {a[2], b[2]} = {"no_key"})

(* mutant: a GET takes no lock *)
OwnRowUnlessGet(t, mode) == IF t.kind = "get_codes" THEN {} ELSE Lock({User(t.user)}, mode)

(* SELECT ... FROM users: the row of the caller, first of all.                  *)
OwnRow(t, mode) == Lock({User(t.user)}, mode)

(* mutant: host first *)
HostThenGuest(t) == <<inv[t.of].owner, t.user>>

(* ORDER BY id: guest and host, whichever comes first.                         *)
HostAndGuest(t) ==
  IF t.user < inv[t.of].owner THEN <<t.user, inv[t.of].owner>> ELSE <<inv[t.of].owner, t.user>>

(* Rows that a deletion or a purge reaches.                                    *)
Named(u)     == {c \in DOMAIN conv : u \in conv[c].by \/ conv[c].from \in Owned(u)}
Joined(u)    == {c \in DOMAIN conv : u \in Party(c)}
Messages(c)  == Lock({Message(c, u) : u \in Party(c)}, "update")
Contents     == UNION {Messages(c) \cup Lock({Delivery(c)}, "update") : c \in DOMAIN conv}

(* DELETE FROM users: what belongs to the account goes, and columns that name  *)
(* it or its invitations are cleared, in conversations of others too.  The     *)
(* order is that of the names of PostgreSQL's triggers, which a restore        *)
(* changes: here any, after the invitations, which nobody waits for.           *)
Cascade(u) ==
  Lock({Conversation(c) : c \in Named(u)}, "no_key")
  \cup Lock({Member(c, u) : c \in Joined(u)} \cup {Message(c, u) : c \in Joined(u)}
            \cup {Delivery(c) : c \in Joined(u)}, "update")

(* The statements of a transaction, each with the rows it locks.  A resolution *)
(* that erases nothing skips the last of its statements.                       *)
Locks(t) ==
  LET user    == OwnRow(t, "no_key")
      room    == Lock({Conversation(t.of)}, "update")
      vote    == Lock({Vote(t.of)}, "update")
      members == Lock({Member(t.of, u) : u \in IF t.kind = "leave" THEN {t.user} ELSE conv[t.of].members}, "no_key")
      answer  == Lock({Delivery(t.of)}, "no_key") IN
  CASE t.kind \in Codes ->
         <<OwnRow(t, "update"), Lock({Invitation(i) : i \in t.current}, "update")>>
    [] t.kind = "redeem" ->
         <<Lock({User(HostAndGuest(t)[1])}, "update"), Lock({User(HostAndGuest(t)[2])}, "update"),
           Lock({Invitation(t.of)}, "update")>>
    [] t.kind = "cast" \/ (t.kind = "accept" /\ t.status = "active") -> <<user, room, vote, Messages(t.of)>>
    [] t.kind = "leave" \/ (t.kind = "accept" /\ t.status # "active") -> <<user, room, members>>
    [] t.kind \in {"upgrade", "close"} -> <<user, room>>
    [] t.kind = "send"      -> <<user, room, Lock({User(u) : u \in conv[t.of].members}, "key_share")>>
    [] t.kind = "ack"       -> <<user, room, answer>>
    [] t.kind = "resolve"   -> <<room, vote, Messages(t.of)>>
    [] t.kind = "reconcile" -> <<room, answer>>
    [] t.kind = "purge"     -> <<Contents>>
    [] t.kind = "address"   -> <<OwnRow(t, "update")>>
    [] t.kind = "delete"    -> <<OwnRow(t, "update"), Lock({Invitation(i) : i \in Owned(t.user)}, "update"), Cascade(t.user)>>
    [] OTHER -> <<>>

(* The locks the running statement of p still waits for.                       *)
Wanted(p) ==
  LET locks == Locks(txn[p])
  IN UNION {locks[n] \ txn[p].held :
              n \in {m \in DOMAIN locks : \A k \in 1..(m - 1) : locks[k] \subseteq txn[p].held}}

Blocks(q, lock)  == \E l \in txn[q].held : Conflict(l, lock)
Has(t, row)      == \E l \in t.held : l[1] = row
-----------------------------------------------------------------------------
(* What a transaction reads, and what makes it give up *)

(* MAX(generation) + 1, or 0 when the current invitation is returned.          *)
NextGeneration(t) ==
  IF t.kind = "get_codes" /\ Active(t.user) # {} THEN 0
  ELSE 1 + Max({0} \cup {inv[i].generation : i \in Owned(t.user)})

(* mutant: the row of the conversation is read before its lock *)
StatusBeforeLock(t) ==
  IF t.of = 0 \/ t.kind = "redeem" THEN "none" ELSE IF t.held = {} THEN conv[t.of].status ELSE t.status

StatusUnderLock(t) == IF Has(t, Conversation(t.of)) THEN conv[t.of].status ELSE "none"

Read(t) ==
  LET codes == t.kind \in Codes /\ OwnRow(t, "update") \subseteq t.held
  IN [t EXCEPT !.current    = IF codes THEN Active(t.user) ELSE {},
               !.generation = IF codes THEN NextGeneration(t) ELSE 0,
               !.status     = StatusUnderLock(t)]

(* IdentityStore.authenticated and verified: upgrade, close and the others of  *)
(* _change and _access do not ask for a verified address.                      *)
KnownUser(t) ==
  Has(t, User(t.user)) =>
    t.user \in alive /\ (t.kind \in Codes \cup {"redeem", "send"} => t.user \in verified)

(* mutant: only the host is read again *)
StillOfferedByHost(t) ==
  t.kind = "redeem" /\ Has(t, Invitation(t.of)) => inv[t.of].owner \in alive \cap verified

(* redeem, once it holds the users and the invitation: the host may have       *)
(* changed the address, the code may have been regenerated.                    *)
StillOffered(t) ==
  t.kind = "redeem" /\ Has(t, Invitation(t.of)) =>
    inv[t.of].status = "active" /\ inv[t.of].owner \in alive \cap verified

(* accept marks the members it counted. *)
Marking(t) == \E u \in Party(t.of) : Has(t, Member(t.of, u))

(* ConversationStore.lock, and what each transition asks of the row.  accept   *)
(* counts the members before it locks their rows: a deletion may commit in     *)
(* between.  A send whose recipient goes meanwhile has nobody to lock, and     *)
(* ends.                                                                       *)
Permitted(t) ==
  t.kind \in InRoom /\ Has(t, Conversation(t.of)) =>
    LET c == conv[t.of] IN
    /\ t.user \in c.members
    /\ t.kind \in {"accept", "upgrade"} => c.host = t.user
    /\ t.kind = "accept"  => \/ t.status = "active"
                             \/ t.status = "pending" /\ (Cardinality(c.members) = 2 \/ Marking(t))
    /\ t.kind = "upgrade" => t.status = "active"
    /\ t.kind = "send"    => t.status # "closed" /\ Cardinality(c.members) = 2

Admitted(t) == KnownUser(t) /\ StillOffered(t) /\ Permitted(t) /\ t.generation <= MaxGeneration
-----------------------------------------------------------------------------
Init ==
  /\ alive = Users /\ verified \in {v \cup (Users \ Movers) : v \in SUBSET Movers}
  /\ inv = <<>> /\ conv = <<>>
  /\ txn = [p \in Transactions |-> Idle]

(* What may be asked.  redeem has read the invitation without a lock: it       *)
(* exists, and is of another user.  A vote is named once it exists.  cleanup_once *)
(* gives up when another purge has the advisory lock.                          *)
Requested ==
  {Transaction("get_codes", u, 0) : u \in alive}
  \cup {Transaction(kind, u, 0) : kind \in {"regenerate", "address", "delete"}, u \in alive \cap Movers}
  \cup {Transaction("redeem", u, i) : u \in alive, i \in {j \in DOMAIN inv : inv[j].status # "gone"}}
  \cup {Transaction(kind, u, c) : kind \in InRoom, u \in alive, c \in DOMAIN conv}
  \cup {Transaction(kind, 0, c) : kind \in OfWorker, c \in DOMAIN conv}
  \cup {Transaction("purge", 0, 0)}

(* transaction() opens. *)
Begin(p) ==
  /\ txn[p] = Idle
  /\ \E t \in Requested :
       /\ t.kind = "redeem" => inv[t.of].owner # t.user
       /\ t.kind \in {"cast", "resolve"} => conv[t.of].accepted
       /\ t.kind = "purge" => \A q \in Transactions : txn[q].kind # "purge"
       /\ txn' = [txn EXCEPT ![p] = Read(t)]
  /\ UNCHANGED <<alive, verified, inv, conv>>

(* A statement gets a row, and the code looks at what it read; an error closes *)
(* the transaction, which releases its locks.                                  *)
Acquire(p) ==
  /\ \E lock \in Wanted(p) :
       /\ \A q \in Transactions \ {p} : ~ Blocks(q, lock)
       /\ LET t == Read([txn[p] EXCEPT !.held = @ \cup {lock}])
          IN txn' = [txn EXCEPT ![p] = IF Admitted(t) THEN t ELSE Idle]
  /\ UNCHANGED <<alive, verified, inv, conv>>

(* A cancelled request, lock_timeout, statement_timeout, a victim chosen by    *)
(* PostgreSQL, or an error this module leaves out.                             *)
Rollback(p) ==
  /\ txn[p] # Idle
  /\ txn' = [txn EXCEPT ![p] = Idle]
  /\ UNCHANGED <<alive, verified, inv, conv>>

Commits(p, kinds) ==
  /\ txn[p].kind \in kinds
  /\ Wanted(p) = {}
  /\ txn' = [txn EXCEPT ![p] = Idle]

(* ConversationStore.codes *)
CommitCodes(p) ==
  /\ Commits(p, Codes)
  /\ LET t == txn[p] IN
     IF t.generation = 0 THEN UNCHANGED inv
     ELSE /\ Len(inv) < MaxInvitations
          /\ inv' = Append([i \in DOMAIN inv |-> IF i \in Active(t.user) THEN [inv[i] EXCEPT !.status = "revoked"]
                                                                         ELSE inv[i]],
                           [owner |-> t.user, generation |-> t.generation, status |-> "active"])
  /\ UNCHANGED <<alive, verified, conv>>

(* ConversationStore.create: the mode is the one written in the code.          *)
CommitRedeem(p) ==
  /\ Commits(p, {"redeem"})
  /\ Len(conv) < MaxConversations
  /\ LET t == txn[p] IN
     \E mode \in CreatedAs :
       conv' = Append(conv, [host |-> inv[t.of].owner, guest |-> t.user,
                             members |-> {inv[t.of].owner, t.user}, status |-> "pending", mode |-> mode,
                             accepted |-> FALSE, from |-> t.of, by |-> {}])
  /\ UNCHANGED <<alive, verified, inv>>

(* A second accept returns the vote, which it may have resolved.               *)
CommitAccept(p) ==
  /\ Commits(p, {"accept"})
  /\ LET t == txn[p] IN
     conv' = IF t.status = "pending" THEN [conv EXCEPT ![t.of].status = "active", ![t.of].accepted = TRUE] ELSE conv
  /\ UNCHANGED <<alive, verified, inv>>

(* Upgrading a stored conversation changes nothing.                            *)
CommitUpgrade(p) ==
  /\ Commits(p, {"upgrade"})
  /\ LET t == txn[p] IN
     conv' = IF conv[t.of].mode = "ephemeral" THEN [conv EXCEPT ![t.of].mode = "stored", ![t.of].by = @ \cup {t.user}]
             ELSE conv
  /\ UNCHANGED <<alive, verified, inv>>

Close(t, members) ==
  LET c == conv[t.of]
  IN [conv EXCEPT ![t.of] = [c EXCEPT !.members = members, !.status = "closed",
                                      !.by = c.by \cup IF c.status = "closed" THEN {} ELSE {t.user}]]

CommitClose(p) ==
  /\ Commits(p, {"close", "leave"})
  /\ LET t == txn[p] IN conv' = Close(t, IF t.kind = "leave" THEN conv[t.of].members \ {t.user} ELSE conv[t.of].members)
  /\ UNCHANGED <<alive, verified, inv>>

(* Their writes are the subject of EphemeralDelivery and GraceVote.            *)
CommitOther(p) ==
  /\ Commits(p, OfWorker \cup {"send", "cast", "ack", "purge"})
  /\ UNCHANGED <<alive, verified, inv, conv>>

(* update and verify_email: a new address is not verified until its code comes *)
(* back.                                                                       *)
CommitAddress(p) ==
  /\ Commits(p, {"address"})
  /\ verified' \in {verified \ {txn[p].user}, verified \cup {txn[p].user}}
  /\ UNCHANGED <<alive, inv, conv>>

CommitDelete(p) ==
  /\ Commits(p, {"delete"})
  /\ LET u == txn[p].user IN
     /\ alive' = alive \ {u}
     /\ verified' = verified \ {u}
     /\ inv' = [i \in DOMAIN inv |-> IF inv[i].owner = u THEN [inv[i] EXCEPT !.status = "gone"] ELSE inv[i]]
     /\ conv' = [c \in DOMAIN conv |->
                   [conv[c] EXCEPT !.members = @ \ {u}, !.by = @ \ {u},
                                   !.from = IF conv[c].from \in Owned(u) THEN 0 ELSE conv[c].from]]

Commit(p) ==
  \/ CommitCodes(p) \/ CommitRedeem(p) \/ CommitAccept(p) \/ CommitUpgrade(p)
  \/ CommitClose(p) \/ CommitOther(p) \/ CommitAddress(p) \/ CommitDelete(p)

Next == \E p \in Transactions : Begin(p) \/ Acquire(p) \/ Commit(p) \/ Rollback(p)

Spec == Init /\ [][Next]_vars
-----------------------------------------------------------------------------
(* Properties *)

(* A user has one invitation that works, the one of the greatest generation:   *)
(* the lock on the user serialises even the first two requests, which find no  *)
(* row to lock, so the unique index never refuses one.                         *)
OneActiveInvitation ==
  \A u \in Users : \A i \in Active(u) : \A j \in Owned(u) \ {i} :
    inv[j].status = "revoked" /\ inv[j].generation < inv[i].generation

(* A conversation is only created from a code that works at that moment, of a  *)
(* host whose account exists with a verified address: regenerating a code,     *)
(* changing the address or deleting the account never loses against a redeem   *)
(* that read the invitation before.                                            *)
CreatedFromWorkingCode ==
  [][\A c \in DOMAIN conv' \ DOMAIN conv :
       LET i == inv[conv'[c].from] IN
       /\ i.status = "active"
       /\ conv'[c].members \subseteq alive \cap verified
       /\ \A j \in Owned(i.owner) : inv[j].generation <= i.generation]_vars

(* A conversation goes from pending to active to closed, and from ephemeral to *)
(* stored: of two transitions that overlap, the later one decides on what the  *)
(* earlier one wrote.                                                          *)
Rank == [pending |-> 0, active |-> 1, closed |-> 2]

TransitionsNeverUndo ==
  [][\A c \in DOMAIN conv :
       /\ Rank[conv[c].status] <= Rank[conv'[c].status]
       /\ conv[c].mode = "stored" => conv'[c].mode = "stored"]_vars

(* Every circle of transactions that wait for each other contains one of the   *)
(* pairs below: a deletion, whose cascade takes rows in any order, with a      *)
(* transaction that takes two of them; a send, which takes a KEY SHARE of its  *)
(* recipient after the conversation, with a redemption; the purge, which takes *)
(* messages in any order, with a resolution that erases them.  Redemptions,    *)
(* transitions, codes, ballots and the worker never stop each other otherwise. *)
WaitsFor(p, q) == p # q /\ \E lock \in Wanted(p) : Blocks(q, lock)

Pair(a, b) ==
  \/ a = "delete" /\ b \in {"accept", "send", "cast", "ack", "resolve", "reconcile", "purge", "delete"}
  \/ a = "send"   /\ b = "redeem"
  \/ a = "purge"  /\ b \in {"accept", "cast", "resolve"}

CirclesNeedAPair ==
  \A S \in SUBSET Transactions :
    S # {} /\ (\A p \in S : \E q \in S : WaitsFor(p, q)) =>
      \E p, q \in S : p # q /\ Pair(txn[p].kind, txn[q].kind)
=============================================================================
