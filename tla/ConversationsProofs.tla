-------------------------- MODULE ConversationsProofs --------------------------
(***************************************************************************)
(* Proofs about Conversations, for any users, any number of transactions   *)
(* at once and any bound: what a transaction read under its locks is still *)
(* so when it commits, what it writes it has locked, and which of them may *)
(* wait for each other in a circle.                                        *)
(***************************************************************************)
EXTENDS Conversations, FiniteSetTheorems, WellFoundedInduction, TLAPS

OnConversation == InRoom \cup OfWorker
OfUser         == Codes \cup InRoom \cup OnUser \cup {"redeem"}
Kinds          == OfUser \cup OfWorker \cup {"purge", "none"}

(* The record has its fields, so that an update of one of them reads as one. *)
Shape(t) ==
  t = [kind |-> t.kind, user |-> t.user, of |-> t.of, held |-> t.held, current |-> t.current,
       generation |-> t.generation, status |-> t.status]

TxnOK(t) ==
  /\ Shape(t)
  /\ t.kind \in Kinds
  /\ t.kind \in OfUser => t.user \in Users
  /\ t.kind = "redeem" => t.of \in DOMAIN inv
  /\ t.kind \in OnConversation => t.of \in DOMAIN conv

InvitationRows == [owner : Users, generation : 1..MaxGeneration, status : {"active", "revoked", "gone"}]

ConversationRows ==
  {c \in [host : Users, guest : Users, members : SUBSET Users, status : {"pending", "active", "closed"},
          mode : Modes, accepted : BOOLEAN, from : Nat, by : SUBSET Users] : c.members \subseteq {c.host, c.guest}}

RowsOK ==
  /\ alive \subseteq Users /\ verified \subseteq Users
  /\ inv \in Seq(InvitationRows) /\ conv \in Seq(ConversationRows)

TypesInv ==
  /\ RowsOK
  /\ DOMAIN txn = Transactions /\ txn = [p \in Transactions |-> txn[p]]
  /\ \A p \in Transactions : TxnOK(txn[p])

(* Who has had a code has one that works. *)
OwnersHaveOne == \A u \in Users : Owned(u) # {} => Active(u) # {}

(* Two transactions never hold a row in modes that conflict. *)
LocksExclude ==
  \A p, q \in Transactions : p # q =>
    \A l \in txn[p].held, m \in txn[q].held : ~ Conflict(l, m)

(* What a transaction locked exists; a redemption locks the users first. *)
InOrder(t) ==
  /\ \A c : Has(t, Conversation(c)) => c \in DOMAIN conv
  /\ t.kind = "redeem" /\ Has(t, Invitation(t.of)) =>
       {<<User(t.user), "update">>, <<User(inv[t.of].owner), "update">>} \subseteq t.held

(* What a transaction read under its locks is still so: the code decides on it *)
(* without reading again.                                                      *)
ReadIsCurrent(t) == Read(t) = t

StillAdmitted(t) == KnownUser(t) /\ StillOffered(t) /\ t.generation <= MaxGeneration

ConversationsInv ==
  /\ TypesInv
  /\ OwnersHaveOne
  /\ OneActiveInvitation
  /\ LocksExclude
  /\ \A p \in Transactions : InOrder(txn[p])
  /\ \A p \in Transactions : ReadIsCurrent(txn[p])
  /\ \A p \in Transactions : StillAdmitted(txn[p])

-----------------------------------------------------------------------------
(* Reading *)

LEMMA ReadIs ==
  ASSUME NEW t, Shape(t)
  PROVE  /\ Shape(Read(t))
         /\ Read(t).kind = t.kind /\ Read(t).user = t.user /\ Read(t).of = t.of /\ Read(t).held = t.held
         /\ Read(t).current = IF t.kind \in Codes /\ OwnRow(t, "update") \subseteq t.held THEN Active(t.user) ELSE {}
         /\ Read(t).generation = IF t.kind \in Codes /\ OwnRow(t, "update") \subseteq t.held
                                 THEN NextGeneration(t) ELSE 0
         /\ Read(t).status = StatusUnderLock(t)
<1>. DEFINE codes == t.kind \in Codes /\ OwnRow(t, "update") \subseteq t.held
            c == IF codes THEN Active(t.user) ELSE {}
            g == IF codes THEN NextGeneration(t) ELSE 0
            s == StatusUnderLock(t)
<1>1. Read(t) = [t EXCEPT !.current = c, !.generation = g, !.status = s]
  BY DEF Read
<1>2. t = [kind |-> t.kind, user |-> t.user, of |-> t.of, held |-> t.held, current |-> t.current,
           generation |-> t.generation, status |-> t.status]
  BY DEF Shape
<1>. HIDE DEF c, g, s
<1>3. Read(t) = [kind |-> t.kind, user |-> t.user, of |-> t.of, held |-> t.held, current |-> c,
                 generation |-> g, status |-> s]
  BY <1>1, <1>2
<1>4. Shape(Read(t))
  BY <1>3 DEF Shape
<1>. QED BY <1>3, <1>4 DEF c, g, s

LEMMA ReadTwice ==
  ASSUME NEW t, Shape(t)
  PROVE  ReadIsCurrent(Read(t))
<1>. DEFINE r == Read(t)
<1>1. /\ Shape(r) /\ r.kind = t.kind /\ r.user = t.user /\ r.of = t.of /\ r.held = t.held
      /\ r.current = IF t.kind \in Codes /\ OwnRow(t, "update") \subseteq t.held THEN Active(t.user) ELSE {}
      /\ r.generation = IF t.kind \in Codes /\ OwnRow(t, "update") \subseteq t.held THEN NextGeneration(t) ELSE 0
      /\ r.status = StatusUnderLock(t)
  BY ReadIs
<1>. HIDE DEF r
<1>2. OwnRow(r, "update") = OwnRow(t, "update") /\ NextGeneration(r) = NextGeneration(t)
      /\ StatusUnderLock(r) = StatusUnderLock(t)
  BY <1>1 DEF OwnRow, NextGeneration, StatusUnderLock, Has
<1>3. /\ Shape(Read(r)) /\ Read(r).kind = r.kind /\ Read(r).user = r.user /\ Read(r).of = r.of /\ Read(r).held = r.held
      /\ Read(r).current = r.current /\ Read(r).generation = r.generation /\ Read(r).status = r.status
  BY <1>1, <1>2, ReadIs
<1>4. Read(r) = r
  BY <1>1, <1>3 DEF Shape
<1>. QED BY <1>4 DEF ReadIsCurrent, r

(* The next generation is one more than that of the code that works. *)
LEMMA GenerationIs ==
  ASSUME TypesInv, OwnersHaveOne, OneActiveInvitation, NEW t, t.user \in Users,
         ~(t.kind = "get_codes" /\ Active(t.user) # {})
  PROVE  /\ NextGeneration(t) \in Nat \ {0}
         /\ \A i \in Owned(t.user) : inv[i].generation < NextGeneration(t)
<1>. DEFINE G == {inv[i].generation : i \in Owned(t.user)}
<1>1. G \subseteq Nat
  <2>1. \A i \in Owned(t.user) : inv[i] \in InvitationRows
    BY DEF TypesInv, RowsOK, Owned
  <2>. QED BY <2>1, GenerationAssumption DEF InvitationRows
<1>2. \E g \in {0} \cup G : \A n \in {0} \cup G : g >= n
  <2>1. CASE Owned(t.user) = {}
    BY <2>1
  <2>2. CASE Owned(t.user) # {}
    <3>1. PICK i \in Active(t.user) : TRUE
      BY <2>2 DEF OwnersHaveOne
    <3>2. \A j \in Owned(t.user) : inv[j].generation <= inv[i].generation
      <4>1. \A j \in Owned(t.user) \ {i} : inv[j].generation < inv[i].generation
        BY <3>1 DEF OneActiveInvitation
      <4>. QED BY <1>1, <3>1, <4>1 DEF Active
    <3>3. inv[i].generation \in G
      BY <3>1 DEF Active
    <3>4. \A n \in {0} \cup G : inv[i].generation >= n
      <4>1. inv[i].generation \in Nat
        BY <1>1, <3>3
      <4>. QED BY <1>1, <3>2, <4>1
    <3>. QED BY <3>3, <3>4
  <2>. QED BY <2>1, <2>2
<1>3. Max({0} \cup G) \in {0} \cup G /\ \A n \in {0} \cup G : Max({0} \cup G) >= n
  BY <1>2 DEF Max
<1>4. NextGeneration(t) = 1 + Max({0} \cup G)
  BY DEF NextGeneration
<1>. HIDE DEF G
<1>5. PICK m \in Nat : m = Max({0} \cup G)
  BY <1>1, <1>3
<1>6. \A n \in G : n \in Nat /\ m >= n
  BY <1>1, <1>3, <1>5
<1>7. \A i \in Owned(t.user) : inv[i].generation \in Nat /\ m >= inv[i].generation
  BY <1>6 DEF G
<1>8. NextGeneration(t) = 1 + m
  BY <1>4, <1>5
<1>9. ASSUME NEW i \in Owned(t.user) PROVE inv[i].generation < NextGeneration(t)
  BY <1>7, <1>8
<1>10. NextGeneration(t) \in Nat \ {0}
  BY <1>8
<1>. QED BY <1>9, <1>10

-----------------------------------------------------------------------------
(* Locks *)

LEMMA FewStatements == ASSUME NEW t PROVE \E m \in 0..4 : DOMAIN Locks(t) = 1..m
BY DEF Locks

LEMMA WantedIs ==
  ASSUME NEW p
  PROVE  /\ Wanted(p) = {} => \A n \in DOMAIN Locks(txn[p]) : Locks(txn[p])[n] \subseteq txn[p].held
         /\ \A lock \in Wanted(p) : \E n \in DOMAIN Locks(txn[p]) :
              /\ lock \in Locks(txn[p])[n] \ txn[p].held
              /\ \A k \in DOMAIN Locks(txn[p]) : k < n => Locks(txn[p])[k] \subseteq txn[p].held
<1>. DEFINE locks == Locks(txn[p])
            open  == {n \in DOMAIN locks : ~ locks[n] \subseteq txn[p].held}
            now   == {m \in DOMAIN locks : \A k \in 1..(m - 1) : locks[k] \subseteq txn[p].held}
<1>0. Wanted(p) = UNION {locks[n] \ txn[p].held : n \in now}
  BY DEF Wanted
<1>1. PICK last \in 0..4 : DOMAIN locks = 1..last
  BY FewStatements
<1>2. ASSUME open # {} PROVE Wanted(p) # {}
  <2>1. \E n \in open : \A k \in open : n <= k
    <3>1. open \subseteq 1..4
      BY <1>1
    <3>. HIDE DEF open
    <3>2. 1 \in open \/ 2 \in open \/ 3 \in open \/ 4 \in open
      <4>1. PICK n \in open : n \in 1..4
        BY <1>2, <3>1
      <4>2. n = 1 \/ n = 2 \/ n = 3 \/ n = 4
        BY <4>1
      <4>. QED BY <4>1, <4>2
    <3>3. CASE 1 \in open
      BY <3>1, <3>3
    <3>4. CASE 1 \notin open /\ 2 \in open
      BY <3>1, <3>4
    <3>5. CASE 1 \notin open /\ 2 \notin open /\ 3 \in open
      BY <3>1, <3>5
    <3>6. CASE 1 \notin open /\ 2 \notin open /\ 3 \notin open /\ 4 \in open
      BY <3>1, <3>6
    <3>. QED BY <3>2, <3>3, <3>4, <3>5, <3>6
  <2>2. PICK n \in open : \A k \in open : n <= k
    BY <2>1
  <2>3. n \in DOMAIN locks /\ ~ locks[n] \subseteq txn[p].held
    OBVIOUS
  <2>4. ASSUME NEW k \in 1..(n - 1) PROVE locks[k] \subseteq txn[p].held
    <3>1. k \in DOMAIN locks /\ ~ n <= k
      BY <1>1, <2>3
    <3>. QED BY <2>2, <3>1
  <2>5. n \in now
    BY <2>3, <2>4
  <2>. QED BY <1>0, <2>3, <2>5
<1>3. ASSUME NEW lock \in Wanted(p)
      PROVE  \E n \in DOMAIN locks : /\ lock \in locks[n] \ txn[p].held
                                    /\ \A k \in DOMAIN locks : k < n => locks[k] \subseteq txn[p].held
  <2>1. PICK n \in now : lock \in locks[n] \ txn[p].held
    BY <1>0
  <2>2. ASSUME NEW k \in DOMAIN locks, k < n PROVE locks[k] \subseteq txn[p].held
    <3>1. k \in 1..(n - 1)
      BY <1>1, <2>2
    <3>. QED BY <3>1
  <2>. QED BY <2>1, <2>2
<1>. QED BY <1>2, <1>3

(* Who holds a row for an update holds it alone. *)
LEMMA UpdateExcludes ==
  ASSUME LocksExclude, NEW p \in Transactions, NEW q \in Transactions, p # q, NEW row,
         <<row, "update">> \in txn[p].held
  PROVE  ~ Has(txn[q], row)
BY DEF LocksExclude, Has, Conflict

(* What was read stays true as long as the rows that protect it do not change. *)
LEMMA ReadStays ==
  ASSUME NEW t, Shape(t), ReadIsCurrent(t),
         t.kind \in Codes /\ OwnRow(t, "update") \subseteq t.held =>
           Owned(t.user)' = Owned(t.user) /\ \A i \in Owned(t.user) : inv'[i] = inv[i],
         Has(t, Conversation(t.of)) => conv'[t.of].status = conv[t.of].status
  PROVE  ReadIsCurrent(t)'
<1>1. StatusUnderLock(t)' = StatusUnderLock(t)
  BY DEF StatusUnderLock, Has, Conversation
<1>2. ASSUME t.kind \in Codes /\ OwnRow(t, "update") \subseteq t.held
      PROVE  Active(t.user)' = Active(t.user) /\ NextGeneration(t)' = NextGeneration(t)
  <2>1. Active(t.user)' = Active(t.user)
    BY <1>2 DEF Active
  <2>2. {inv'[i].generation : i \in Owned(t.user)'} = {inv[i].generation : i \in Owned(t.user)}
    BY <1>2
  <2>. QED BY <2>1, <2>2 DEF NextGeneration
<1>3. Read(t)' = Read(t)
  BY <1>1, <1>2 DEF Read, OwnRow, User, Lock
<1>. QED BY <1>3 DEF ReadIsCurrent

-----------------------------------------------------------------------------
(* One transaction moves *)

LEMMA IdleIsFine ==
  /\ TxnOK(Idle) /\ InOrder(Idle) /\ ReadIsCurrent(Idle) /\ StillAdmitted(Idle)
  /\ TxnOK(Idle)' /\ InOrder(Idle)' /\ ReadIsCurrent(Idle)' /\ StillAdmitted(Idle)'
<1>1. Shape(Idle) /\ Idle.kind = "none" /\ Idle.held = {} /\ Idle.current = {} /\ Idle.generation = 0
      /\ Idle.status = "none"
  BY DEF Shape, Idle
<1>2. "none" \in Kinds /\ "none" \notin OfUser /\ "none" \notin OnConversation /\ "none" \notin Codes
  BY DEF Kinds, OfUser, OnConversation, InRoom, Codes, Transitions, OnUser, OfWorker
<1>3. \A row : ~ Has(Idle, row)
  BY <1>1 DEF Has
<1>4. TxnOK(Idle) /\ TxnOK(Idle)'
  BY <1>1, <1>2 DEF TxnOK, Shape
<1>5. InOrder(Idle) /\ InOrder(Idle)'
  BY <1>1, <1>3 DEF InOrder, Has
<1>6. StillAdmitted(Idle) /\ StillAdmitted(Idle)'
  BY <1>1, <1>3, GenerationAssumption DEF StillAdmitted, KnownUser, StillOffered, Has
<1>7. Read(Idle) = Idle
  <2>1. /\ Shape(Read(Idle)) /\ Read(Idle).kind = Idle.kind /\ Read(Idle).user = Idle.user /\ Read(Idle).of = Idle.of
        /\ Read(Idle).held = Idle.held /\ Read(Idle).current = {} /\ Read(Idle).generation = 0
        /\ Read(Idle).status = "none"
    BY <1>1, <1>2, <1>3, ReadIs DEF StatusUnderLock
  <2>. QED BY <1>1, <2>1 DEF Shape
<1>8. Read(Idle)' = Idle
  BY <1>7 DEF Read, StatusUnderLock, Has, Idle, Codes
<1>. QED BY <1>4, <1>5, <1>6, <1>7, <1>8 DEF ReadIsCurrent

(* A transaction opens, gets a row or ends without a write. *)
LEMMA OneMoves ==
  ASSUME ConversationsInv, NEW p \in Transactions, NEW t, txn' = [txn EXCEPT ![p] = t],
         UNCHANGED <<alive, verified, inv, conv>>,
         TxnOK(t), InOrder(t), ReadIsCurrent(t), StillAdmitted(t),
         \A q \in Transactions \ {p} : \A l \in t.held, m \in txn[q].held : ~ Conflict(l, m)
  PROVE  ConversationsInv'
<1>0. /\ TypesInv /\ DOMAIN txn = Transactions
      /\ \A q \in Transactions : TxnOK(txn[q]) /\ InOrder(txn[q]) /\ ReadIsCurrent(txn[q]) /\ StillAdmitted(txn[q])
  BY DEF ConversationsInv, TypesInv
<1>1. /\ txn'[p] = t /\ \A q \in Transactions \ {p} : txn'[q] = txn[q]
      /\ DOMAIN txn' = Transactions /\ txn' = [q \in Transactions |-> txn'[q]]
  BY <1>0 DEF TypesInv
<1>2. \A q \in Transactions : TxnOK(txn'[q]) /\ InOrder(txn'[q]) /\ ReadIsCurrent(txn'[q]) /\ StillAdmitted(txn'[q])
  BY <1>0, <1>1
<1>3. TypesInv'
  BY <1>0, <1>1, <1>2 DEF TypesInv, RowsOK, TxnOK, Shape
<1>4. OwnersHaveOne' /\ OneActiveInvitation'
  BY DEF ConversationsInv, OwnersHaveOne, OneActiveInvitation, Active, Owned
<1>5. LocksExclude'
  <2>1. \A a, b : Conflict(a, b) <=> Conflict(b, a)
    BY DEF Conflict
  <2>. QED BY <1>1, <2>1 DEF ConversationsInv, LocksExclude
<1>6. \A q \in Transactions : InOrder(txn[q])'
  BY <1>2 DEF InOrder, Has
<1>7. \A q \in Transactions : StillAdmitted(txn[q])'
  BY <1>2 DEF StillAdmitted, KnownUser, StillOffered, Has
<1>8. ASSUME NEW q \in Transactions PROVE ReadIsCurrent(txn[q])'
  <2>1. PICK r : r = txn'[q]
    OBVIOUS
  <2>2. Shape(r) /\ ReadIsCurrent(r)
    BY <1>2, <2>1 DEF TxnOK
  <2>3. ReadIsCurrent(r)'
    BY <2>2, ReadStays DEF Owned
  <2>. QED BY <2>1, <2>3 DEF ReadIsCurrent, Read, StatusUnderLock, NextGeneration, Has, OwnRow
<1>. QED BY <1>3, <1>4, <1>5, <1>6, <1>7, <1>8 DEF ConversationsInv

LEMMA BeginKeeps ==
  ASSUME ConversationsInv, NEW p \in Transactions, Begin(p)
  PROVE  ConversationsInv'
<1>0. TypesInv /\ RowsOK
  BY DEF ConversationsInv, TypesInv
<1>1. PICK kind, u, of :
        /\ \/ kind \in Codes \cup OnUser /\ u \in alive /\ of = 0
           \/ kind = "redeem" /\ u \in alive /\ of \in DOMAIN inv
           \/ kind \in InRoom /\ u \in alive /\ of \in DOMAIN conv
           \/ kind \in OfWorker /\ u = 0 /\ of \in DOMAIN conv
           \/ kind = "purge" /\ u = 0 /\ of = 0
        /\ txn' = [txn EXCEPT ![p] = Read(Transaction(kind, u, of))]
        /\ UNCHANGED <<alive, verified, inv, conv>>
  <2>1. PICK b \in Requested : txn' = [txn EXCEPT ![p] = Read(b)]
    BY DEF Begin
  <2>2. UNCHANGED <<alive, verified, inv, conv>>
    BY DEF Begin
  <2>3. \E kind, u, of :
          /\ \/ kind \in Codes \cup OnUser /\ u \in alive /\ of = 0
             \/ kind = "redeem" /\ u \in alive /\ of \in DOMAIN inv
             \/ kind \in InRoom /\ u \in alive /\ of \in DOMAIN conv
             \/ kind \in OfWorker /\ u = 0 /\ of \in DOMAIN conv
             \/ kind = "purge" /\ u = 0 /\ of = 0
          /\ b = Transaction(kind, u, of)
    <3>1. CASE b \in {Transaction("get_codes", u, 0) : u \in alive}
      BY <3>1 DEF Codes, OnUser
    <3>5. CASE b \in {Transaction(kind, u, 0) : kind \in {"regenerate", "address", "delete"}, u \in alive \cap Movers}
      BY <3>5 DEF Codes, OnUser
    <3>2. CASE b \in {Transaction("redeem", u, i) : u \in alive, i \in {j \in DOMAIN inv : inv[j].status # "gone"}}
      <4>1. PICK u \in alive, i \in {j \in DOMAIN inv : inv[j].status # "gone"} : b = Transaction("redeem", u, i)
        BY <3>2
      <4>. QED BY <4>1
    <3>3. CASE b \in {Transaction(kind, u, c) : kind \in InRoom, u \in alive, c \in DOMAIN conv}
      BY <3>3
    <3>4. CASE b \in {Transaction(kind, 0, c) : kind \in OfWorker, c \in DOMAIN conv}
      <4>1. PICK kind \in OfWorker, c \in DOMAIN conv : b = Transaction(kind, 0, c)
        BY <3>4
      <4>. QED BY <4>1
    <3>6. CASE b = Transaction("purge", 0, 0)
      BY <3>6
    <3>. QED BY <3>1, <3>2, <3>3, <3>4, <3>5, <3>6 DEF Requested
  <2>. QED BY <2>1, <2>2, <2>3
<1>2. PICK b : b = Transaction(kind, u, of)
  OBVIOUS
<1>3. Shape(b) /\ b.kind = kind /\ b.user = u /\ b.of = of /\ b.held = {}
  BY <1>2 DEF Transaction, Idle, Shape
<1>4. PICK t : t = Read(b)
  OBVIOUS
<1>5. /\ Shape(t) /\ t.kind = kind /\ t.user = u /\ t.of = of /\ t.held = {} /\ t.generation = 0
      /\ ReadIsCurrent(t)
  <2>1. OwnRow(b, "update") # {}
    BY DEF OwnRow, Lock
  <2>. QED BY <1>3, <1>4, <2>1, ReadIs, ReadTwice
<1>6. \A row : ~ Has(t, row)
  BY <1>5 DEF Has
<1>7. TxnOK(t)
  BY <1>0, <1>1, <1>5 DEF TxnOK, RowsOK, Kinds, OfUser, OnConversation, InRoom, Codes, OnUser, Transitions, OfWorker
<1>8. InOrder(t) /\ StillAdmitted(t)
  BY <1>5, <1>6, GenerationAssumption DEF InOrder, StillAdmitted, KnownUser, StillOffered
<1>. QED BY <1>1, <1>2, <1>4, <1>5, <1>7, <1>8, OneMoves

LEMMA RollbackKeeps ==
  ASSUME ConversationsInv, NEW p \in Transactions, txn' = [txn EXCEPT ![p] = Idle],
         UNCHANGED <<alive, verified, inv, conv>>
  PROVE  ConversationsInv'
<1>1. Idle.held = {}
  BY DEF Idle
<1>. QED BY <1>1, IdleIsFine, OneMoves

(* A transaction locks conversations that exist. *)
LEMMA LockedExist ==
  ASSUME NEW t, TxnOK(t), NEW n \in DOMAIN Locks(t), NEW l \in Locks(t)[n], NEW c, l[1] = Conversation(c)
  PROVE  c \in DOMAIN conv
<1>1. l[1] = <<"conversation", c>>
  BY DEF Conversation
<1>2. CASE t.kind \in OnConversation
  <2>1. t.of \in DOMAIN conv
    BY <1>2 DEF TxnOK
  <2>2. l[1][1] = "conversation" => l[1] = Conversation(t.of)
    BY <1>2 DEF Locks, Lock, OwnRow, User, Conversation, Vote, Member, Messages, Message, Delivery, Codes, Transitions,
                OfWorker, InRoom, OnConversation
  <2>. QED BY <1>1, <2>1, <2>2 DEF Conversation
<1>3. CASE t.kind \in Codes \cup {"redeem", "address", "purge", "none"}
  <2>1. l[1][1] # "conversation"
    BY <1>3 DEF Locks, Lock, OwnRow, User, Invitation, Contents, Messages, Message, Delivery, Codes, Transitions
  <2>. QED BY <1>1, <2>1
<1>4. CASE t.kind = "delete"
  <2>1. Locks(t) = <<OwnRow(t, "update"), Lock({Invitation(i) : i \in Owned(t.user)}, "update"), Cascade(t.user)>>
    BY <1>4 DEF Locks, Codes, Transitions
  <2>2. n \in 1..3
    BY <2>1
  <2>3. CASE n \in {1, 2}
    BY <1>1, <2>1, <2>3 DEF Lock, OwnRow, User, Invitation
  <2>4. CASE n = 3
    <3>1. l \in Cascade(t.user)
      BY <2>1, <2>4
    <3>2. PICK d, mode : d \in DOMAIN conv /\ l = <<Conversation(d), mode>>
      BY <1>1, <3>1 DEF Cascade, Lock, Named, Member, Message, Delivery
    <3>. QED BY <1>1, <3>2 DEF Conversation
  <2>. QED BY <2>2, <2>3, <2>4
<1>. QED BY <1>2, <1>3, <1>4 DEF TxnOK, Kinds, OfUser, OnUser, OnConversation

(* A redemption asks for the code when it has guest and host. *)
LEMMA RedeemLocks ==
  ASSUME NEW t, t.kind = "redeem"
  PROVE  /\ DOMAIN Locks(t) = 1..3
         /\ \/ /\ Locks(t)[1] = {<<User(t.user), "update">>}
               /\ Locks(t)[2] = {<<User(inv[t.of].owner), "update">>}
            \/ /\ Locks(t)[2] = {<<User(t.user), "update">>}
               /\ Locks(t)[1] = {<<User(inv[t.of].owner), "update">>}
         /\ Locks(t)[3] = {<<Invitation(t.of), "update">>}
<1>1. Locks(t) = <<Lock({User(HostAndGuest(t)[1])}, "update"), Lock({User(HostAndGuest(t)[2])}, "update"),
                   Lock({Invitation(t.of)}, "update")>>
  BY DEF Locks, Codes, Transitions
<1>. QED BY <1>1 DEF Lock, HostAndGuest

LEMMA AcquireKeeps ==
  ASSUME ConversationsInv, NEW p \in Transactions, Acquire(p)
  PROVE  ConversationsInv'
<1>1. PICK lock \in Wanted(p) :
        /\ \A q \in Transactions \ {p} : ~ Blocks(q, lock)
        /\ LET t == Read([txn[p] EXCEPT !.held = @ \cup {lock}])
           IN txn' = [txn EXCEPT ![p] = IF Admitted(t) THEN t ELSE Idle]
        /\ UNCHANGED <<alive, verified, inv, conv>>
  BY DEF Acquire
<1>2. PICK a : a = [txn[p] EXCEPT !.held = @ \cup {lock}]
  OBVIOUS
<1>3. PICK t : t = Read(a)
  OBVIOUS
<1>4. CASE ~ Admitted(t)
  BY <1>1, <1>2, <1>3, <1>4, RollbackKeeps
<1>5. CASE Admitted(t)
  <2>0. TypesInv /\ TxnOK(txn[p]) /\ InOrder(txn[p])
    BY DEF ConversationsInv, TypesInv
  <2>1. /\ Shape(a) /\ a.kind = txn[p].kind /\ a.user = txn[p].user /\ a.of = txn[p].of
        /\ a.held = txn[p].held \cup {lock}
    BY <1>2, <2>0 DEF TxnOK, Shape
  <2>2. /\ Shape(t) /\ t.kind = txn[p].kind /\ t.user = txn[p].user /\ t.of = txn[p].of
        /\ t.held = txn[p].held \cup {lock} /\ ReadIsCurrent(t)
    BY <1>3, <2>1, ReadIs, ReadTwice
  <2>3. TxnOK(t)
    BY <2>0, <2>2 DEF TxnOK
  <2>4. StillAdmitted(t)
    BY <1>5 DEF Admitted, StillAdmitted
  <2>5. PICK n \in DOMAIN Locks(txn[p]) :
          /\ lock \in Locks(txn[p])[n] \ txn[p].held
          /\ \A k \in DOMAIN Locks(txn[p]) : k < n => Locks(txn[p])[k] \subseteq txn[p].held
    BY WantedIs
  <2>6. \A c : Has(t, Conversation(c)) => c \in DOMAIN conv
    <3>1. \A c : lock[1] = Conversation(c) => c \in DOMAIN conv
      BY <2>0, <2>5, LockedExist
    <3>. QED BY <2>0, <2>2, <3>1 DEF Has, InOrder
  <2>7. ASSUME t.kind = "redeem", Has(t, Invitation(t.of))
        PROVE  {<<User(t.user), "update">>, <<User(inv[t.of].owner), "update">>} \subseteq t.held
    <3>1. CASE lock[1] = Invitation(t.of)
      <4>1. /\ DOMAIN Locks(txn[p]) = 1..3
            /\ \/ /\ Locks(txn[p])[1] = {<<User(t.user), "update">>}
                  /\ Locks(txn[p])[2] = {<<User(inv[t.of].owner), "update">>}
               \/ /\ Locks(txn[p])[2] = {<<User(t.user), "update">>}
                  /\ Locks(txn[p])[1] = {<<User(inv[t.of].owner), "update">>}
        BY <2>2, <2>7, RedeemLocks
      <4>2. \A u, mode : <<User(u), mode>>[1] # Invitation(t.of)
        BY DEF User, Invitation
      <4>3. n = 3
        BY <2>5, <3>1, <4>1, <4>2
      <4>4. Locks(txn[p])[1] \subseteq txn[p].held /\ Locks(txn[p])[2] \subseteq txn[p].held
        BY <2>5, <4>1, <4>3
      <4>. QED BY <2>2, <4>1, <4>4
    <3>2. CASE lock[1] # Invitation(t.of)
      <4>1. Has(txn[p], Invitation(t.of))
        BY <2>2, <2>7, <3>2 DEF Has
      <4>. QED BY <2>0, <2>2, <2>7, <4>1 DEF InOrder
    <3>. QED BY <3>1, <3>2
  <2>8. \A q \in Transactions \ {p} : \A l \in t.held, m \in txn[q].held : ~ Conflict(l, m)
    <3>1. \A x, y : Conflict(x, y) <=> Conflict(y, x)
      BY DEF Conflict
    <3>. QED BY <1>1, <2>2, <3>1 DEF Blocks, ConversationsInv, LocksExclude
  <2>9. InOrder(t)
    BY <2>6, <2>7 DEF InOrder
  <2>10. txn' = [txn EXCEPT ![p] = t]
    BY <1>1, <1>2, <1>3, <1>5
  <2>. QED BY <1>1, <2>2, <2>3, <2>4, <2>8, <2>9, <2>10, OneMoves
<1>. QED BY <1>4, <1>5

-----------------------------------------------------------------------------
(* One transaction commits *)

(* What it changed it had locked for update, so nobody else had read it under  *)
(* a lock.                                                                     *)
LEMMA CommitMoves ==
  ASSUME ConversationsInv, NEW p \in Transactions, txn' = [txn EXCEPT ![p] = Idle],
         RowsOK', DOMAIN inv \subseteq DOMAIN inv', DOMAIN conv \subseteq DOMAIN conv',
         OwnersHaveOne', OneActiveInvitation',
         \A i \in DOMAIN inv : /\ inv'[i].owner = inv[i].owner
                               /\ inv'[i].status = inv[i].status \/ <<Invitation(i), "update">> \in txn[p].held,
         \A u : \/ (u \in alive' <=> u \in alive) /\ (u \in verified' <=> u \in verified)
                \/ <<User(u), "update">> \in txn[p].held,
         \A u : \/ Owned(u)' = Owned(u) /\ \A i \in Owned(u) : inv'[i] = inv[i]
                \/ <<User(u), "update">> \in txn[p].held,
         \A c \in DOMAIN conv : conv'[c].status = conv[c].status \/ <<Conversation(c), "update">> \in txn[p].held
  PROVE  ConversationsInv'
<1>0. /\ TypesInv /\ DOMAIN txn = Transactions /\ LocksExclude
      /\ \A q \in Transactions : TxnOK(txn[q]) /\ InOrder(txn[q]) /\ ReadIsCurrent(txn[q]) /\ StillAdmitted(txn[q])
  BY DEF ConversationsInv, TypesInv
<1>1. /\ txn'[p] = Idle /\ \A q \in Transactions \ {p} : txn'[q] = txn[q]
      /\ DOMAIN txn' = Transactions /\ txn' = [q \in Transactions |-> txn'[q]]
  BY <1>0 DEF TypesInv
<1>2. ASSUME NEW q \in Transactions \ {p}, NEW t, t = txn[q]
      PROVE  TxnOK(t)' /\ InOrder(t)' /\ ReadIsCurrent(t)' /\ StillAdmitted(t)'
  <2>1. \A row : <<row, "update">> \in txn[p].held => ~ Has(t, row)
    BY <1>0, <1>2, UpdateExcludes
  <2>2. TxnOK(t) /\ InOrder(t) /\ ReadIsCurrent(t) /\ KnownUser(t) /\ StillOffered(t) /\ t.generation <= MaxGeneration
    BY <1>0, <1>2 DEF StillAdmitted
  <2>3. TxnOK(t)'
    BY <2>2 DEF TxnOK, Shape
  <2>4. InOrder(t)'
    <3>1. \A c : Has(t, Conversation(c)) => c \in DOMAIN conv'
      BY <2>2 DEF InOrder
    <3>2. t.kind = "redeem" => inv'[t.of].owner = inv[t.of].owner
      BY <2>2 DEF TxnOK
    <3>. QED BY <2>2, <3>1, <3>2 DEF InOrder, Has
  <2>5. KnownUser(t)'
    BY <2>1, <2>2 DEF KnownUser, Has
  <2>6. StillOffered(t)'
    <3>. SUFFICES ASSUME t.kind = "redeem", Has(t, Invitation(t.of))
                  PROVE  inv'[t.of].status = "active" /\ inv'[t.of].owner \in alive' \cap verified'
      BY DEF StillOffered, Has
    <3>1. PICK h : h = inv[t.of].owner
      OBVIOUS
    <3>2. /\ inv[t.of].status = "active" /\ h \in alive /\ h \in verified /\ t.of \in DOMAIN inv
          /\ <<User(h), "update">> \in t.held
      BY <2>2, <3>1 DEF StillOffered, InOrder, TxnOK
    <3>3. Has(t, User(h))
      BY <3>2 DEF Has
    <3>4. h \in alive' /\ h \in verified'
      BY <2>1, <3>2, <3>3
    <3>5. inv'[t.of].owner = h /\ inv'[t.of].status = "active"
      BY <2>1, <3>1, <3>2
    <3>. QED BY <3>4, <3>5
  <2>7. ReadIsCurrent(t)'
    <3>1. ASSUME t.kind \in Codes /\ OwnRow(t, "update") \subseteq t.held
          PROVE  Owned(t.user)' = Owned(t.user) /\ \A i \in Owned(t.user) : inv'[i] = inv[i]
      <4>1. Has(t, User(t.user))
        <5>1. <<User(t.user), "update">> \in t.held
          BY <3>1 DEF OwnRow, Lock
        <5>. QED BY <5>1 DEF Has
      <4>. QED BY <2>1, <4>1
    <3>2. ASSUME Has(t, Conversation(t.of)) PROVE conv'[t.of].status = conv[t.of].status
      BY <2>1, <2>2, <3>2 DEF InOrder
    <3>. QED BY <2>2, <3>1, <3>2, ReadStays DEF TxnOK
  <2>8. StillAdmitted(t)'
    BY <2>2, <2>5, <2>6 DEF StillAdmitted
  <2>. QED BY <2>3, <2>4, <2>7, <2>8
<1>3. \A q \in Transactions : TxnOK(txn[q])' /\ InOrder(txn[q])' /\ ReadIsCurrent(txn[q])' /\ StillAdmitted(txn[q])'
  <2>. SUFFICES ASSUME NEW q \in Transactions
                PROVE  TxnOK(txn[q])' /\ InOrder(txn[q])' /\ ReadIsCurrent(txn[q])' /\ StillAdmitted(txn[q])'
    OBVIOUS
  <2>1. PICK t : t = txn'[q]
    OBVIOUS
  <2>2. TxnOK(t)' /\ InOrder(t)' /\ ReadIsCurrent(t)' /\ StillAdmitted(t)'
    <3>1. CASE q = p
      BY <1>1, <2>1, <3>1, IdleIsFine
    <3>2. CASE q # p
      BY <1>1, <1>2, <2>1, <3>2
    <3>. QED BY <3>1, <3>2
  <2>3. TxnOK(txn[q])' /\ InOrder(txn[q])' /\ StillAdmitted(txn[q])'
    BY <2>1, <2>2 DEF TxnOK, Shape, InOrder, Has, StillAdmitted, KnownUser, StillOffered
  <2>4. ReadIsCurrent(txn[q])'
    BY <2>1, <2>2 DEF ReadIsCurrent, Read, StatusUnderLock, NextGeneration, Has, OwnRow
  <2>. QED BY <2>3, <2>4
<1>4. TypesInv'
  BY <1>1, <1>3 DEF TypesInv
<1>5. LocksExclude'
  <2>1. Idle.held = {}
    BY DEF Idle
  <2>. QED BY <1>0, <1>1, <2>1 DEF LocksExclude
<1>. QED BY <1>3, <1>4, <1>5 DEF ConversationsInv

(* A commit that leaves the invitations alone. *)
LEMMA InvitationsStay ==
  ASSUME ConversationsInv, inv' = inv
  PROVE  /\ OwnersHaveOne' /\ OneActiveInvitation'
         /\ \A u : Owned(u)' = Owned(u)
BY DEF ConversationsInv, OwnersHaveOne, OneActiveInvitation, Active, Owned

LEMMA CommitHolds ==
  ASSUME NEW p, NEW kinds, Commits(p, kinds)
  PROVE  /\ txn[p].kind \in kinds /\ txn' = [txn EXCEPT ![p] = Idle]
         /\ \A n \in DOMAIN Locks(txn[p]) : Locks(txn[p])[n] \subseteq txn[p].held
BY WantedIs DEF Commits

(* The locks a transaction has when it commits. *)
LEMMA HoldsUser ==
  ASSUME NEW p, txn[p].kind \in Codes \cup OnUser,
         \A n \in DOMAIN Locks(txn[p]) : Locks(txn[p])[n] \subseteq txn[p].held
  PROVE  <<User(txn[p].user), "update">> \in txn[p].held
<1>. DEFINE t == txn[p]
<1>1. 1 \in DOMAIN Locks(t) /\ Locks(t)[1] = OwnRow(t, "update")
  BY DEF Locks, Codes, OnUser, Transitions, OfWorker
<1>. QED BY <1>1 DEF OwnRow, Lock

(* What names a conversation takes the caller and then the conversation. *)
LEMMA RoomLocks ==
  ASSUME NEW t, t.kind \in InRoom
  PROVE  /\ DOMAIN Locks(t) \subseteq 1..4 /\ {1, 2} \subseteq DOMAIN Locks(t)
         /\ Locks(t)[1] = OwnRow(t, "no_key") /\ Locks(t)[2] = Lock({Conversation(t.of)}, "update")
<1>. DEFINE user == OwnRow(t, "no_key")
            room == Lock({Conversation(t.of)}, "update")
<1>1. \/ Locks(t) = <<user, room>>
      \/ \E a : Locks(t) = <<user, room, a>>
      \/ \E a, b : Locks(t) = <<user, room, a, b>>
  <2>1. CASE t.kind = "cast" \/ (t.kind = "accept" /\ t.status = "active")
    BY <2>1 DEF Locks, Codes
  <2>2. CASE t.kind = "leave" \/ (t.kind = "accept" /\ t.status # "active")
    BY <2>2 DEF Locks, Codes
  <2>3. CASE t.kind \in {"upgrade", "close"}
    BY <2>3 DEF Locks, Codes
  <2>4. CASE t.kind = "send"
    BY <2>4 DEF Locks, Codes
  <2>5. CASE t.kind = "ack"
    BY <2>5 DEF Locks, Codes
  <2>. QED BY <2>1, <2>2, <2>3, <2>4, <2>5 DEF InRoom, Transitions
<1>. HIDE DEF user, room
<1>2. CASE Locks(t) = <<user, room>>
  <2>1. PICK locks : locks = Locks(t) /\ locks = <<user, room>>
    BY <1>2
  <2>. QED BY <2>1 DEF user, room
<1>3. CASE \E a : Locks(t) = <<user, room, a>>
  <2>1. PICK a, locks : locks = Locks(t) /\ locks = <<user, room, a>>
    BY <1>3
  <2>. QED BY <2>1 DEF user, room
<1>4. CASE \E a, b : Locks(t) = <<user, room, a, b>>
  <2>1. PICK a, b, locks : locks = Locks(t) /\ locks = <<user, room, a, b>>
    BY <1>4
  <2>. QED BY <2>1 DEF user, room
<1>. QED BY <1>1, <1>2, <1>3, <1>4

LEMMA HoldsConversation ==
  ASSUME NEW p, txn[p].kind \in Transitions,
         \A n \in DOMAIN Locks(txn[p]) : Locks(txn[p])[n] \subseteq txn[p].held
  PROVE  <<Conversation(txn[p].of), "update">> \in txn[p].held
<1>. DEFINE t == txn[p]
<1>1. 2 \in DOMAIN Locks(t) /\ Locks(t)[2] = Lock({Conversation(t.of)}, "update")
  BY RoomLocks DEF InRoom
<1>. QED BY <1>1 DEF Lock

LEMMA HoldsInvitations ==
  ASSUME NEW p, txn[p].kind \in Codes \cup {"delete"},
         \A n \in DOMAIN Locks(txn[p]) : Locks(txn[p])[n] \subseteq txn[p].held
  PROVE  \A i \in IF txn[p].kind = "delete" THEN Owned(txn[p].user) ELSE txn[p].current :
           <<Invitation(i), "update">> \in txn[p].held
<1>. DEFINE t == txn[p]
<1>1. CASE t.kind \in Codes
  <2>1. Locks(t) = <<OwnRow(t, "update"), Lock({Invitation(i) : i \in t.current}, "update")>>
    BY <1>1 DEF Locks, Codes, Transitions, OfWorker
  <2>. QED BY <1>1, <2>1 DEF Lock, Codes
<1>2. CASE t.kind = "delete"
  <2>1. 2 \in DOMAIN Locks(t) /\ Locks(t)[2] = Lock({Invitation(i) : i \in Owned(t.user)}, "update")
    BY <1>2 DEF Locks, Codes, Transitions, OfWorker
  <2>. QED BY <1>2, <2>1 DEF Lock
<1>. QED BY <1>1, <1>2

(* What a transaction has read when it commits. *)
LEMMA CodesRead ==
  ASSUME ConversationsInv, NEW p \in Transactions, Commits(p, Codes)
  PROVE  /\ txn[p].user \in Users /\ <<User(txn[p].user), "update">> \in txn[p].held
         /\ \A i \in Active(txn[p].user) : <<Invitation(i), "update">> \in txn[p].held
         /\ txn[p].generation # 0 =>
              /\ txn[p].generation \in 1..MaxGeneration
              /\ \A i \in Owned(txn[p].user) : inv[i].generation < txn[p].generation
<1>1. PICK t : t = txn[p]
  OBVIOUS
<1>2. /\ t.kind \in Codes /\ t.user \in Users /\ Shape(t) /\ Read(t) = t /\ t.generation <= MaxGeneration
      /\ \A n \in DOMAIN Locks(t) : Locks(t)[n] \subseteq t.held
  BY <1>1, CommitHolds DEF ConversationsInv, TypesInv, TxnOK, OfUser, ReadIsCurrent, StillAdmitted
<1>3. <<User(t.user), "update">> \in t.held /\ OwnRow(t, "update") \subseteq t.held
  <2>1. <<User(t.user), "update">> \in t.held
    BY <1>1, <1>2, HoldsUser
  <2>. QED BY <2>1 DEF OwnRow, Lock
<1>4. t.current = Active(t.user) /\ t.generation = NextGeneration(t)
  BY <1>2, <1>3, ReadIs
<1>5. \A i \in Active(t.user) : <<Invitation(i), "update">> \in t.held
  <2>1. t.kind # "delete"
    BY <1>2 DEF Codes
  <2>. QED BY <1>1, <1>2, <1>4, <2>1, HoldsInvitations
<1>6. ASSUME t.generation # 0
      PROVE  t.generation \in 1..MaxGeneration /\ \A i \in Owned(t.user) : inv[i].generation < t.generation
  <2>1. ~(t.kind = "get_codes" /\ Active(t.user) # {})
    BY <1>4, <1>6 DEF NextGeneration
  <2>2. NextGeneration(t) \in Nat \ {0} /\ \A i \in Owned(t.user) : inv[i].generation < NextGeneration(t)
    BY <1>2, <2>1, GenerationIs DEF ConversationsInv
  <2>. QED BY <1>2, <1>4, <2>2, GenerationAssumption
<1>. QED BY <1>1, <1>2, <1>3, <1>5, <1>6

LEMMA CommitCodesKeeps ==
  ASSUME ConversationsInv, NEW p \in Transactions, CommitCodes(p)
  PROVE  ConversationsInv'
<1>0. RowsOK /\ OneActiveInvitation /\ OwnersHaveOne
  BY DEF ConversationsInv, TypesInv
<1>1. Commits(p, Codes) /\ txn' = [txn EXCEPT ![p] = Idle] /\ UNCHANGED <<alive, verified, conv>>
  BY DEF CommitCodes, Commits
<1>2. PICK t : t = txn[p]
  OBVIOUS
<1>3. /\ t.user \in Users /\ <<User(t.user), "update">> \in t.held
      /\ \A i \in Active(t.user) : <<Invitation(i), "update">> \in t.held
      /\ t.generation # 0 => /\ t.generation \in 1..MaxGeneration
                             /\ \A i \in Owned(t.user) : inv[i].generation < t.generation
  BY <1>1, <1>2, CodesRead
<1>4. CASE t.generation = 0
  <2>1. inv' = inv
    BY <1>2, <1>4 DEF CommitCodes
  <2>2. RowsOK'
    BY <1>0, <1>1, <2>1 DEF RowsOK
  <2>. QED BY <1>1, <2>1, <2>2, InvitationsStay, CommitMoves
<1>5. CASE t.generation # 0
  <2>. DEFINE old == [i \in DOMAIN inv |-> IF i \in Active(t.user) THEN [inv[i] EXCEPT !.status = "revoked"] ELSE inv[i]]
              new == [owner |-> t.user, generation |-> t.generation, status |-> "active"]
              N   == Len(inv) + 1
  <2>1. inv' = Append(old, new)
    BY <1>2, <1>5 DEF CommitCodes
  <2>2. inv \in Seq(InvitationRows) /\ Len(inv) \in Nat /\ DOMAIN inv = 1..Len(inv)
        /\ \A i \in DOMAIN inv : inv[i] \in InvitationRows
    BY <1>0 DEF RowsOK
  <2>3. old \in Seq(InvitationRows) /\ Len(old) = Len(inv)
    <3>1. \A i \in DOMAIN inv : old[i] \in InvitationRows
      BY <2>2 DEF InvitationRows
    <3>. QED BY <2>2, <3>1
  <2>4. new \in InvitationRows
    BY <1>3, <1>5 DEF InvitationRows
  <2>5. /\ inv' \in Seq(InvitationRows) /\ DOMAIN inv' = DOMAIN inv \cup {N} /\ N \notin DOMAIN inv
        /\ inv'[N] = new /\ \A i \in DOMAIN inv : inv'[i] = old[i]
    <3>. HIDE DEF old, new
    <3>1. inv' \in Seq(InvitationRows) /\ Len(inv') = N /\ inv'[N] = new
      BY <2>1, <2>2, <2>3, <2>4
    <3>2. \A i \in DOMAIN inv : inv'[i] = old[i]
      BY <2>1, <2>2, <2>3
    <3>3. DOMAIN inv' = 1..N /\ DOMAIN inv' = DOMAIN inv \cup {N} /\ N \notin DOMAIN inv
      BY <2>2, <3>1
    <3>. QED BY <3>1, <3>2, <3>3
  <2>6. \A i \in DOMAIN inv :
          /\ inv'[i].owner = inv[i].owner /\ inv'[i].generation = inv[i].generation
          /\ inv'[i].status = IF i \in Active(t.user) THEN "revoked" ELSE inv[i].status
          /\ i \notin Active(t.user) => inv'[i] = inv[i]
    BY <2>2, <2>5 DEF InvitationRows
  <2>7. inv'[N].owner = t.user /\ inv'[N].generation = t.generation /\ inv'[N].status = "active"
    BY <2>5
  <2>. HIDE DEF old, new, N
  <2>8. \A u : u # t.user => Owned(u)' = Owned(u) /\ (\A i \in Owned(u) : inv'[i] = inv[i]) /\ Active(u)' = Active(u)
    BY <2>5, <2>6, <2>7 DEF Owned, Active
  <2>9. Owned(t.user)' = Owned(t.user) \cup {N} /\ Active(t.user)' = {N}
    BY <2>2, <2>5, <2>6, <2>7 DEF Owned, Active
  <2>10. OwnersHaveOne'
    BY <1>0, <2>8, <2>9 DEF OwnersHaveOne
  <2>11. OneActiveInvitation'
    <3>. SUFFICES ASSUME NEW u \in Users, NEW i \in Active(u)', NEW j \in Owned(u)' \ {i}
                  PROVE  inv'[j].status = "revoked" /\ inv'[j].generation < inv'[i].generation
      BY DEF OneActiveInvitation
    <3>1. CASE u = t.user
      <4>1. i = N /\ j \in Owned(t.user) /\ j \in DOMAIN inv
        BY <2>9, <3>1 DEF Owned
      <4>2. inv'[j].status = "revoked"
        BY <2>2, <2>6, <4>1 DEF Owned, Active, InvitationRows
      <4>. QED BY <1>3, <1>5, <2>6, <2>7, <4>1, <4>2
    <3>2. CASE u # t.user
      <4>1. i \in Active(u) /\ j \in Owned(u) \ {i} /\ i \in Owned(u)
        BY <2>8, <3>2 DEF Active
      <4>. QED BY <1>0, <2>8, <3>2, <4>1 DEF OneActiveInvitation
    <3>. QED BY <3>1, <3>2
  <2>12. RowsOK'
    BY <1>0, <1>1, <2>5 DEF RowsOK
  <2>13. \A u : (Owned(u)' = Owned(u) /\ \A i \in Owned(u) : inv'[i] = inv[i]) \/ <<User(u), "update">> \in txn[p].held
    BY <1>2, <1>3, <2>8
  <2>14. \A i \in DOMAIN inv : inv'[i].owner = inv[i].owner
                               /\ (inv'[i].status = inv[i].status \/ <<Invitation(i), "update">> \in txn[p].held)
    BY <1>2, <1>3, <2>6
  <2>. QED BY <1>1, <2>5, <2>10, <2>11, <2>12, <2>13, <2>14, CommitMoves
<1>. QED BY <1>4, <1>5

(* A step of the conversations forward. *)
Forward ==
  \A c \in DOMAIN conv :
    /\ Rank[conv[c].status] <= Rank[conv'[c].status]
    /\ conv[c].mode = "stored" => conv'[c].mode = "stored"

LEMMA Ranks == RowsOK => \A c \in DOMAIN conv : Rank[conv[c].status] \in Nat
<1>. SUFFICES ASSUME RowsOK, NEW c \in DOMAIN conv PROVE Rank[conv[c].status] \in Nat
  OBVIOUS
<1>1. conv[c] \in ConversationRows
  BY DEF RowsOK
<1>2. conv[c].status \in {"pending", "active", "closed"}
  BY <1>1 DEF ConversationRows
<1>. QED BY <1>2 DEF Rank

LEMMA RowsStayForward ==
  ASSUME RowsOK,
         \A c \in DOMAIN conv : conv'[c].status = conv[c].status /\ conv'[c].mode = conv[c].mode
  PROVE  Forward
<1>1. \A c \in DOMAIN conv : Rank[conv[c].status] \in Nat
  BY Ranks
<1>. QED BY <1>1 DEF Forward

(* A commit that writes conversations only. *)
LEMMA ConversationMoves ==
  ASSUME ConversationsInv, NEW p \in Transactions, txn' = [txn EXCEPT ![p] = Idle],
         UNCHANGED <<alive, verified, inv>>,
         conv' \in Seq(ConversationRows), DOMAIN conv \subseteq DOMAIN conv',
         \A c \in DOMAIN conv : conv'[c].status = conv[c].status \/ <<Conversation(c), "update">> \in txn[p].held
  PROVE  ConversationsInv'
<1>1. RowsOK'
  BY DEF ConversationsInv, TypesInv, RowsOK
<1>2. OwnersHaveOne' /\ OneActiveInvitation' /\ \A u : Owned(u)' = Owned(u)
  BY InvitationsStay
<1>. QED BY <1>1, <1>2, CommitMoves

LEMMA RedeemRead ==
  ASSUME ConversationsInv, NEW p \in Transactions, Commits(p, {"redeem"})
  PROVE  LET t == txn[p] IN
         /\ t.user \in Users /\ t.of \in DOMAIN inv
         /\ t.user \in alive \cap verified /\ inv[t.of].owner \in alive \cap verified
         /\ inv[t.of].status = "active"
<1>1. PICK t : t = txn[p]
  OBVIOUS
<1>0. t.kind = "redeem" /\ \A n \in DOMAIN Locks(t) : Locks(t)[n] \subseteq t.held
  BY <1>1, CommitHolds
<1>2. /\ t.kind = "redeem" /\ t.user \in Users /\ t.of \in DOMAIN inv /\ KnownUser(t) /\ StillOffered(t)
      /\ \A n \in DOMAIN Locks(t) : Locks(t)[n] \subseteq t.held
  BY <1>1, <1>0 DEF ConversationsInv, TypesInv, TxnOK, OfUser, StillAdmitted
<1>3. <<User(t.user), "update">> \in t.held /\ <<Invitation(t.of), "update">> \in t.held
  BY <1>2, RedeemLocks
<1>4. Has(t, User(t.user)) /\ Has(t, Invitation(t.of))
  BY <1>3 DEF Has
<1>. QED BY <1>1, <1>2, <1>4 DEF KnownUser, StillOffered

LEMMA CommitRedeemKeeps ==
  ASSUME ConversationsInv, NEW p \in Transactions, CommitRedeem(p)
  PROVE  ConversationsInv' /\ Forward
<1>1. Commits(p, {"redeem"}) /\ txn' = [txn EXCEPT ![p] = Idle] /\ UNCHANGED <<alive, verified, inv>>
  BY DEF CommitRedeem, Commits
<1>2. PICK t : t = txn[p]
  OBVIOUS
<1>3. t.user \in Users /\ t.of \in DOMAIN inv
  BY <1>1, <1>2, RedeemRead
<1>4. RowsOK
  BY DEF ConversationsInv, TypesInv
<1>5. inv[t.of].owner \in Users /\ t.of \in Nat
  <2>1. inv \in Seq(InvitationRows)
    BY <1>4 DEF RowsOK
  <2>2. inv[t.of] \in InvitationRows /\ t.of \in Nat
    BY <1>3, <2>1
  <2>. QED BY <2>2 DEF InvitationRows
<1>6. PICK mode \in CreatedAs :
        conv' = Append(conv, [host |-> inv[t.of].owner, guest |-> t.user,
                              members |-> {inv[t.of].owner, t.user}, status |-> "pending", mode |-> mode,
                              accepted |-> FALSE, from |-> t.of, by |-> {}])
  BY <1>2 DEF CommitRedeem
<1>7. PICK new \in ConversationRows : conv' = Append(conv, new)
  BY <1>3, <1>5, <1>6, CreatedAsAssumption DEF ConversationRows, Modes
<1>8. /\ conv' \in Seq(ConversationRows) /\ DOMAIN conv \subseteq DOMAIN conv'
      /\ \A c \in DOMAIN conv : conv'[c] = conv[c]
  <2>1. conv \in Seq(ConversationRows)
    BY <1>4 DEF RowsOK
  <2>. QED BY <1>7, <2>1
<1>9. Forward
  BY <1>4, <1>8, RowsStayForward
<1>. QED BY <1>1, <1>8, <1>9, ConversationMoves

(* A transition decides on the row as it is. *)
LEMMA TransitionRead ==
  ASSUME ConversationsInv, NEW p \in Transactions, NEW kinds \in SUBSET Transitions, Commits(p, kinds)
  PROVE  LET t == txn[p] IN
         /\ t.user \in Users /\ t.of \in DOMAIN conv
         /\ <<Conversation(t.of), "update">> \in t.held
         /\ t.status = conv[t.of].status
<1>1. PICK t : t = txn[p]
  OBVIOUS
<1>2. /\ t.kind \in Transitions /\ t.user \in Users /\ t.of \in DOMAIN conv /\ Shape(t) /\ Read(t) = t
      /\ \A n \in DOMAIN Locks(t) : Locks(t)[n] \subseteq t.held
  BY <1>1, CommitHolds DEF ConversationsInv, TypesInv, TxnOK, OfUser, OnConversation, InRoom, ReadIsCurrent
<1>3. <<Conversation(t.of), "update">> \in t.held
  BY <1>1, <1>2, HoldsConversation
<1>4. Has(t, Conversation(t.of))
  BY <1>3 DEF Has
<1>5. t.status = conv[t.of].status
  BY <1>2, <1>4, ReadIs DEF StatusUnderLock
<1>. QED BY <1>1, <1>2, <1>3, <1>5

(* A transition writes the row it holds. *)
LEMMA TransitionMoves ==
  ASSUME ConversationsInv, NEW p \in Transactions, NEW kinds \in SUBSET Transitions, Commits(p, kinds),
         UNCHANGED <<alive, verified, inv>>,
         NEW row \in ConversationRows, conv' = [conv EXCEPT ![txn[p].of] = row],
         Rank[conv[txn[p].of].status] <= Rank[row.status],
         conv[txn[p].of].mode = "stored" => row.mode = "stored"
  PROVE  ConversationsInv' /\ Forward
<1>1. PICK k : k = txn[p].of
  OBVIOUS
<1>2. k \in DOMAIN conv /\ <<Conversation(k), "update">> \in txn[p].held /\ txn' = [txn EXCEPT ![p] = Idle]
  BY <1>1, TransitionRead DEF Commits
<1>3. RowsOK /\ conv \in Seq(ConversationRows)
  BY DEF ConversationsInv, TypesInv, RowsOK
<1>4. conv' \in Seq(ConversationRows) /\ DOMAIN conv' = DOMAIN conv
  BY <1>1, <1>2, <1>3
<1>5. conv'[k] = row /\ \A c \in DOMAIN conv : c # k => conv'[c] = conv[c]
  BY <1>1, <1>2
<1>6. Forward
  <2>1. \A c \in DOMAIN conv : Rank[conv[c].status] \in Nat
    BY <1>3, Ranks
  <2>. QED BY <1>1, <1>5, <2>1 DEF Forward
<1>. QED BY <1>2, <1>4, <1>5, <1>6, ConversationMoves

(* A commit that leaves the conversations as they are. *)
LEMMA ConversationsStay ==
  ASSUME ConversationsInv, NEW p \in Transactions, txn' = [txn EXCEPT ![p] = Idle],
         UNCHANGED <<alive, verified, inv, conv>>
  PROVE  ConversationsInv' /\ Forward
<1>1. RowsOK
  BY DEF ConversationsInv, TypesInv
<1>. QED BY <1>1, RollbackKeeps, RowsStayForward

LEMMA CommitAcceptKeeps ==
  ASSUME ConversationsInv, NEW p \in Transactions, CommitAccept(p)
  PROVE  ConversationsInv' /\ Forward
<1>1. Commits(p, {"accept"}) /\ txn' = [txn EXCEPT ![p] = Idle] /\ UNCHANGED <<alive, verified, inv>>
      /\ {"accept"} \in SUBSET Transitions
  BY DEF CommitAccept, Commits, Transitions
<1>2. PICK t : t = txn[p]
  OBVIOUS
<1>3. t.of \in DOMAIN conv /\ t.status = conv[t.of].status
  BY <1>1, <1>2, TransitionRead
<1>4. CASE t.status = "pending"
  <2>1. conv' = [conv EXCEPT ![t.of].status = "active", ![t.of].accepted = TRUE]
    BY <1>2, <1>4 DEF CommitAccept
  <2>2. conv[t.of] \in ConversationRows
    BY <1>3 DEF ConversationsInv, TypesInv, RowsOK
  <2>3. PICK row : row = [conv[t.of] EXCEPT !.status = "active", !.accepted = TRUE]
    OBVIOUS
  <2>4. row \in ConversationRows /\ row.status = "active" /\ row.mode = conv[t.of].mode
    BY <2>2, <2>3 DEF ConversationRows
  <2>5. conv' = [conv EXCEPT ![t.of] = row]
    BY <1>3, <2>1, <2>3
  <2>6. Rank[conv[t.of].status] <= Rank[row.status]
    BY <1>3, <1>4, <2>4 DEF Rank
  <2>. QED BY <1>1, <1>2, <2>4, <2>5, <2>6, TransitionMoves
<1>5. CASE t.status # "pending"
  <2>1. conv' = conv
    BY <1>2, <1>5 DEF CommitAccept
  <2>. QED BY <1>1, <2>1, ConversationsStay
<1>. QED BY <1>4, <1>5

LEMMA CommitUpgradeKeeps ==
  ASSUME ConversationsInv, NEW p \in Transactions, CommitUpgrade(p)
  PROVE  ConversationsInv' /\ Forward
<1>1. Commits(p, {"upgrade"}) /\ txn' = [txn EXCEPT ![p] = Idle] /\ UNCHANGED <<alive, verified, inv>>
      /\ {"upgrade"} \in SUBSET Transitions
  BY DEF CommitUpgrade, Commits, Transitions
<1>2. PICK t : t = txn[p]
  OBVIOUS
<1>3. t.of \in DOMAIN conv /\ t.user \in Users
  BY <1>1, <1>2, TransitionRead
<1>4. CASE conv[t.of].mode = "ephemeral"
  <2>1. conv' = [conv EXCEPT ![t.of].mode = "stored", ![t.of].by = @ \cup {t.user}]
    BY <1>2, <1>4 DEF CommitUpgrade
  <2>2. conv[t.of] \in ConversationRows
    BY <1>3 DEF ConversationsInv, TypesInv, RowsOK
  <2>3. PICK row : row = [conv[t.of] EXCEPT !.mode = "stored", !.by = @ \cup {t.user}]
    OBVIOUS
  <2>4. row \in ConversationRows /\ row.mode = "stored" /\ row.status = conv[t.of].status
    BY <1>3, <2>2, <2>3 DEF ConversationRows, Modes
  <2>5. conv' = [conv EXCEPT ![t.of] = row]
    BY <1>3, <2>1, <2>3
  <2>6. Rank[conv[t.of].status] <= Rank[row.status]
    BY <2>2, <2>4 DEF ConversationRows, Rank
  <2>. QED BY <1>1, <1>2, <2>4, <2>5, <2>6, TransitionMoves
<1>5. CASE conv[t.of].mode # "ephemeral"
  <2>1. conv' = conv
    BY <1>2, <1>5 DEF CommitUpgrade
  <2>. QED BY <1>1, <2>1, ConversationsStay
<1>. QED BY <1>4, <1>5

LEMMA CommitCloseKeeps ==
  ASSUME ConversationsInv, NEW p \in Transactions, CommitClose(p)
  PROVE  ConversationsInv' /\ Forward
<1>1. Commits(p, {"close", "leave"}) /\ UNCHANGED <<alive, verified, inv>>
      /\ {"close", "leave"} \in SUBSET Transitions
  BY DEF CommitClose, Transitions
<1>2. PICK t : t = txn[p]
  OBVIOUS
<1>3. t.of \in DOMAIN conv /\ t.user \in Users
  BY <1>1, <1>2, TransitionRead
<1>4. conv[t.of] \in ConversationRows
  BY <1>3 DEF ConversationsInv, TypesInv, RowsOK
<1>5. PICK members \in SUBSET conv[t.of].members : conv' = Close(t, members)
  BY <1>2 DEF CommitClose
<1>6. PICK row : row = [conv[t.of] EXCEPT !.members = members, !.status = "closed",
                           !.by = conv[t.of].by \cup IF conv[t.of].status = "closed" THEN {} ELSE {t.user}]
  OBVIOUS
<1>7. row \in ConversationRows /\ row.status = "closed" /\ row.mode = conv[t.of].mode
  BY <1>3, <1>4, <1>6 DEF ConversationRows
<1>8. conv' = [conv EXCEPT ![t.of] = row]
  BY <1>5, <1>6 DEF Close
<1>9. Rank[conv[t.of].status] <= Rank[row.status]
  BY <1>4, <1>7 DEF ConversationRows, Rank
<1>. QED BY <1>1, <1>2, <1>7, <1>8, <1>9, TransitionMoves

LEMMA CommitOtherKeeps ==
  ASSUME ConversationsInv, NEW p \in Transactions, CommitOther(p)
  PROVE  ConversationsInv' /\ Forward
BY ConversationsStay DEF CommitOther, Commits

LEMMA CommitAddressKeeps ==
  ASSUME ConversationsInv, NEW p \in Transactions, CommitAddress(p)
  PROVE  ConversationsInv' /\ Forward
<1>1. /\ Commits(p, {"address"}) /\ txn' = [txn EXCEPT ![p] = Idle] /\ UNCHANGED <<alive, inv, conv>>
      /\ verified' \in {verified \ {txn[p].user}, verified \cup {txn[p].user}}
  BY DEF CommitAddress, Commits
<1>2. PICK u : u = txn[p].user
  OBVIOUS
<1>3. RowsOK /\ TxnOK(txn[p])
  BY DEF ConversationsInv, TypesInv
<1>4. u \in Users /\ <<User(u), "update">> \in txn[p].held
  BY <1>1, <1>2, <1>3, CommitHolds, HoldsUser DEF TxnOK, OfUser, OnUser
<1>5. RowsOK'
  BY <1>1, <1>2, <1>3, <1>4 DEF RowsOK
<1>6. Forward
  BY <1>1, <1>3, RowsStayForward
<1>7. OwnersHaveOne' /\ OneActiveInvitation' /\ \A v : Owned(v)' = Owned(v)
  BY <1>1, InvitationsStay
<1>8. \A v : \/ (v \in alive' <=> v \in alive) /\ (v \in verified' <=> v \in verified)
            \/ <<User(v), "update">> \in txn[p].held
  BY <1>1, <1>2, <1>4
<1>. QED BY <1>1, <1>5, <1>6, <1>7, <1>8, CommitMoves

LEMMA CommitDeleteKeeps ==
  ASSUME ConversationsInv, NEW p \in Transactions, CommitDelete(p)
  PROVE  ConversationsInv' /\ Forward
<1>1. Commits(p, {"delete"}) /\ txn' = [txn EXCEPT ![p] = Idle]
  BY DEF CommitDelete, Commits
<1>2. PICK u : u = txn[p].user
  OBVIOUS
<1>3. /\ alive' = alive \ {u} /\ verified' = verified \ {u}
      /\ inv' = [i \in DOMAIN inv |-> IF inv[i].owner = u THEN [inv[i] EXCEPT !.status = "gone"] ELSE inv[i]]
      /\ conv' = [c \in DOMAIN conv |->
                    [conv[c] EXCEPT !.members = @ \ {u}, !.by = @ \ {u},
                                    !.from = IF conv[c].from \in Owned(u) THEN 0 ELSE conv[c].from]]
  BY <1>2 DEF CommitDelete
<1>4. RowsOK /\ TxnOK(txn[p]) /\ OwnersHaveOne /\ OneActiveInvitation
  BY DEF ConversationsInv, TypesInv
<1>5. <<User(u), "update">> \in txn[p].held /\ \A i \in Owned(u) : <<Invitation(i), "update">> \in txn[p].held
  <2>1. txn[p].kind = "delete" /\ \A n \in DOMAIN Locks(txn[p]) : Locks(txn[p])[n] \subseteq txn[p].held
    <3>1. txn[p].kind = "delete"
      BY <1>1 DEF Commits
    <3>. QED BY <1>1, <3>1, CommitHolds
  <2>2. <<User(u), "update">> \in txn[p].held
    BY <1>2, <2>1, HoldsUser DEF OnUser
  <2>3. \A i \in Owned(txn[p].user) : <<Invitation(i), "update">> \in txn[p].held
    BY <2>1, HoldsInvitations
  <2>. QED BY <1>2, <2>2, <2>3
<1>6. /\ Len(inv) \in Nat /\ DOMAIN inv = 1..Len(inv) /\ \A i \in DOMAIN inv : inv[i] \in InvitationRows
      /\ Len(conv) \in Nat /\ DOMAIN conv = 1..Len(conv) /\ \A c \in DOMAIN conv : conv[c] \in ConversationRows
  BY <1>4 DEF RowsOK
<1>7. DOMAIN inv' = DOMAIN inv /\ DOMAIN conv' = DOMAIN conv
  BY <1>3
<1>8. \A i \in DOMAIN inv :
        /\ inv'[i] \in InvitationRows /\ inv'[i].owner = inv[i].owner
        /\ inv[i].owner = u => inv'[i].status = "gone"
        /\ inv[i].owner # u => inv'[i] = inv[i]
  BY <1>3, <1>6 DEF InvitationRows
<1>9. inv' \in Seq(InvitationRows)
  <2>1. inv' = [i \in 1..Len(inv) |-> inv'[i]]
    BY <1>3, <1>6
  <2>. QED BY <1>6, <1>8, <2>1
<1>10. \A c \in DOMAIN conv :
         /\ conv'[c] \in ConversationRows /\ conv'[c].status = conv[c].status /\ conv'[c].mode = conv[c].mode
  <2>. SUFFICES ASSUME NEW c \in DOMAIN conv
                PROVE  /\ conv'[c] \in ConversationRows
                       /\ conv'[c].status = conv[c].status /\ conv'[c].mode = conv[c].mode
    OBVIOUS
  <2>1. conv'[c] = [conv[c] EXCEPT !.members = @ \ {u}, !.by = @ \ {u},
                                   !.from = IF conv[c].from \in Owned(u) THEN 0 ELSE conv[c].from]
    BY <1>3
  <2>2. PICK from : from = IF conv[c].from \in Owned(u) THEN 0 ELSE conv[c].from
    OBVIOUS
  <2>3. conv[c] \in ConversationRows
    BY <1>6
  <2>4. from \in Nat
    BY <2>2, <2>3 DEF ConversationRows
  <2>5. conv'[c] = [conv[c] EXCEPT !.members = @ \ {u}, !.by = @ \ {u}, !.from = from]
    BY <2>1, <2>2
  <2>. QED BY <2>3, <2>4, <2>5 DEF ConversationRows
<1>11. conv' \in Seq(ConversationRows)
  <2>1. conv' = [c \in 1..Len(conv) |-> conv'[c]]
    BY <1>3, <1>6
  <2>. QED BY <1>6, <1>10, <2>1
<1>12. RowsOK'
  BY <1>3, <1>4, <1>9, <1>11 DEF RowsOK
<1>13. Forward
  BY <1>4, <1>10, RowsStayForward
<1>14. \A v : v # u => Owned(v)' = Owned(v) /\ (\A i \in Owned(v) : inv'[i] = inv[i]) /\ Active(v)' = Active(v)
  <2>1. \A v : v # u => Owned(v)' = Owned(v) /\ (\A i \in Owned(v) : inv'[i] = inv[i])
    BY <1>7, <1>8 DEF Owned
  <2>. QED BY <2>1 DEF Active
<1>15. Owned(u)' = {} /\ Active(u)' = {}
  <2>1. Owned(u)' = {}
    BY <1>7, <1>8 DEF Owned
  <2>. QED BY <2>1 DEF Active
<1>16. OwnersHaveOne'
  BY <1>4, <1>14, <1>15 DEF OwnersHaveOne
<1>17. OneActiveInvitation'
  <2>. SUFFICES ASSUME NEW v \in Users, NEW i \in Active(v)', NEW j \in Owned(v)' \ {i}
                PROVE  inv'[j].status = "revoked" /\ inv'[j].generation < inv'[i].generation
    BY DEF OneActiveInvitation
  <2>1. v # u
    BY <1>15
  <2>2. i \in Active(v) /\ j \in Owned(v) \ {i} /\ i \in Owned(v)
    BY <1>14, <2>1 DEF Active
  <2>. QED BY <1>4, <1>14, <2>1, <2>2 DEF OneActiveInvitation
<1>18. \A i \in DOMAIN inv : inv'[i].owner = inv[i].owner
                             /\ (inv'[i].status = inv[i].status \/ <<Invitation(i), "update">> \in txn[p].held)
  <2>. SUFFICES ASSUME NEW i \in DOMAIN inv, inv'[i].status # inv[i].status
                PROVE  <<Invitation(i), "update">> \in txn[p].held
    BY <1>8
  <2>1. inv[i].owner = u /\ inv[i].status # "gone"
    BY <1>8
  <2>. QED BY <1>5, <2>1 DEF Owned
<1>19. \A v : \/ (v \in alive' <=> v \in alive) /\ (v \in verified' <=> v \in verified)
             \/ <<User(v), "update">> \in txn[p].held
  BY <1>3, <1>5
<1>20. \A v : \/ Owned(v)' = Owned(v) /\ \A i \in Owned(v) : inv'[i] = inv[i]
             \/ <<User(v), "update">> \in txn[p].held
  BY <1>5, <1>14
<1>21. \A c \in DOMAIN conv : conv'[c].status = conv[c].status \/ <<Conversation(c), "update">> \in txn[p].held
  BY <1>10
<1>. QED BY <1>1, <1>7, <1>12, <1>13, <1>16, <1>17, <1>18, <1>19, <1>20, <1>21, CommitMoves

-----------------------------------------------------------------------------
(* Every step *)

LEMMA ConversationsStart == Init => ConversationsInv
<1>. SUFFICES ASSUME Init PROVE ConversationsInv
  OBVIOUS
<1>1. inv = <<>> /\ conv = <<>> /\ alive = Users /\ verified \subseteq Users
  <2>1. PICK v \in SUBSET Movers : verified = v \cup (Users \ Movers)
    BY DEF Init
  <2>. QED BY <2>1, MoversAssumption DEF Init
<1>2. DOMAIN txn = Transactions /\ \A p \in Transactions : txn[p] = Idle
  BY DEF Init
<1>3. txn = [p \in Transactions |-> txn[p]]
  BY DEF Init
<1>4. RowsOK
  BY <1>1 DEF RowsOK
<1>5. \A u : Owned(u) = {}
  BY <1>1 DEF Owned
<1>6. OwnersHaveOne /\ OneActiveInvitation
  BY <1>5 DEF OwnersHaveOne, OneActiveInvitation, Active
<1>7. LocksExclude
  <2>1. Idle.held = {}
    BY DEF Idle
  <2>. QED BY <1>2, <2>1 DEF LocksExclude
<1>. QED BY <1>2, <1>3, <1>4, <1>6, <1>7, IdleIsFine DEF ConversationsInv, TypesInv

LEMMA ConversationsStep ==
  ConversationsInv /\ [Next]_vars => ConversationsInv' /\ Forward
<1>. SUFFICES ASSUME ConversationsInv, [Next]_vars PROVE ConversationsInv' /\ Forward
  OBVIOUS
<1>0. RowsOK
  BY DEF ConversationsInv, TypesInv
<1>1. CASE UNCHANGED vars
  <2>1. UNCHANGED <<alive, verified, inv, conv, txn>>
    BY <1>1 DEF vars
  <2>2. Forward
    BY <1>0, <2>1, RowsStayForward
  <2>3. TypesInv'
    BY <2>1 DEF ConversationsInv, TypesInv, RowsOK, TxnOK, Shape
  <2>4. OwnersHaveOne' /\ OneActiveInvitation' /\ LocksExclude'
    BY <2>1 DEF ConversationsInv, OwnersHaveOne, OneActiveInvitation, Active, Owned, LocksExclude
  <2>5. \A p \in Transactions : InOrder(txn[p])'
    BY <2>1 DEF ConversationsInv, InOrder, Has
  <2>6. \A p \in Transactions : ReadIsCurrent(txn[p])'
    <3>1. ASSUME NEW p \in Transactions PROVE Read(txn[p])' = Read(txn[p])
      BY <2>1 DEF Read, StatusUnderLock, NextGeneration, Has, Active, Owned, OwnRow
    <3>. QED BY <2>1, <3>1 DEF ConversationsInv, ReadIsCurrent
  <2>7. \A p \in Transactions : StillAdmitted(txn[p])'
    BY <2>1 DEF ConversationsInv, StillAdmitted, KnownUser, StillOffered, Has
  <2>8. ConversationsInv'
    BY <2>3, <2>4, <2>5, <2>6, <2>7 DEF ConversationsInv
  <2>. QED BY <2>2, <2>8
<1>2. ASSUME NEW p \in Transactions, Begin(p) PROVE ConversationsInv' /\ Forward
  <2>1. conv' = conv
    BY <1>2 DEF Begin
  <2>. QED BY <1>0, <1>2, <2>1, BeginKeeps, RowsStayForward
<1>3. ASSUME NEW p \in Transactions, Acquire(p) PROVE ConversationsInv' /\ Forward
  <2>1. conv' = conv
    BY <1>3 DEF Acquire
  <2>. QED BY <1>0, <1>3, <2>1, AcquireKeeps, RowsStayForward
<1>4. ASSUME NEW p \in Transactions, Rollback(p) PROVE ConversationsInv' /\ Forward
  BY <1>4, ConversationsStay DEF Rollback
<1>5. ASSUME NEW p \in Transactions, CommitCodes(p) PROVE ConversationsInv' /\ Forward
  <2>1. conv' = conv
    BY <1>5 DEF CommitCodes
  <2>. QED BY <1>0, <1>5, <2>1, CommitCodesKeeps, RowsStayForward
<1>. QED BY <1>1, <1>2, <1>3, <1>4, <1>5, CommitRedeemKeeps, CommitAcceptKeeps, CommitUpgradeKeeps,
            CommitCloseKeeps, CommitOtherKeeps, CommitAddressKeeps, CommitDeleteKeeps DEF Next, Commit

(* A commit that creates a conversation found the code at work. *)
LEMMA RedeemFinds ==
  ASSUME ConversationsInv, NEW p \in Transactions, CommitRedeem(p), NEW c \in DOMAIN conv' \ DOMAIN conv
  PROVE  LET i == inv[conv'[c].from] IN
         /\ i.status = "active"
         /\ conv'[c].members \subseteq alive \cap verified
         /\ \A j \in Owned(i.owner) : inv[j].generation <= i.generation
<1>1. PICK t : t = txn[p]
  OBVIOUS
<1>2. /\ t.of \in DOMAIN inv /\ t.user \in alive \cap verified /\ inv[t.of].owner \in alive \cap verified
      /\ inv[t.of].status = "active"
  BY <1>1, RedeemRead DEF CommitRedeem
<1>3. RowsOK /\ OneActiveInvitation
  BY DEF ConversationsInv, TypesInv
<1>4. PICK mode \in CreatedAs :
        conv' = Append(conv, [host |-> inv[t.of].owner, guest |-> t.user,
                              members |-> {inv[t.of].owner, t.user}, status |-> "pending", mode |-> mode,
                              accepted |-> FALSE, from |-> t.of, by |-> {}])
  BY <1>1 DEF CommitRedeem
<1>5. PICK new : conv' = Append(conv, new) /\ new.from = t.of /\ new.members = {inv[t.of].owner, t.user}
  BY <1>4
<1>6. conv \in Seq(ConversationRows) /\ Len(conv) \in Nat /\ DOMAIN conv = 1..Len(conv)
  BY <1>3 DEF RowsOK
<1>7. c = Len(conv) + 1 /\ conv'[c] = new
  BY <1>5, <1>6
<1>8. \A j \in DOMAIN inv : inv[j].owner \in Users /\ inv[j].generation \in Nat
  <2>1. \A j \in DOMAIN inv : inv[j] \in InvitationRows
    BY <1>3 DEF RowsOK
  <2>. QED BY <2>1, GenerationAssumption DEF InvitationRows
<1>9. PICK i : i = t.of
  OBVIOUS
<1>10. i \in Active(inv[i].owner)
  BY <1>2, <1>9 DEF Active, Owned
<1>11. \A j \in Owned(inv[i].owner) : inv[j].generation <= inv[i].generation
  <2>1. \A j \in Owned(inv[i].owner) \ {i} : inv[j].generation < inv[i].generation
    BY <1>2, <1>3, <1>8, <1>9, <1>10 DEF OneActiveInvitation
  <2>. QED BY <1>2, <1>8, <1>9, <2>1 DEF Owned
<1>. QED BY <1>2, <1>5, <1>7, <1>9, <1>11

LEMMA CreatedStep ==
  ASSUME ConversationsInv, [Next]_vars, NEW c \in DOMAIN conv' \ DOMAIN conv
  PROVE  LET i == inv[conv'[c].from] IN
         /\ i.status = "active"
         /\ conv'[c].members \subseteq alive \cap verified
         /\ \A j \in Owned(i.owner) : inv[j].generation <= i.generation
<1>1. conv' # conv
  OBVIOUS
<1>2. PICK p \in Transactions : Begin(p) \/ Acquire(p) \/ Commit(p) \/ Rollback(p)
  BY <1>1 DEF Next, vars
<1>3. ~ Begin(p) /\ ~ Acquire(p) /\ ~ Rollback(p) /\ ~ CommitCodes(p) /\ ~ CommitOther(p) /\ ~ CommitAddress(p)
  BY <1>1 DEF Begin, Acquire, Rollback, CommitCodes, CommitOther, CommitAddress
<1>4. ~ CommitAccept(p) /\ ~ CommitUpgrade(p)
  BY DEF CommitAccept, CommitUpgrade
<1>5. ~ CommitClose(p)
  BY DEF CommitClose, Close
<1>6. ~ CommitDelete(p)
  BY DEF CommitDelete
<1>7. CommitRedeem(p)
  BY <1>2, <1>3, <1>4, <1>5, <1>6 DEF Commit
<1>. QED BY <1>7, RedeemFinds

-----------------------------------------------------------------------------
(* Who waits for whom *)

OwnRowUpdate(t) == <<User(t.user), "update">>
OwnRowNoKey(t)  == <<User(t.user), "no_key">>
RoomUpdate(t)   == <<Conversation(t.of), "update">>
VoteUpdate(t)   == <<Vote(t.of), "update">>
AnswerNoKey(t)  == <<Delivery(t.of), "no_key">>
FirstUser(t)    == <<User(HostAndGuest(t)[1]), "update">>
SecondUser(t)   == <<User(HostAndGuest(t)[2]), "update">>

(* The locks of each kind of transaction, each with the locks it takes before. *)
MayLock(t, l) ==
  \/ t.kind \in Codes \cup OnUser /\ l = OwnRowUpdate(t)
  \/ /\ t.kind \in Codes \cup {"delete"} /\ OwnRowUpdate(t) \in t.held
     /\ \E i \in DOMAIN inv : inv[i].owner = t.user /\ l = <<Invitation(i), "update">>
  \/ /\ t.kind = "delete" /\ OwnRowUpdate(t) \in t.held
     /\ \E c : \/ l = <<Conversation(c), "no_key">>
              \/ \E row \in {Member(c, t.user), Message(c, t.user), Delivery(c)} : l = <<row, "update">>
  \/ t.kind = "redeem" /\ l = FirstUser(t)
  \/ t.kind = "redeem" /\ FirstUser(t) \in t.held /\ l = SecondUser(t)
  \/ t.kind = "redeem" /\ {FirstUser(t), SecondUser(t)} \subseteq t.held /\ l = <<Invitation(t.of), "update">>
  \/ t.kind \in InRoom /\ l = OwnRowNoKey(t)
  \/ t.kind \in InRoom /\ OwnRowNoKey(t) \in t.held /\ l = RoomUpdate(t)
  \/ t.kind \in OfWorker /\ l = RoomUpdate(t)
  \/ /\ t.kind \in {"accept", "cast", "resolve"} /\ RoomUpdate(t) \in t.held
     /\ l = VoteUpdate(t) \/ \E u : l = <<Message(t.of, u), "update">>
  \/ t.kind = "accept" /\ RoomUpdate(t) \in t.held /\ \E u : l = <<Member(t.of, u), "no_key">>
  \/ t.kind = "leave" /\ RoomUpdate(t) \in t.held /\ l = <<Member(t.of, t.user), "no_key">>
  \/ t.kind \in {"ack", "reconcile"} /\ RoomUpdate(t) \in t.held /\ l = AnswerNoKey(t)
  \/ t.kind = "send" /\ RoomUpdate(t) \in t.held /\ \E u \in Users : l = <<User(u), "key_share">>
  \/ t.kind = "purge" /\ \E c : l = <<Delivery(c), "update">> \/ \E u : l = <<Message(c, u), "update">>

HoldsInOrder(t) ==
  /\ \A l \in t.held : MayLock(t, l)
  /\ t.kind = "redeem" => inv[t.of].owner # t.user

OnePurge == \A p, q \in Transactions : txn[p].kind = "purge" /\ txn[q].kind = "purge" => p = q

HeldInv == (\A p \in Transactions : HoldsInOrder(txn[p])) /\ OnePurge

LEMMA WantedMay ==
  ASSUME ConversationsInv, NEW p \in Transactions, NEW lock \in Wanted(p)
  PROVE  MayLock(txn[p], lock)
<1>0. PICK t : t = txn[p]
  OBVIOUS
<1>1. TxnOK(t) /\ ReadIsCurrent(t)
  BY <1>0 DEF ConversationsInv, TypesInv
<1>2. PICK n \in DOMAIN Locks(t) :
        /\ lock \in Locks(t)[n] \ t.held
        /\ \A k \in DOMAIN Locks(t) : k < n => Locks(t)[k] \subseteq t.held
  BY <1>0, WantedIs
<1>3. CASE t.kind \in Codes
  <2>1. Locks(t) = <<{OwnRowUpdate(t)}, Lock({Invitation(i) : i \in t.current}, "update")>>
    BY <1>3 DEF Locks, Codes, Transitions, OfWorker, OwnRow, OwnRowUpdate, Lock
  <2>2. CASE n = 1
    BY <1>0, <1>2, <1>3, <2>1, <2>2 DEF MayLock
  <2>3. CASE n = 2
    <3>1. OwnRowUpdate(t) \in t.held
      BY <1>2, <2>1, <2>3
    <3>2. PICK i \in t.current : lock = <<Invitation(i), "update">>
      BY <1>2, <2>1, <2>3 DEF Lock
    <3>3. t.current = Active(t.user)
      <4>1. OwnRow(t, "update") \subseteq t.held
        BY <3>1 DEF OwnRow, OwnRowUpdate, Lock
      <4>. QED BY <1>1, <1>3, <4>1, ReadIs DEF TxnOK, ReadIsCurrent
    <3>4. i \in DOMAIN inv /\ inv[i].owner = t.user
      BY <3>2, <3>3 DEF Active, Owned
    <3>. QED BY <1>0, <1>3, <3>1, <3>2, <3>4 DEF MayLock
  <2>. QED BY <1>0, <1>2, <2>1, <2>2, <2>3
<1>4. CASE t.kind = "redeem"
  <2>1. Locks(t) = <<{FirstUser(t)}, {SecondUser(t)}, {<<Invitation(t.of), "update">>}>>
    BY <1>4 DEF Locks, Codes, Transitions, Lock, FirstUser, SecondUser
  <2>2. CASE n = 1
    BY <1>0, <1>2, <1>4, <2>1, <2>2 DEF MayLock
  <2>3. CASE n = 2
    BY <1>0, <1>2, <1>4, <2>1, <2>3 DEF MayLock
  <2>4. CASE n = 3
    BY <1>0, <1>2, <1>4, <2>1, <2>4 DEF MayLock
  <2>. QED BY <1>2, <2>1, <2>2, <2>3, <2>4
<1>5. CASE t.kind \in InRoom
  <2>1. /\ {1, 2} \subseteq DOMAIN Locks(t) /\ Locks(t)[1] = {OwnRowNoKey(t)} /\ Locks(t)[2] = {RoomUpdate(t)}
        /\ n \in 1..4
    BY <1>2, <1>5, RoomLocks DEF Lock, OwnRow, OwnRowNoKey, RoomUpdate
  <2>2. CASE n = 1
    BY <1>0, <1>2, <1>5, <2>1, <2>2 DEF MayLock
  <2>3. CASE n = 2
    BY <1>0, <1>2, <1>5, <2>1, <2>3 DEF MayLock
  <2>4. CASE n \in {3, 4}
    <3>1. RoomUpdate(t) \in t.held
      BY <1>2, <2>1, <2>4
    <3>2. CASE t.kind \in {"accept", "cast"} /\ lock \in {VoteUpdate(t)} \cup Messages(t.of)
      <4>1. lock = VoteUpdate(t) \/ \E u : lock = <<Message(t.of, u), "update">>
        BY <3>2 DEF Messages, Lock
      <4>. QED BY <1>0, <3>1, <3>2, <4>1 DEF MayLock
    <3>3. CASE n = 3 /\ (t.kind = "leave" \/ (t.kind = "accept" /\ t.status # "active"))
      <4>1. Locks(t)[3] = Lock({Member(t.of, u) : u \in IF t.kind = "leave" THEN {t.user} ELSE conv[t.of].members},
                               "no_key")
        BY <3>3 DEF Locks, Codes, Transitions, OfWorker
      <4>2. CASE t.kind = "accept"
        <5>1. \E u : lock = <<Member(t.of, u), "no_key">>
          BY <1>2, <3>3, <4>1, <4>2 DEF Lock
        <5>. QED BY <1>0, <3>1, <4>2, <5>1 DEF MayLock
      <4>3. CASE t.kind = "leave"
        <5>1. lock = <<Member(t.of, t.user), "no_key">>
          BY <1>2, <3>3, <4>1, <4>3 DEF Lock
        <5>. QED BY <1>0, <3>1, <4>3, <5>1 DEF MayLock
      <4>. QED BY <3>3, <4>2, <4>3
    <3>4. CASE t.kind = "send"
      <4>1. lock \in Lock({User(u) : u \in conv[t.of].members}, "key_share")
        BY <1>2, <2>4, <3>4 DEF Locks, Codes, Transitions
      <4>2. t.of \in DOMAIN conv
        BY <1>1, <3>4 DEF TxnOK, OnConversation, InRoom
      <4>3. conv[t.of] \in ConversationRows
        BY <4>2 DEF ConversationsInv, TypesInv, RowsOK
      <4>4. \E u \in Users : lock = <<User(u), "key_share">>
        BY <4>1, <4>3 DEF Lock, ConversationRows
      <4>. QED BY <1>0, <3>1, <3>4, <4>4 DEF MayLock
    <3>5. CASE t.kind = "ack"
      <4>1. lock = AnswerNoKey(t)
        BY <1>2, <2>4, <3>5 DEF Locks, Codes, Transitions, Lock, AnswerNoKey
      <4>. QED BY <1>0, <3>1, <3>5, <4>1 DEF MayLock
    <3>6. CASE t.kind \in {"upgrade", "close"}
      BY <1>2, <2>4, <3>6 DEF Locks, Codes, Transitions
    <3>7. t.kind = "cast" \/ (t.kind = "accept" /\ t.status = "active") => lock \in {VoteUpdate(t)} \cup Messages(t.of)
      BY <1>2, <2>4 DEF Locks, Codes, Transitions, Lock, VoteUpdate
    <3>8. t.kind = "leave" \/ (t.kind = "accept" /\ t.status # "active") => n = 3
      BY <1>2, <2>4 DEF Locks, Codes, Transitions
    <3>. QED BY <1>5, <3>2, <3>3, <3>4, <3>5, <3>6, <3>7, <3>8 DEF InRoom, Transitions
  <2>. QED BY <2>1, <2>2, <2>3, <2>4
<1>6. CASE t.kind = "resolve"
  <2>1. Locks(t) = <<{RoomUpdate(t)}, {VoteUpdate(t)}, Messages(t.of)>>
    BY <1>6 DEF Locks, Codes, Transitions, Lock, RoomUpdate, VoteUpdate
  <2>2. n # 1 => RoomUpdate(t) \in t.held
    BY <1>2, <2>1
  <2>3. CASE n = 1
    BY <1>0, <1>2, <1>6, <2>1, <2>3 DEF MayLock, OfWorker
  <2>4. CASE n \in {2, 3}
    <3>1. lock = VoteUpdate(t) \/ \E u : lock = <<Message(t.of, u), "update">>
      BY <1>2, <2>1, <2>4 DEF Messages, Lock
    <3>. QED BY <1>0, <1>6, <2>2, <2>4, <3>1 DEF MayLock
  <2>. QED BY <1>2, <2>1, <2>3, <2>4
<1>7. CASE t.kind = "reconcile"
  <2>1. Locks(t) = <<{RoomUpdate(t)}, {AnswerNoKey(t)}>>
    BY <1>7 DEF Locks, Codes, Transitions, Lock, RoomUpdate, AnswerNoKey
  <2>2. CASE n = 1
    BY <1>0, <1>2, <1>7, <2>1, <2>2 DEF MayLock, OfWorker
  <2>3. CASE n = 2
    <3>1. lock = AnswerNoKey(t) /\ RoomUpdate(t) \in t.held
      BY <1>2, <2>1, <2>3
    <3>. QED BY <1>0, <1>7, <3>1 DEF MayLock
  <2>. QED BY <1>2, <2>1, <2>2, <2>3
<1>8. CASE t.kind = "purge"
  <2>1. lock \in Contents
    BY <1>2, <1>8 DEF Locks, Codes, Transitions
  <2>2. \E c : lock = <<Delivery(c), "update">> \/ \E u : lock = <<Message(c, u), "update">>
    BY <2>1 DEF Contents, Messages, Lock
  <2>. QED BY <1>0, <1>8, <2>2 DEF MayLock
<1>9. CASE t.kind = "address"
  <2>1. Locks(t) = <<{OwnRowUpdate(t)}>>
    BY <1>9 DEF Locks, Codes, Transitions, OfWorker, OwnRow, OwnRowUpdate, Lock
  <2>. QED BY <1>0, <1>2, <1>9, <2>1 DEF MayLock, OnUser
<1>10. CASE t.kind = "delete"
  <2>1. Locks(t) = <<{OwnRowUpdate(t)}, Lock({Invitation(i) : i \in Owned(t.user)}, "update"), Cascade(t.user)>>
    BY <1>10 DEF Locks, Codes, Transitions, OfWorker, OwnRow, OwnRowUpdate, Lock
  <2>2. CASE n = 1
    BY <1>0, <1>2, <1>10, <2>1, <2>2 DEF MayLock, OnUser
  <2>3. n # 1 => OwnRowUpdate(t) \in t.held
    <3>1. PICK codes, rest, locks : locks = Locks(t) /\ locks = <<{OwnRowUpdate(t)}, codes, rest>>
      BY <2>1
    <3>2. 1 \in DOMAIN locks /\ locks[1] = {OwnRowUpdate(t)} /\ n \in 1..3
      BY <1>2, <3>1
    <3>. QED BY <1>2, <3>1, <3>2
  <2>4. CASE n = 2
    <3>1. PICK i \in Owned(t.user) : lock = <<Invitation(i), "update">>
      BY <1>2, <2>1, <2>4 DEF Lock
    <3>2. i \in DOMAIN inv /\ inv[i].owner = t.user
      BY <3>1 DEF Owned
    <3>. QED BY <1>0, <1>10, <2>3, <2>4, <3>1, <3>2 DEF MayLock
  <2>5. CASE n = 3
    <3>1. lock \in Cascade(t.user)
      BY <1>2, <2>1, <2>5
    <3>2. \E c : \/ lock = <<Conversation(c), "no_key">>
                \/ \E row \in {Member(c, t.user), Message(c, t.user), Delivery(c)} : lock = <<row, "update">>
      BY <3>1 DEF Cascade, Lock
    <3>. QED BY <1>0, <1>10, <2>3, <2>5, <3>2 DEF MayLock
  <2>. QED BY <1>2, <2>1, <2>2, <2>4, <2>5
<1>11. CASE t.kind = "none"
  BY <1>2, <1>11 DEF Locks, Codes, Transitions, OfWorker
<1>. QED BY <1>1, <1>3, <1>4, <1>5, <1>6, <1>7, <1>8, <1>9, <1>10, <1>11 DEF TxnOK, Kinds, OfUser, OfWorker, OnUser

(* What a transaction may lock it still may when it holds more. *)
LEMMA MayLockMore ==
  ASSUME NEW t, NEW r, r.kind = t.kind, r.user = t.user, r.of = t.of, t.held \subseteq r.held, NEW l, MayLock(t, l)
  PROVE  MayLock(r, l)
<1>1. /\ OwnRowUpdate(r) = OwnRowUpdate(t) /\ OwnRowNoKey(r) = OwnRowNoKey(t) /\ RoomUpdate(r) = RoomUpdate(t)
      /\ VoteUpdate(r) = VoteUpdate(t) /\ AnswerNoKey(r) = AnswerNoKey(t) /\ FirstUser(r) = FirstUser(t) /\ SecondUser(r) = SecondUser(t)
  BY DEF OwnRowUpdate, OwnRowNoKey, RoomUpdate, VoteUpdate, AnswerNoKey, FirstUser, SecondUser, HostAndGuest
<1>. QED BY <1>1 DEF MayLock

(* Rows keep their owner and are never inserted twice. *)
RowsGrow ==
  /\ DOMAIN inv \subseteq DOMAIN inv' /\ \A i \in DOMAIN inv : inv'[i].owner = inv[i].owner
  /\ DOMAIN conv \subseteq DOMAIN conv'

LEMMA HeldStays ==
  ASSUME RowsGrow, NEW t, TxnOK(t), HoldsInOrder(t)
  PROVE  HoldsInOrder(t)'
<1>1. t.kind = "redeem" => t.of \in DOMAIN inv /\ inv'[t.of].owner = inv[t.of].owner
  BY DEF RowsGrow, TxnOK
<1>2. /\ OwnRowUpdate(t)' = OwnRowUpdate(t) /\ OwnRowNoKey(t)' = OwnRowNoKey(t) /\ RoomUpdate(t)' = RoomUpdate(t)
      /\ VoteUpdate(t)' = VoteUpdate(t) /\ AnswerNoKey(t)' = AnswerNoKey(t)
  BY DEF OwnRowUpdate, OwnRowNoKey, RoomUpdate, VoteUpdate, AnswerNoKey, User, Conversation, Vote, Delivery
<1>3. t.kind = "redeem" => FirstUser(t)' = FirstUser(t) /\ SecondUser(t)' = SecondUser(t)
  BY <1>1 DEF FirstUser, SecondUser, HostAndGuest, User
<1>4. ASSUME NEW l, MayLock(t, l) PROVE MayLock(t, l)'
  <2>1. \A i \in DOMAIN inv : i \in DOMAIN inv' /\ inv'[i].owner = inv[i].owner
    BY DEF RowsGrow
  <2>. QED BY <1>2, <1>3, <1>4, <2>1 DEF MayLock, Invitation, Conversation, User, Member, Message, Delivery
<1>. QED BY <1>1, <1>4 DEF HoldsInOrder

LEMMA RowsOnlyGrow ==
  ASSUME ConversationsInv, [Next]_vars
  PROVE  RowsGrow
<1>0. /\ Len(inv) \in Nat /\ DOMAIN inv = 1..Len(inv) /\ \A i \in DOMAIN inv : inv[i] \in InvitationRows
      /\ Len(conv) \in Nat /\ DOMAIN conv = 1..Len(conv) /\ conv \in Seq(ConversationRows)
  BY DEF ConversationsInv, TypesInv, RowsOK
<1>1. ASSUME UNCHANGED <<inv, conv>> PROVE RowsGrow
  BY <1>1 DEF RowsGrow
<1>2. CASE UNCHANGED vars
  BY <1>1, <1>2 DEF vars
<1>3. ASSUME NEW p \in Transactions, Begin(p) \/ Acquire(p) \/ Rollback(p) \/ CommitOther(p) \/ CommitAddress(p)
      PROVE  RowsGrow
  BY <1>1, <1>3 DEF Begin, Acquire, Rollback, CommitOther, CommitAddress
<1>4. ASSUME NEW p \in Transactions, CommitCodes(p) PROVE RowsGrow
  <2>1. UNCHANGED conv
    BY <1>4 DEF CommitCodes
  <2>2. CASE txn[p].generation = 0
    BY <1>1, <1>4, <2>1, <2>2 DEF CommitCodes
  <2>3. CASE txn[p].generation # 0
    <3>1. PICK old, new :
            /\ inv' = Append(old, new)
            /\ old = [i \in DOMAIN inv |-> IF i \in Active(txn[p].user) THEN [inv[i] EXCEPT !.status = "revoked"]
                                                                       ELSE inv[i]]
      BY <1>4, <2>3 DEF CommitCodes
    <3>2. old \in Seq(InvitationRows)
      <4>1. \A i \in DOMAIN inv : old[i] \in InvitationRows
        BY <1>0, <3>1 DEF InvitationRows
      <4>2. old = [i \in 1..Len(inv) |-> old[i]]
        BY <1>0, <3>1
      <4>. QED BY <1>0, <4>1, <4>2
    <3>3. DOMAIN old = DOMAIN inv /\ Len(old) = Len(inv)
      BY <1>0, <3>1, <3>2
    <3>4. \A i \in DOMAIN inv : i \in DOMAIN inv' /\ inv'[i] = old[i]
      BY <1>0, <3>1, <3>2, <3>3
    <3>5. \A i \in DOMAIN inv : old[i].owner = inv[i].owner
      BY <1>0, <3>1 DEF InvitationRows
    <3>. QED BY <2>1, <3>4, <3>5 DEF RowsGrow
  <2>. QED BY <2>2, <2>3
<1>5. ASSUME NEW p \in Transactions, CommitRedeem(p) PROVE RowsGrow
  <2>1. PICK new : conv' = Append(conv, new)
    BY <1>5 DEF CommitRedeem
  <2>2. DOMAIN conv \subseteq DOMAIN conv'
    BY <1>0, <2>1
  <2>. QED BY <1>5, <2>2 DEF CommitRedeem, RowsGrow
<1>6. ASSUME NEW p \in Transactions, CommitAccept(p) \/ CommitUpgrade(p) \/ CommitClose(p) PROVE RowsGrow
  <2>1. DOMAIN conv' = DOMAIN conv
    BY <1>6 DEF CommitAccept, CommitUpgrade, CommitClose, Close
  <2>2. inv' = inv
    BY <1>6 DEF CommitAccept, CommitUpgrade, CommitClose
  <2>. QED BY <2>1, <2>2 DEF RowsGrow
<1>7. ASSUME NEW p \in Transactions, CommitDelete(p) PROVE RowsGrow
  <2>1. PICK u : inv' = [i \in DOMAIN inv |-> IF inv[i].owner = u THEN [inv[i] EXCEPT !.status = "gone"] ELSE inv[i]]
    BY <1>7 DEF CommitDelete
  <2>2. \A i \in DOMAIN inv : i \in DOMAIN inv' /\ inv'[i].owner = inv[i].owner
    BY <1>0, <2>1 DEF InvitationRows
  <2>3. DOMAIN conv' = DOMAIN conv
    BY <1>7 DEF CommitDelete
  <2>. QED BY <2>2, <2>3 DEF RowsGrow
<1>. QED BY <1>2, <1>3, <1>4, <1>5, <1>6, <1>7 DEF Next, Commit

LEMMA HeldStep ==
  ASSUME ConversationsInv, HeldInv, [Next]_vars
  PROVE  HeldInv'
<1>1. RowsGrow
  BY RowsOnlyGrow
<1>2. TypesInv /\ DOMAIN txn = Transactions /\ \A q \in Transactions : TxnOK(txn[q]) /\ HoldsInOrder(txn[q])
  BY DEF ConversationsInv, TypesInv, HeldInv
<1>3. \A q \in Transactions : txn'[q] = txn[q] => HoldsInOrder(txn[q])'
  <2>. SUFFICES ASSUME NEW q \in Transactions, NEW t, t = txn[q], t = txn'[q] PROVE HoldsInOrder(t)'
    BY DEF HoldsInOrder, MayLock, OwnRowUpdate, OwnRowNoKey, RoomUpdate, VoteUpdate, AnswerNoKey, FirstUser,
           SecondUser, HostAndGuest
  <2>. QED BY <1>1, <1>2, HeldStays
<1>4. CASE UNCHANGED vars
  BY <1>3, <1>4 DEF vars, HeldInv, OnePurge
<1>5. ASSUME NEW p \in Transactions, NEW r, txn' = [txn EXCEPT ![p] = r], HoldsInOrder(r)',
             r.kind = "purge" => txn[p].kind = "purge" \/ \A q \in Transactions : txn[q].kind # "purge"
      PROVE  HeldInv'
  <2>1. txn'[p] = r /\ \A q \in Transactions \ {p} : txn'[q] = txn[q]
    BY <1>2, <1>5
  <2>2. HoldsInOrder(txn[p])'
    BY <1>5, <2>1 DEF HoldsInOrder, MayLock, OwnRowUpdate, OwnRowNoKey, RoomUpdate, VoteUpdate, AnswerNoKey, FirstUser,
                      SecondUser, HostAndGuest
  <2>3. OnePurge'
    BY <1>5, <2>1 DEF HeldInv, OnePurge
  <2>. QED BY <1>3, <2>1, <2>2, <2>3 DEF HeldInv
<1>6. HoldsInOrder(Idle)' /\ Idle.kind # "purge"
  BY DEF HoldsInOrder, Idle
<1>7. ASSUME NEW p \in Transactions, Begin(p) PROVE HeldInv'
  <2>1. PICK b \in Requested : /\ b.kind = "redeem" => inv[b.of].owner # b.user
                               /\ b.kind = "purge" => \A q \in Transactions : txn[q].kind # "purge"
                               /\ txn' = [txn EXCEPT ![p] = Read(b)]
    BY <1>7 DEF Begin
  <2>2. inv' = inv
    BY <1>7 DEF Begin
  <2>3. Shape(b) /\ b.held = {}
    <3>1. \A kind, u, of : Shape(Transaction(kind, u, of)) /\ Transaction(kind, u, of).held = {}
      <4>. TAKE kind, u, of
      <4>1. PICK t : t = Transaction(kind, u, of)
        OBVIOUS
      <4>2. Shape(t) /\ t.held = {}
        BY <4>1 DEF Transaction, Idle, Shape
      <4>. QED BY <4>1, <4>2
    <3>2. \E kind, u, of : b = Transaction(kind, u, of)
      <4>1. b \in {Transaction("redeem", u, i) : u \in alive, i \in {j \in DOMAIN inv : inv[j].status # "gone"}} =>
              \E kind, u, of : b = Transaction(kind, u, of)
        OBVIOUS
      <4>. QED BY <2>1, <4>1 DEF Requested
    <3>. QED BY <3>1, <3>2
  <2>4. PICK r : r = Read(b)
    OBVIOUS
  <2>5. r.kind = b.kind /\ r.user = b.user /\ r.of = b.of /\ r.held = {}
    BY <2>3, <2>4, ReadIs
  <2>6. HoldsInOrder(r)'
    BY <2>1, <2>2, <2>5 DEF HoldsInOrder
  <2>. QED BY <1>5, <2>1, <2>4, <2>5, <2>6
<1>8. ASSUME NEW p \in Transactions, Acquire(p) PROVE HeldInv'
  <2>1. PICK lock \in Wanted(p) :
          LET t == Read([txn[p] EXCEPT !.held = @ \cup {lock}])
          IN txn' = [txn EXCEPT ![p] = IF Admitted(t) THEN t ELSE Idle]
    BY <1>8 DEF Acquire
  <2>2. PICK a : a = [txn[p] EXCEPT !.held = @ \cup {lock}]
    OBVIOUS
  <2>3. PICK r : r = Read(a)
    OBVIOUS
  <2>4. CASE ~ Admitted(r)
    BY <1>5, <1>6, <2>1, <2>2, <2>3, <2>4
  <2>5. CASE Admitted(r)
    <3>1. /\ Shape(a) /\ a.kind = txn[p].kind /\ a.user = txn[p].user /\ a.of = txn[p].of
          /\ a.held = txn[p].held \cup {lock}
      BY <1>2, <2>2 DEF TxnOK, Shape
    <3>2. /\ Shape(r) /\ r.kind = txn[p].kind /\ r.user = txn[p].user /\ r.of = txn[p].of
          /\ r.held = txn[p].held \cup {lock}
      BY <2>3, <3>1, ReadIs
    <3>3. \A l \in r.held : MayLock(txn[p], l)
      BY <1>2, <2>1, <3>2, WantedMay DEF HoldsInOrder
    <3>4. \A l \in r.held : MayLock(r, l)
      BY <3>2, <3>3, MayLockMore
    <3>5. HoldsInOrder(r)
      BY <1>2, <3>2, <3>4 DEF HoldsInOrder
    <3>6. TxnOK(r)
      BY <1>2, <3>2 DEF TxnOK
    <3>7. HoldsInOrder(r)'
      BY <1>1, <3>5, <3>6, HeldStays
    <3>. QED BY <1>5, <2>1, <2>2, <2>3, <2>5, <3>2, <3>7
  <2>. QED BY <2>4, <2>5
<1>9. ASSUME NEW p \in Transactions, Commit(p) \/ Rollback(p) PROVE HeldInv'
  <2>1. txn' = [txn EXCEPT ![p] = Idle]
    BY <1>9 DEF Commit, Rollback, Commits, CommitCodes, CommitRedeem, CommitAccept, CommitUpgrade, CommitClose,
                CommitOther, CommitAddress, CommitDelete
  <2>. QED BY <1>5, <1>6, <2>1
<1>. QED BY <1>4, <1>7, <1>8, <1>9 DEF Next

(* p waits for q, which holds the row that lock asks for. *)
Waits(p, q, lock) == p # q /\ lock \in Wanted(p) /\ Blocks(q, lock)

LEMMA WaitIs ==
  ASSUME ConversationsInv, HeldInv, NEW p \in Transactions, NEW q \in Transactions, NEW lock, Waits(p, q, lock)
  PROVE  /\ MayLock(txn[p], lock) /\ lock \notin txn[p].held
         /\ \E l \in txn[q].held : MayLock(txn[q], l) /\ Conflict(l, lock) /\ l[1] = lock[1]
<1>1. lock \in Wanted(p)
  BY DEF Waits
<1>2. MayLock(txn[p], lock)
  BY <1>1, WantedMay
<1>3. lock \notin txn[p].held
  BY <1>1, WantedIs
<1>4. PICK l \in txn[q].held : Conflict(l, lock)
  BY DEF Waits, Blocks
<1>. QED BY <1>2, <1>3, <1>4 DEF HeldInv, HoldsInOrder, Conflict

(* An invitation is locked by who has locked its owner. *)
LEMMA CodesUnderTheirOwner ==
  ASSUME NEW t, NEW l, MayLock(t, l), NEW i, l[1] = Invitation(i)
  PROVE  <<User(inv[i].owner), "update">> \in t.held
<1>1. l[1][1] = "invitation"
  BY DEF Invitation
<1>2. CASE /\ t.kind \in Codes \cup {"delete"} /\ OwnRowUpdate(t) \in t.held
           /\ \E j \in DOMAIN inv : inv[j].owner = t.user /\ l = <<Invitation(j), "update">>
  BY <1>2 DEF OwnRowUpdate, Invitation
<1>3. CASE /\ t.kind = "redeem" /\ {FirstUser(t), SecondUser(t)} \subseteq t.held /\ l = <<Invitation(t.of), "update">>
  BY <1>3 DEF FirstUser, SecondUser, HostAndGuest, Invitation
<1>. QED BY <1>1, <1>2, <1>3
         DEF MayLock, OwnRowUpdate, OwnRowNoKey, RoomUpdate, VoteUpdate, AnswerNoKey, FirstUser, SecondUser, User,
             Conversation, Vote, Member, Message, Delivery

(* A vote is locked by who has locked its conversation. *)
LEMMA VotesUnderTheirRoom ==
  ASSUME NEW t, NEW l, MayLock(t, l), NEW c, l[1] = Vote(c)
  PROVE  <<Conversation(c), "update">> \in t.held
<1>1. l[1][1] = "vote"
  BY DEF Vote
<1>2. CASE l = VoteUpdate(t) /\ RoomUpdate(t) \in t.held
  BY <1>2 DEF VoteUpdate, RoomUpdate, Vote
<1>. QED BY <1>1, <1>2
         DEF MayLock, OwnRowUpdate, OwnRowNoKey, RoomUpdate, AnswerNoKey, FirstUser, SecondUser, User,
             Invitation, Conversation, Member, Message, Delivery

(* So nobody waits for an invitation or a vote. *)
LEMMA NobodyWaitsForThem ==
  ASSUME ConversationsInv, HeldInv, NEW p \in Transactions, NEW q \in Transactions, NEW lock, Waits(p, q, lock)
  PROVE  \A n : lock[1] # Invitation(n) /\ lock[1] # Vote(n)
<1>1. p # q /\ LocksExclude
  BY DEF Waits, ConversationsInv
<1>2. MayLock(txn[p], lock)
  BY WaitIs
<1>3. PICK l \in txn[q].held : MayLock(txn[q], l) /\ l[1] = lock[1]
  BY WaitIs
<1>4. \A row : ~ (<<row, "update">> \in txn[p].held /\ <<row, "update">> \in txn[q].held)
  BY <1>1, UpdateExcludes DEF Has
<1>. QED BY <1>2, <1>3, <1>4, CodesUnderTheirOwner, VotesUnderTheirRoom

(* The rows of conversations: what is waited for is one of them, or a user.    *)
OfConversation(row) == row[1] \in {"conversation", "member", "message", "delivery"}

LEMMA WaitedRows ==
  ASSUME ConversationsInv, HeldInv, NEW p \in Transactions, NEW q \in Transactions, NEW lock, Waits(p, q, lock)
  PROVE  (\E u \in Users : lock[1] = User(u)) \/ OfConversation(lock[1])
<1>0. PICK t : t = txn[p]
  OBVIOUS
<1>1. TxnOK(t) /\ MayLock(t, lock) /\ RowsOK
  BY <1>0, WaitIs DEF ConversationsInv, TypesInv
<1>2. \A n : lock[1] # Invitation(n) /\ lock[1] # Vote(n)
  BY NobodyWaitsForThem
<1>3. t.kind \in Codes \cup OnUser \cup InRoom \cup {"redeem"} => t.user \in Users
  BY <1>1 DEF TxnOK, OfUser
<1>4. t.kind = "redeem" => inv[t.of].owner \in Users
  <2>. SUFFICES ASSUME t.kind = "redeem" PROVE inv[t.of].owner \in Users
    OBVIOUS
  <2>1. inv[t.of] \in InvitationRows
    BY <1>1 DEF TxnOK, RowsOK
  <2>. QED BY <2>1 DEF InvitationRows
<1>5. t.kind = "redeem" => HostAndGuest(t)[1] \in Users /\ HostAndGuest(t)[2] \in Users
  BY <1>3, <1>4 DEF HostAndGuest
<1>6. \A x : /\ OfConversation(Conversation(x)) /\ OfConversation(Delivery(x))
            /\ \A y : OfConversation(Member(x, y)) /\ OfConversation(Message(x, y))
  BY DEF OfConversation, Conversation, Delivery, Member, Message
<1>7. \A row, mode : lock = <<row, mode>> => lock[1] = row
  OBVIOUS
<1>. QED BY <1>1, <1>2, <1>3, <1>5, <1>6, <1>7
         DEF MayLock, OwnRowUpdate, OwnRowNoKey, RoomUpdate, VoteUpdate, AnswerNoKey, FirstUser, SecondUser

(* Who has locked a row of a conversation is a deletion, a purge, or has the   *)
(* conversation itself.                                                        *)
LEMMA HasRoom ==
  ASSUME NEW t, HoldsInOrder(t), NEW l \in t.held, OfConversation(l[1])
  PROVE  \/ t.kind = "delete" /\ OwnRowUpdate(t) \in t.held
         \/ t.kind = "purge"
         \/ t.kind \in InRoom /\ OwnRowNoKey(t) \in t.held /\ RoomUpdate(t) \in t.held
         \/ t.kind \in OfWorker /\ RoomUpdate(t) \in t.held
<1>1. MayLock(t, l)
  BY DEF HoldsInOrder
<1>2. \/ t.kind = "delete" /\ OwnRowUpdate(t) \in t.held
      \/ t.kind = "purge"
      \/ t.kind \in InRoom \cup OfWorker /\ RoomUpdate(t) \in t.held
  BY <1>1 DEF MayLock, OfConversation, OwnRowUpdate, OwnRowNoKey, VoteUpdate, FirstUser, SecondUser, User, Invitation,
              Vote, InRoom, Transitions, OfWorker
<1>3. ASSUME t.kind \in InRoom, RoomUpdate(t) \in t.held PROVE OwnRowNoKey(t) \in t.held
  <2>1. MayLock(t, RoomUpdate(t))
    BY <1>3 DEF HoldsInOrder
  <2>2. RoomUpdate(t)[1][1] = "conversation"
    BY DEF RoomUpdate, Conversation
  <2>. QED BY <1>3, <2>1, <2>2
           DEF MayLock, OwnRowUpdate, OwnRowNoKey, VoteUpdate, AnswerNoKey, FirstUser, SecondUser, User, Invitation,
               Vote, Member, Message, Delivery, InRoom, Transitions, OfWorker, Codes, OnUser
<1>. QED BY <1>2, <1>3 DEF OfWorker

(* What it waits for, when it has the conversation: what comes after.          *)
LEMMA WaitsInRoom ==
  ASSUME ConversationsInv, HeldInv, NEW p \in Transactions, NEW q \in Transactions, NEW lock, Waits(p, q, lock),
         NEW t, t = txn[p], t.kind \in InRoom \cup OfWorker, RoomUpdate(t) \in t.held
  PROVE  \/ t.kind \in {"accept", "cast", "resolve"} /\ \E u : lock = <<Message(t.of, u), "update">>
         \/ t.kind = "accept" /\ \E u : lock = <<Member(t.of, u), "no_key">>
         \/ t.kind = "leave" /\ lock = <<Member(t.of, t.user), "no_key">>
         \/ t.kind \in {"ack", "reconcile"} /\ lock = AnswerNoKey(t)
         \/ t.kind = "send" /\ \E u \in Users : lock = <<User(u), "key_share">>
<1>1. MayLock(t, lock) /\ lock \notin t.held /\ HoldsInOrder(t)
  BY WaitIs DEF HeldInv
<1>2. OfConversation(RoomUpdate(t)[1])
  BY DEF RoomUpdate, Conversation, OfConversation
<1>3. t.kind \in InRoom => OwnRowNoKey(t) \in t.held
  BY <1>1, <1>2, HasRoom DEF InRoom, Transitions, OfWorker
<1>4. lock # VoteUpdate(t)
  BY NobodyWaitsForThem DEF VoteUpdate
<1>. QED BY <1>1, <1>3, <1>4 DEF MayLock, InRoom, Transitions, OfWorker, Codes, OnUser

(* The row it waits for is held by a deletion, a purge or, a user's, by        *)
(* another: not by a transaction of the same conversation.                     *)
LEMMA HeldByOutsider ==
  ASSUME ConversationsInv, HeldInv, NEW p \in Transactions, NEW q \in Transactions, NEW lock, Waits(p, q, lock),
         NEW c, <<Conversation(c), "update">> \in txn[p].held,
         (\E u : lock[1] = Message(c, u) \/ lock[1] = Member(c, u)) \/ lock[1] = Delivery(c)
  PROVE  txn[q].kind \in {"delete", "purge"}
<1>0. PICK t : t = txn[q]
  OBVIOUS
<1>1. PICK m \in t.held : MayLock(t, m) /\ m[1] = lock[1]
  BY <1>0, WaitIs
<1>2. HoldsInOrder(t) /\ OfConversation(m[1])
  BY <1>0, <1>1 DEF HeldInv, OfConversation, Message, Member, Delivery
<1>3. ASSUME t.kind \notin {"delete", "purge"} PROVE FALSE
  <2>1. RoomUpdate(t) \in t.held /\ t.kind \in InRoom \cup OfWorker
    BY <1>2, <1>3, HasRoom
  <2>2. t.of = c
    <3>1. m[1][1] \in {"message", "member", "delivery"}
      BY <1>1 DEF Message, Member, Delivery
    <3>2. (\E u : m[1] = Message(t.of, u) \/ m[1] = Member(t.of, u)) \/ m[1] = Delivery(t.of)
      BY <1>1, <1>3, <3>1
         DEF MayLock, OwnRowUpdate, OwnRowNoKey, RoomUpdate, VoteUpdate, AnswerNoKey, FirstUser, SecondUser, User,
             Invitation, Conversation, Vote
    <3>. QED BY <1>1, <3>2 DEF Message, Member, Delivery
  <2>3. p # q /\ LocksExclude
    BY DEF Waits, ConversationsInv
  <2>4. Has(txn[q], Conversation(c))
    BY <1>0, <2>1, <2>2 DEF Has, RoomUpdate
  <2>. QED BY <2>3, <2>4, UpdateExcludes
<1>. QED BY <1>0, <1>3

(* Upgrading, closing and leaving wait for nothing once they have the          *)
(* conversation: of leave's own row a deletion would need its user.            *)
LEMMA LeaveNeverWaits ==
  ASSUME ConversationsInv, HeldInv, NEW p \in Transactions, NEW q \in Transactions, NEW lock, Waits(p, q, lock),
         NEW t, t = txn[p], t.kind \in {"upgrade", "close", "leave"}, RoomUpdate(t) \in t.held
  PROVE  FALSE
<1>0. PICK r : r = txn[q]
  OBVIOUS
<1>1. t.kind = "leave" /\ lock = <<Member(t.of, t.user), "no_key">>
  BY WaitsInRoom DEF InRoom, Transitions
<1>2. r.kind \in {"delete", "purge"}
  BY <1>0, <1>1, HeldByOutsider DEF RoomUpdate
<1>3. PICK m \in r.held : MayLock(r, m) /\ m[1] = Member(t.of, t.user)
  BY <1>0, <1>1, WaitIs
<1>4. m[1][1] = "member"
  BY <1>3 DEF Member
<1>5. r.kind = "delete" /\ OwnRowUpdate(r) \in r.held /\ \E c : m = <<Member(c, r.user), "update">>
  BY <1>2, <1>3, <1>4 DEF MayLock, OwnRowUpdate, User, Invitation, Conversation, Message, Delivery, InRoom, Transitions,
                          OfWorker, Codes, OnUser
<1>6. r.user = t.user
  BY <1>3, <1>5 DEF Member
<1>7. OfConversation(RoomUpdate(t)[1]) /\ HoldsInOrder(t)
  BY DEF RoomUpdate, Conversation, OfConversation, HeldInv
<1>8. OwnRowNoKey(t) \in t.held
  BY <1>1, <1>7, HasRoom DEF OfWorker
<1>9. <<User(t.user), "update">> \in txn[q].held /\ Has(t, User(t.user))
  BY <1>0, <1>5, <1>6, <1>8 DEF OwnRowUpdate, OwnRowNoKey, Has
<1>. QED BY <1>9, UpdateExcludes DEF Waits, ConversationsInv

(* Who has locked a user and waits for a user is a redemption that has the     *)
(* first of the two; the others would wait for a conversation.                 *)
LEMMA WaitsWithUser ==
  ASSUME ConversationsInv, HeldInv, NEW q \in Transactions, NEW l \in txn[q].held, NEW u, l[1] = User(u),
         NEW r \in Transactions, NEW lock, Waits(q, r, lock), NEW v, lock[1] = User(v),
         \A m \in txn[q].held : ~ OfConversation(m[1])
  PROVE  u < v
<1>0. PICK t : t = txn[q]
  OBVIOUS
<1>1. MayLock(t, l) /\ MayLock(t, lock) /\ lock \notin t.held /\ TxnOK(t) /\ HoldsInOrder(t) /\ l \in t.held
  BY <1>0, WaitIs DEF HeldInv, HoldsInOrder, ConversationsInv, TypesInv
<1>2. RoomUpdate(t) \notin t.held
  BY <1>0 DEF RoomUpdate, Conversation, OfConversation
<1>3. l[1][1] = "user" /\ lock[1][1] = "user"
  BY DEF User
<1>4. CASE t.kind \in Codes \cup OnUser
  <2>1. l = OwnRowUpdate(t) /\ lock = OwnRowUpdate(t)
    BY <1>1, <1>3, <1>4 DEF MayLock, Codes, OnUser, InRoom, Transitions, OfWorker, Invitation, Conversation, Member, Message,
                            Delivery
  <2>. QED BY <1>1, <2>1
<1>5. CASE t.kind \in InRoom
  <2>1. l = OwnRowNoKey(t) /\ lock = OwnRowNoKey(t)
    BY <1>1, <1>2, <1>3, <1>5 DEF MayLock, Codes, OnUser, InRoom, Transitions, OfWorker, RoomUpdate, Conversation
  <2>. QED BY <1>1, <2>1
<1>6. CASE t.kind \in OfWorker \cup {"purge", "none"}
  BY <1>1, <1>2, <1>3, <1>6 DEF MayLock, Codes, OnUser, InRoom, Transitions, OfWorker, RoomUpdate, Conversation, Message,
                                Delivery
<1>7. CASE t.kind = "redeem"
  <2>1. l = FirstUser(t) \/ (FirstUser(t) \in t.held /\ l = SecondUser(t))
    BY <1>1, <1>3, <1>7 DEF MayLock, Codes, OnUser, InRoom, Transitions, OfWorker, Invitation
  <2>2. lock = FirstUser(t) \/ lock = SecondUser(t)
    BY <1>1, <1>3, <1>7 DEF MayLock, Codes, OnUser, InRoom, Transitions, OfWorker, Invitation
  <2>3. l = FirstUser(t) /\ lock = SecondUser(t)
    BY <1>1, <2>1, <2>2
  <2>4. u = HostAndGuest(t)[1] /\ v = HostAndGuest(t)[2]
    BY <2>3 DEF FirstUser, SecondUser, User
  <2>5. t.user \in Users /\ inv[t.of] \in InvitationRows
    BY <1>1, <1>7 DEF TxnOK, OfUser, ConversationsInv, TypesInv, RowsOK
  <2>6. inv[t.of].owner \in Users /\ inv[t.of].owner # t.user
    BY <1>1, <1>7, <2>5 DEF InvitationRows, HoldsInOrder
  <2>7. PICK a \in Nat, b \in Nat : a = t.user /\ b = inv[t.of].owner /\ a # b
    BY <2>5, <2>6, UsersAssumption
  <2>8. HostAndGuest(t) = IF a < b THEN <<a, b>> ELSE <<b, a>>
    BY <2>7 DEF HostAndGuest
  <2>. QED BY <2>4, <2>7, <2>8
<1>. QED BY <1>1, <1>4, <1>5, <1>6, <1>7 DEF TxnOK, Kinds, OfUser

(* In a set of users one comes last. *)
LEMMA LastUser ==
  ASSUME NEW W \in SUBSET Users, W # {}
  PROVE  \E u \in W : \A v \in W : ~ (u < v)
<1>. DEFINE Later(u) == {v \in W : u < v}
            D == {Later(u) : u \in W}
<1>1. D # {} /\ D \subseteq FiniteSubsetsOf(Users)
  <2>1. \A u : Later(u) \in SUBSET Users
    OBVIOUS
  <2>2. FiniteSubsetsOf(Users) = SUBSET Users
    BY UsersAssumption, FS_FiniteSubsetsOfFinite
  <2>3. D \subseteq SUBSET Users
    BY <2>1
  <2>. QED BY <2>2, <2>3
<1>2. PICK d \in D : \A e \in D : ~ (<<e, d>> \in StrictSubsetOrdering(Users))
  <2>. HIDE DEF D
  <2>. QED BY <1>1, FS_StrictSubsetOrderingWellFounded, WFMin
<1>3. PICK u \in W : d = Later(u)
  OBVIOUS
<1>4. ASSUME NEW v \in W, u < v PROVE FALSE
  <2>1. \A w \in W : w \in Nat
    BY UsersAssumption
  <2>2. v \in Later(u) /\ v \notin Later(v)
    BY <1>4, <2>1
  <2>3. Later(v) \subseteq Later(u)
    BY <1>4, <2>1
  <2>4. <<Later(v), Later(u)>> \in StrictSubsetOrdering(Users)
    BY <2>2, <2>3 DEF StrictSubsetOrdering
  <2>. QED BY <1>2, <1>3, <2>4
<1>. QED BY <1>4

(* Transactions that wait for each other without a pair of the property. *)
Odd(S) ==
  /\ S \subseteq Transactions
  /\ \A p \in S : \E q \in S : WaitsFor(p, q)
  /\ \A p, q \in S : p # q => ~ Pair(txn[p].kind, txn[q].kind)

LEMMA OddWaits ==
  ASSUME NEW S, Odd(S), NEW p \in S
  PROVE  \E q \in S, lock \in Wanted(p) : Waits(p, q, lock) /\ p \in Transactions /\ q \in Transactions /\ p # q
BY DEF Odd, WaitsFor, Waits

(* None of them is a purge that holds a row: who holds the one it asks for     *)
(* would be a resolution, a deletion, another purge, or an answer that has     *)
(* all it needs.                                                               *)
LEMMA NoPurge ==
  ASSUME ConversationsInv, HeldInv, NEW S, Odd(S), NEW q \in S, txn[q].kind = "purge"
  PROVE  FALSE
<1>1. PICK r \in S, lock \in Wanted(q) : Waits(q, r, lock) /\ q \in Transactions /\ r \in Transactions /\ q # r
  BY OddWaits
<1>2. PICK t : t = txn[r]
  OBVIOUS
<1>3. PICK m \in t.held : MayLock(t, m) /\ Conflict(m, lock) /\ m[1] = lock[1]
  BY <1>1, <1>2, WaitIs
<1>4. MayLock(txn[q], lock)
  BY <1>1, WaitIs
<1>5. \E c : lock[1] = Delivery(c) \/ \E u : lock[1] = Message(c, u)
  BY <1>4 DEF MayLock, Codes, OnUser, InRoom, Transitions, OfWorker
<1>6. t.kind \notin {"delete", "purge", "accept", "cast", "resolve"}
  <2>1. ~ Pair("purge", t.kind) /\ ~ Pair(t.kind, "purge")
    BY <1>1, <1>2 DEF Odd
  <2>2. t.kind # "purge"
    BY <1>1, <1>2 DEF HeldInv, OnePurge
  <2>. QED BY <2>1, <2>2 DEF Pair
<1>7. HoldsInOrder(t) /\ OfConversation(m[1]) /\ m[1][1] \in {"message", "delivery"}
  BY <1>1, <1>2, <1>3, <1>5 DEF HeldInv, OfConversation, Message, Delivery
<1>8. t.kind \in {"ack", "reconcile"} /\ m = AnswerNoKey(t)
  BY <1>3, <1>6, <1>7
     DEF MayLock, OwnRowUpdate, OwnRowNoKey, RoomUpdate, VoteUpdate, AnswerNoKey, FirstUser, SecondUser, User, Invitation,
         Conversation, Vote, Member
<1>9. RoomUpdate(t) \in t.held
  BY <1>6, <1>7, HasRoom
<1>10. PICK s \in S, other \in Wanted(r) : Waits(r, s, other) /\ s \in Transactions
  BY OddWaits
<1>11. other = AnswerNoKey(t)
  BY <1>1, <1>2, <1>8, <1>9, <1>10, WaitsInRoom DEF InRoom, OfWorker
<1>12. other \notin t.held
  BY <1>1, <1>2, <1>10, WaitIs
<1>. QED BY <1>3, <1>8, <1>11, <1>12

(* None of them is a send that waits for its recipient: who has that row has    *)
(* nothing else to wait for.                                                   *)
LEMMA NoSend ==
  ASSUME ConversationsInv, HeldInv, NEW S, Odd(S), NEW q \in S, NEW r \in S, txn[q].kind = "send",
         NEW u, Waits(q, r, <<User(u), "key_share">>)
  PROVE  FALSE
<1>0. q \in Transactions /\ r \in Transactions /\ q # r
  BY DEF Odd, Waits
<1>1. PICK t : t = txn[r]
  OBVIOUS
<1>2. PICK m \in t.held : MayLock(t, m) /\ Conflict(m, <<User(u), "key_share">>)
  BY <1>0, <1>1, WaitIs
<1>3. m[1] = User(u) /\ m[1][1] = "user" /\ m[2] = "update"
  BY <1>2 DEF Conflict, User
<1>4. PICK s \in S, other \in Wanted(r) : Waits(r, s, other) /\ s \in Transactions
  BY OddWaits
<1>5. MayLock(t, other) /\ other \notin t.held
  BY <1>0, <1>1, <1>4, WaitIs
<1>6. t.kind \notin {"redeem", "delete"}
  BY <1>0, <1>1 DEF Odd, Pair
<1>7. t.kind \in Codes \cup OnUser /\ m = OwnRowUpdate(t)
  BY <1>2, <1>3, <1>6
     DEF MayLock, OwnRowNoKey, RoomUpdate, VoteUpdate, AnswerNoKey, FirstUser, SecondUser, Invitation, Conversation, Vote,
         Member, Message, Delivery
<1>8. \E i : other = <<Invitation(i), "update">>
  BY <1>2, <1>5, <1>6, <1>7 DEF MayLock, Codes, OnUser, InRoom, Transitions, OfWorker
<1>. QED BY <1>0, <1>4, <1>8, NobodyWaitsForThem

(* None of them is a deletion that holds a row of a conversation: it would     *)
(* wait for one of another transaction.                                        *)
LEMMA NoDeletion ==
  ASSUME ConversationsInv, HeldInv, NEW S, Odd(S), NEW q \in S, NEW l \in txn[q].held, OfConversation(l[1]),
         txn[q].kind = "delete"
  PROVE  FALSE
<1>1. PICK r \in S, lock \in Wanted(q) : Waits(q, r, lock) /\ q \in Transactions /\ r \in Transactions /\ q # r
  BY OddWaits
<1>2. PICK d, t : d = txn[q] /\ t = txn[r]
  OBVIOUS
<1>3. OwnRowUpdate(d) \in d.held
  BY <1>1, <1>2, HasRoom DEF HeldInv, InRoom, Transitions, OfWorker
<1>4. MayLock(d, lock) /\ lock \notin d.held
  BY <1>1, <1>2, WaitIs
<1>5. OfConversation(lock[1])
  <2>1. lock # OwnRowUpdate(d)
    BY <1>3, <1>4
  <2>2. \A i : lock # <<Invitation(i), "update">>
    BY <1>1, NobodyWaitsForThem
  <2>. QED BY <1>2, <1>4, <2>1, <2>2
           DEF MayLock, Codes, InRoom, Transitions, OfWorker, OfConversation, Conversation, Member, Message, Delivery
<1>6. PICK m \in t.held : m[1] = lock[1]
  BY <1>1, <1>2, WaitIs
<1>7. ~ Pair("delete", t.kind)
  BY <1>1, <1>2 DEF Odd
<1>8. t.kind \in {"upgrade", "close", "leave"} /\ RoomUpdate(t) \in t.held
  BY <1>1, <1>2, <1>5, <1>6, <1>7, HasRoom DEF HeldInv, Pair, InRoom, Transitions, OfWorker
<1>9. PICK s \in S, other \in Wanted(r) : Waits(r, s, other) /\ s \in Transactions
  BY OddWaits
<1>. QED BY <1>1, <1>2, <1>8, <1>9, LeaveNeverWaits

(* So nobody among them holds a row of a conversation.                         *)
LEMMA OddHoldsNoRoom ==
  ASSUME ConversationsInv, HeldInv, NEW S, Odd(S), NEW q \in S, NEW l \in txn[q].held, OfConversation(l[1])
  PROVE  FALSE
<1>1. PICK r \in S, lock \in Wanted(q) : Waits(q, r, lock) /\ q \in Transactions /\ r \in Transactions /\ q # r
  BY OddWaits
<1>2. PICK t : t = txn[q]
  OBVIOUS
<1>3. t.kind \notin {"delete", "purge"} /\ txn[r].kind # "purge"
  BY <1>2, NoPurge, NoDeletion
<1>4. t.kind \in InRoom \cup OfWorker /\ RoomUpdate(t) \in t.held
  BY <1>1, <1>2, <1>3, HasRoom DEF HeldInv
<1>5. t.kind \in {"accept", "cast", "resolve", "ack", "reconcile"} => txn[r].kind # "delete"
  BY <1>1, <1>2 DEF Odd, Pair
<1>6. <<Conversation(t.of), "update">> \in txn[q].held
  BY <1>2, <1>4 DEF RoomUpdate
<1>7. CASE \E u : lock = <<Message(t.of, u), "update">> \/ lock = <<Member(t.of, u), "no_key">>
  <2>1. txn[r].kind \in {"delete", "purge"}
    BY <1>1, <1>6, <1>7, HeldByOutsider
  <2>2. t.kind # "leave"
    BY <1>1, <1>2, <1>4, LeaveNeverWaits
  <2>3. lock[1][1] \in {"message", "member"}
    BY <1>7 DEF Message, Member
  <2>4. t.kind \in {"accept", "cast", "resolve"}
    BY <1>1, <1>2, <1>4, <2>2, <2>3, WaitsInRoom DEF AnswerNoKey, Delivery, User
  <2>. QED BY <1>3, <1>5, <2>1, <2>4
<1>8. CASE t.kind \in {"ack", "reconcile"} /\ lock = AnswerNoKey(t)
  <2>1. txn[r].kind \in {"delete", "purge"}
    BY <1>1, <1>6, <1>8, HeldByOutsider DEF AnswerNoKey
  <2>. QED BY <1>3, <1>5, <1>8, <2>1
<1>9. CASE t.kind = "send" /\ \E u \in Users : lock = <<User(u), "key_share">>
  BY <1>1, <1>2, <1>9, NoSend
<1>. QED BY <1>1, <1>2, <1>4, <1>7, <1>8, <1>9, WaitsInRoom

LEMMA CirclesAre ==
  ASSUME ConversationsInv, HeldInv
  PROVE  CirclesNeedAPair
<1>. SUFFICES ASSUME NEW S \in SUBSET Transactions, S # {},
                     \A p \in S : \E q \in S : WaitsFor(p, q),
                     \A p, q \in S : p # q => ~ Pair(txn[p].kind, txn[q].kind)
              PROVE  FALSE
  BY DEF CirclesNeedAPair
<1>0. Odd(S)
  BY DEF Odd
<1>1. \A q \in S : \A l \in txn[q].held : ~ OfConversation(l[1])
  BY <1>0, OddHoldsNoRoom
<1>2. ASSUME NEW p \in S PROVE \E q \in S, lock \in Wanted(p) : Waits(p, q, lock)
  BY <1>0, <1>2, OddWaits
<1>3. ASSUME NEW p \in S, NEW q \in S, NEW lock, Waits(p, q, lock) PROVE \E u \in Users : lock[1] = User(u)
  <2>1. PICK l \in txn[q].held : l[1] = lock[1]
    BY <1>3, WaitIs
  <2>. QED BY <1>1, <1>3, <2>1, WaitedRows
<1>4. ASSUME NEW p \in S, NEW q \in S, NEW lock, Waits(p, q, lock) PROVE \E l \in txn[q].held : l[1] = lock[1]
  BY <1>4, WaitIs
<1>. DEFINE W == {u \in Users : \E p, q \in S : \E lock \in Wanted(p) : Waits(p, q, lock) /\ lock[1] = User(u)}
<1>5. W # {}
  <2>1. PICK p \in S : TRUE
    OBVIOUS
  <2>2. PICK q \in S, lock \in Wanted(p) : Waits(p, q, lock)
    BY <1>2
  <2>. QED BY <1>3, <2>2
<1>6. ASSUME NEW u \in W PROVE \E v \in W : u < v
  <2>1. PICK p \in S, q \in S : \E lock \in Wanted(p) : Waits(p, q, lock) /\ lock[1] = User(u)
    OBVIOUS
  <2>2. PICK l \in txn[q].held : l[1] = User(u)
    <3>1. PICK lock \in Wanted(p) : Waits(p, q, lock) /\ lock[1] = User(u)
      BY <2>1
    <3>. QED BY <1>4, <3>1
  <2>3. PICK r \in S, other \in Wanted(q) : Waits(q, r, other)
    BY <1>2
  <2>4. PICK v \in Users : other[1] = User(v)
    BY <1>3, <2>3
  <2>5. v \in W
    BY <2>3, <2>4
  <2>6. u < v
    BY <1>1, <2>2, <2>3, <2>4, WaitsWithUser
  <2>. QED BY <2>5, <2>6
<1>. HIDE DEF W
<1>7. W \in SUBSET Users
  BY DEF W
<1>. QED BY <1>5, <1>6, <1>7, LastUser

(* What is waited for: rows of users and of conversations. *)
CodesAndVotesAreNotWaitedFor ==
  \A p, q \in Transactions : p # q =>
    \A lock \in Wanted(p) : Blocks(q, lock) => lock[1][1] \notin {"invitation", "vote"}

-----------------------------------------------------------------------------
(* Who writes what *)

(* A step is of one transaction, which has locked for itself every row it      *)
(* changes: users, invitations, conversations, and the rows of                 *)
(* conversation_members, of which a leave or a deletion takes only its own.    *)
ColumnsLocked(p, c) ==
  \/ \E members : conv'[c] = [conv[c] EXCEPT !.members = members]
  \/ \E mode \in {"update", "no_key"} : <<Conversation(c), mode>> \in txn[p].held

MemberLocked(p, c, u) ==
  \/ u \in conv'[c].members <=> u \in conv[c].members
  \/ \E mode \in {"update", "no_key"} : <<Member(c, u), mode>> \in txn[p].held

LockedBy(p) ==
  /\ \A i \in DOMAIN inv : inv'[i] # inv[i] => <<Invitation(i), "update">> \in txn[p].held
  /\ \A u \in Users :
       \/ Owned(u)' = Owned(u) /\ (u \in alive' <=> u \in alive) /\ (u \in verified' <=> u \in verified)
       \/ <<User(u), "update">> \in txn[p].held
  /\ \A c \in DOMAIN conv : ColumnsLocked(p, c) /\ \A u \in Users : MemberLocked(p, c, u)

ChangesAreLocked ==
  [][\E p \in Transactions : LockedBy(p) /\ \A q \in Transactions \ {p} : txn'[q] = txn[q]]_vars

LEMMA SameRowLocked ==
  ASSUME ConversationsInv, NEW p, NEW c \in DOMAIN conv, conv'[c] = conv[c]
  PROVE  ColumnsLocked(p, c) /\ \A u \in Users : MemberLocked(p, c, u)
<1>1. conv[c] \in ConversationRows
  BY DEF ConversationsInv, TypesInv, RowsOK
<1>2. conv'[c] = [conv[c] EXCEPT !.members = conv[c].members]
  BY <1>1 DEF ConversationRows
<1>3. conv'[c].members = conv[c].members
  OBVIOUS
<1>. QED BY <1>2, <1>3 DEF ColumnsLocked, MemberLocked

LEMMA RowsStayLocked ==
  ASSUME UNCHANGED <<alive, verified, inv, conv>>, ConversationsInv, NEW p
  PROVE  LockedBy(p)
<1>1. \A u : Owned(u)' = Owned(u)
  BY DEF Owned
<1>. QED BY <1>1, SameRowLocked DEF LockedBy

(* A commit that writes one conversation it has locked. *)
LEMMA OneRoomLocked ==
  ASSUME ConversationsInv, NEW p \in Transactions, UNCHANGED <<alive, verified, inv>>,
         NEW k, \A c \in DOMAIN conv : c # k => conv'[c] = conv[c],
         <<Conversation(k), "update">> \in txn[p].held,
         \A u \in Users : MemberLocked(p, k, u)
  PROVE  LockedBy(p)
<1>1. ASSUME NEW c \in DOMAIN conv PROVE ColumnsLocked(p, c) /\ \A u \in Users : MemberLocked(p, c, u)
  <2>1. CASE c = k
    BY <2>1 DEF ColumnsLocked
  <2>2. CASE c # k
    BY <2>2, SameRowLocked
  <2>. QED BY <2>1, <2>2
<1>2. \A u : Owned(u)' = Owned(u)
  BY DEF Owned
<1>. QED BY <1>1, <1>2 DEF LockedBy

LEMMA CodesLocked ==
  ASSUME ConversationsInv, NEW p \in Transactions, CommitCodes(p)
  PROVE  LockedBy(p)
<1>1. Commits(p, Codes) /\ UNCHANGED <<alive, verified, conv>>
  BY DEF CommitCodes
<1>2. PICK t : t = txn[p]
  OBVIOUS
<1>3. /\ t.user \in Users /\ <<User(t.user), "update">> \in t.held
      /\ \A i \in Active(t.user) : <<Invitation(i), "update">> \in t.held
  BY <1>1, <1>2, CodesRead
<1>4. CASE t.generation = 0
  BY <1>1, <1>2, <1>4, RowsStayLocked DEF CommitCodes
<1>5. CASE t.generation # 0
  <2>0. /\ inv \in Seq(InvitationRows) /\ Len(inv) \in Nat /\ DOMAIN inv = 1..Len(inv)
        /\ \A i \in DOMAIN inv : inv[i] \in InvitationRows
    BY DEF ConversationsInv, TypesInv, RowsOK
  <2>1. PICK old : /\ inv' = Append(old, [owner |-> t.user, generation |-> t.generation, status |-> "active"])
                   /\ old = [i \in DOMAIN inv |-> IF i \in Active(t.user) THEN [inv[i] EXCEPT !.status = "revoked"]
                                                                          ELSE inv[i]]
    BY <1>2, <1>5 DEF CommitCodes
  <2>2. PICK new : inv' = Append(old, new) /\ new.owner = t.user
    <3>1. PICK new : new = [owner |-> t.user, generation |-> t.generation, status |-> "active"]
      OBVIOUS
    <3>2. inv' = Append(old, new)
      BY <2>1, <3>1
    <3>3. new.owner = t.user
      BY <3>1
    <3>. QED BY <3>2, <3>3
  <2>3. old \in Seq(InvitationRows) /\ DOMAIN old = DOMAIN inv /\ Len(old) = Len(inv)
    <3>1. \A i \in DOMAIN inv : old[i] \in InvitationRows
      BY <2>0, <2>1 DEF InvitationRows
    <3>2. old = [i \in 1..Len(inv) |-> old[i]]
      BY <2>0, <2>1
    <3>. QED BY <2>0, <3>1, <3>2
  <2>4. /\ DOMAIN inv' = DOMAIN inv \cup {Len(inv) + 1} /\ inv'[Len(inv) + 1] = new
        /\ \A i \in DOMAIN inv : inv'[i] = old[i]
    BY <2>0, <2>2, <2>3
  <2>5. ASSUME NEW i \in DOMAIN inv
        PROVE  /\ inv'[i].owner = inv[i].owner
               /\ inv[i].owner # t.user => inv'[i] = inv[i]
               /\ inv'[i] = inv[i] \/ <<Invitation(i), "update">> \in t.held
    <3>1. CASE i \in Active(t.user)
      <4>1. inv'[i] = [inv[i] EXCEPT !.status = "revoked"] /\ inv[i] \in InvitationRows
        BY <2>0, <2>1, <2>4, <3>1
      <4>2. inv'[i].owner = inv[i].owner
        BY <4>1 DEF InvitationRows
      <4>3. inv[i].owner = t.user
        BY <3>1 DEF Active, Owned
      <4>. QED BY <1>3, <3>1, <4>2, <4>3
    <3>2. CASE i \notin Active(t.user)
      BY <2>1, <2>4, <3>2
    <3>. QED BY <3>1, <3>2
  <2>6. \A u : u # t.user => Owned(u)' = Owned(u)
    BY <2>2, <2>4, <2>5 DEF Owned
  <2>7. \A c \in DOMAIN conv : ColumnsLocked(p, c) /\ \A u \in Users : MemberLocked(p, c, u)
    BY <1>1, SameRowLocked
  <2>. QED BY <1>1, <1>2, <1>3, <2>5, <2>6, <2>7 DEF LockedBy
<1>. QED BY <1>4, <1>5

LEMMA DeleteLocked ==
  ASSUME ConversationsInv, NEW p \in Transactions, CommitDelete(p)
  PROVE  LockedBy(p)
<1>1. PICK u : u = txn[p].user
  OBVIOUS
<1>2. /\ alive' = alive \ {u} /\ verified' = verified \ {u}
      /\ inv' = [i \in DOMAIN inv |-> IF inv[i].owner = u THEN [inv[i] EXCEPT !.status = "gone"] ELSE inv[i]]
      /\ conv' = [c \in DOMAIN conv |->
                    [conv[c] EXCEPT !.members = @ \ {u}, !.by = @ \ {u},
                                    !.from = IF conv[c].from \in Owned(u) THEN 0 ELSE conv[c].from]]
  BY <1>1 DEF CommitDelete
<1>3. txn[p].kind = "delete" /\ \A n \in DOMAIN Locks(txn[p]) : Locks(txn[p])[n] \subseteq txn[p].held
  <2>1. Commits(p, {"delete"})
    BY DEF CommitDelete
  <2>. QED BY <2>1, CommitHolds
<1>4. <<User(u), "update">> \in txn[p].held
  BY <1>1, <1>3, HoldsUser DEF OnUser
<1>5. \A i \in Owned(u) : <<Invitation(i), "update">> \in txn[p].held
  BY <1>1, <1>3, HoldsInvitations
<1>6. /\ \A c \in Named(u) : <<Conversation(c), "no_key">> \in txn[p].held
      /\ \A c \in Joined(u) : <<Member(c, u), "update">> \in txn[p].held
  <2>1. Locks(txn[p]) = <<OwnRow(txn[p], "update"), Lock({Invitation(i) : i \in Owned(u)}, "update"), Cascade(u)>>
    BY <1>1, <1>3 DEF Locks, Codes, Transitions
  <2>2. PICK own, codes, rest : Locks(txn[p]) = <<own, codes, rest>> /\ rest = Cascade(u)
    BY <2>1
  <2>3. PICK locks : locks = Locks(txn[p]) /\ locks = <<own, codes, rest>>
    BY <2>2
  <2>4. 3 \in DOMAIN locks /\ locks[3] = rest
    BY <2>3
  <2>5. Cascade(u) \subseteq txn[p].held
    BY <1>3, <2>2, <2>3, <2>4
  <2>. QED BY <2>5 DEF Cascade, Lock
<1>7. \A i \in DOMAIN inv : inv[i] \in InvitationRows
  BY DEF ConversationsInv, TypesInv, RowsOK
<1>8. ASSUME NEW i \in DOMAIN inv, inv'[i] # inv[i] PROVE <<Invitation(i), "update">> \in txn[p].held
  <2>1. inv[i].owner = u /\ inv'[i] = [inv[i] EXCEPT !.status = "gone"]
    BY <1>2, <1>8
  <2>2. inv[i].status # "gone"
    BY <1>7, <1>8, <2>1 DEF InvitationRows
  <2>. QED BY <1>5, <2>1, <2>2 DEF Owned
<1>9. \A v : v # u => Owned(v)' = Owned(v)
  <2>1. \A i \in DOMAIN inv : inv'[i].owner = inv[i].owner /\ (inv[i].owner # u => inv'[i] = inv[i])
    BY <1>2, <1>7 DEF InvitationRows
  <2>2. DOMAIN inv' = DOMAIN inv
    BY <1>2
  <2>. QED BY <2>1, <2>2 DEF Owned
<1>10. ASSUME NEW c \in DOMAIN conv, c \notin Named(u)
       PROVE  \E members : conv'[c] = [conv[c] EXCEPT !.members = members]
  <2>1. conv[c] \in ConversationRows
    BY DEF ConversationsInv, TypesInv, RowsOK
  <2>2. conv'[c] = [conv[c] EXCEPT !.members = @ \ {u}, !.by = @ \ {u}, !.from = conv[c].from]
    BY <1>2, <1>10 DEF Named
  <2>3. conv[c].by \ {u} = conv[c].by
    BY <1>10 DEF Named
  <2>4. conv'[c] = [conv[c] EXCEPT !.members = conv[c].members \ {u}]
    BY <2>1, <2>2, <2>3 DEF ConversationRows
  <2>. QED BY <2>4
<1>11. \A v : v # u => (v \in alive' <=> v \in alive) /\ (v \in verified' <=> v \in verified)
  BY <1>2
<1>12. ASSUME NEW c \in DOMAIN conv, NEW v PROVE MemberLocked(p, c, v)
  <2>1. conv[c] \in ConversationRows
    BY DEF ConversationsInv, TypesInv, RowsOK
  <2>2. conv'[c].members = conv[c].members \ {u}
    BY <1>2, <2>1 DEF ConversationRows
  <2>3. u \in conv[c].members => c \in Joined(u)
    BY <2>1 DEF Joined, Party, ConversationRows
  <2>. QED BY <1>6, <2>2, <2>3 DEF MemberLocked
<1>13. \A c \in DOMAIN conv : ColumnsLocked(p, c)
  BY <1>6, <1>10 DEF ColumnsLocked
<1>. QED BY <1>4, <1>8, <1>9, <1>11, <1>12, <1>13 DEF LockedBy

(* Of the transitions only a leave touches a member, its own. *)
LEMMA TransitionMembers ==
  ASSUME ConversationsInv, NEW p \in Transactions, CommitAccept(p) \/ CommitUpgrade(p) \/ CommitClose(p),
         NEW u \in Users
  PROVE  MemberLocked(p, txn[p].of, u)
<1>1. PICK t : t = txn[p]
  OBVIOUS
<1>2. PICK k : k = t.of
  OBVIOUS
<1>3. t.kind \in Transitions /\ k \in DOMAIN conv
  <2>1. \E kinds \in SUBSET Transitions : Commits(p, kinds)
    <3>1. {"accept"} \in SUBSET Transitions /\ {"upgrade"} \in SUBSET Transitions
          /\ {"close", "leave"} \in SUBSET Transitions
      BY DEF Transitions
    <3>. QED BY <3>1 DEF CommitAccept, CommitUpgrade, CommitClose
  <2>2. t.kind \in Transitions
    BY <1>1, <2>1 DEF Commits
  <2>. QED BY <1>1, <1>2, <2>2 DEF ConversationsInv, TypesInv, TxnOK, OnConversation, InRoom
<1>4. PICK r \in ConversationRows : r = conv[k]
  BY <1>3 DEF ConversationsInv, TypesInv, RowsOK
<1>5. CASE CommitAccept(p)
  <2>1. conv' = conv \/ conv' = [conv EXCEPT ![k].status = "active", ![k].accepted = TRUE]
    BY <1>1, <1>2, <1>5 DEF CommitAccept
  <2>2. conv'[k] = r \/ conv'[k] = [r EXCEPT !.status = "active", !.accepted = TRUE]
    BY <1>3, <1>4, <2>1
  <2>3. conv'[k].members = r.members
    BY <2>2 DEF ConversationRows
  <2>. QED BY <1>1, <1>2, <1>4, <2>3 DEF MemberLocked
<1>6. CASE CommitUpgrade(p)
  <2>1. conv' = conv \/ \E by : conv' = [conv EXCEPT ![k].mode = "stored", ![k].by = by]
    BY <1>1, <1>2, <1>6 DEF CommitUpgrade
  <2>2. conv'[k] = r \/ \E by : conv'[k] = [r EXCEPT !.mode = "stored", !.by = by]
    BY <1>3, <1>4, <2>1
  <2>3. conv'[k].members = r.members
    BY <2>2 DEF ConversationRows
  <2>. QED BY <1>1, <1>2, <1>4, <2>3 DEF MemberLocked
<1>7. CASE CommitClose(p)
  <2>1. PICK members, by :
          /\ members = IF t.kind = "leave" THEN r.members \ {t.user} ELSE r.members
          /\ conv' = [conv EXCEPT ![k] = [r EXCEPT !.members = members, !.status = "closed", !.by = by]]
    BY <1>1, <1>2, <1>4, <1>7 DEF CommitClose, Close
  <2>2. conv'[k] = [r EXCEPT !.members = members, !.status = "closed", !.by = by]
    BY <1>3, <2>1
  <2>3. conv'[k].members = members
    BY <2>2 DEF ConversationRows
  <2>4. ASSUME t.kind = "leave" PROVE <<Member(k, t.user), "no_key">> \in t.held
    <3>1. 3 \in DOMAIN Locks(t) /\ Locks(t)[3] = Lock({Member(k, t.user)}, "no_key")
      BY <1>2, <2>4 DEF Locks, Codes
    <3>2. Locks(t)[3] \subseteq t.held
      BY <1>1, <1>7, <3>1, CommitHolds DEF CommitClose
    <3>. QED BY <3>1, <3>2 DEF Lock
  <2>. QED BY <1>1, <1>2, <1>4, <2>1, <2>3, <2>4 DEF MemberLocked
<1>. QED BY <1>5, <1>6, <1>7

LEMMA LockedStep ==
  ASSUME ConversationsInv, [Next]_vars, ~ UNCHANGED vars
  PROVE  \E p \in Transactions : LockedBy(p) /\ \A q \in Transactions \ {p} : txn'[q] = txn[q]
<1>1. PICK p \in Transactions : Begin(p) \/ Acquire(p) \/ Commit(p) \/ Rollback(p)
  BY DEF Next
<1>2. \A q \in Transactions \ {p} : txn'[q] = txn[q]
  <2>1. DOMAIN txn = Transactions
    BY DEF ConversationsInv, TypesInv
  <2>2. \E t : txn' = [txn EXCEPT ![p] = t]
    <3>1. CASE Acquire(p)
      <4>1. PICK lock \in Wanted(p) :
              LET t == Read([txn[p] EXCEPT !.held = @ \cup {lock}])
              IN txn' = [txn EXCEPT ![p] = IF Admitted(t) THEN t ELSE Idle]
        BY <3>1 DEF Acquire
      <4>. QED BY <4>1
    <3>2. CASE Begin(p)
      BY <3>2 DEF Begin
    <3>3. CASE Commit(p) \/ Rollback(p)
      BY <3>3 DEF Commit, Rollback, Commits, CommitCodes, CommitRedeem, CommitAccept, CommitUpgrade, CommitClose,
                  CommitOther, CommitAddress, CommitDelete
    <3>. QED BY <1>1, <3>1, <3>2, <3>3
  <2>. QED BY <2>1, <2>2
<1>3. LockedBy(p)
  <2>1. CASE Begin(p) \/ Acquire(p) \/ Rollback(p) \/ CommitOther(p)
    <3>1. UNCHANGED <<alive, verified, inv, conv>>
      BY <2>1 DEF Begin, Acquire, Rollback, CommitOther
    <3>. QED BY <3>1, RowsStayLocked
  <2>2. CASE CommitRedeem(p)
    <3>1. UNCHANGED <<alive, verified, inv>> /\ \E new : conv' = Append(conv, new)
      BY <2>2 DEF CommitRedeem
    <3>2. conv \in Seq(ConversationRows)
      BY DEF ConversationsInv, TypesInv, RowsOK
    <3>3. \A c \in DOMAIN conv : conv'[c] = conv[c]
      BY <3>1, <3>2
    <3>. QED BY <3>1, <3>3, SameRowLocked DEF LockedBy, Owned
  <2>3. CASE CommitAccept(p) \/ CommitUpgrade(p) \/ CommitClose(p)
    <3>1. UNCHANGED <<alive, verified, inv>>
      BY <2>3 DEF CommitAccept, CommitUpgrade, CommitClose
    <3>2. PICK k : k = txn[p].of
      OBVIOUS
    <3>3. \A c \in DOMAIN conv : c # k => conv'[c] = conv[c]
      BY <2>3, <3>2 DEF CommitAccept, CommitUpgrade, CommitClose, Close
    <3>4. \E kinds \in SUBSET Transitions : Commits(p, kinds)
      <4>1. {"accept"} \in SUBSET Transitions /\ {"upgrade"} \in SUBSET Transitions
            /\ {"close", "leave"} \in SUBSET Transitions
        BY DEF Transitions
      <4>. QED BY <2>3, <4>1 DEF CommitAccept, CommitUpgrade, CommitClose
    <3>5. <<Conversation(k), "update">> \in txn[p].held
      BY <3>2, <3>4, TransitionRead
    <3>6. ASSUME NEW u \in Users PROVE MemberLocked(p, k, u)
      BY <2>3, <3>2, TransitionMembers
    <3>. QED BY <3>1, <3>3, <3>5, <3>6, OneRoomLocked
  <2>4. CASE CommitAddress(p)
    <3>1. /\ Commits(p, {"address"}) /\ UNCHANGED <<alive, inv, conv>>
          /\ verified' \in {verified \ {txn[p].user}, verified \cup {txn[p].user}}
      BY <2>4 DEF CommitAddress
    <3>2. <<User(txn[p].user), "update">> \in txn[p].held
      BY <3>1, CommitHolds, HoldsUser DEF OnUser
    <3>3. \A v : v # txn[p].user => (v \in verified' <=> v \in verified)
      BY <3>1
    <3>4. \A c \in DOMAIN conv : ColumnsLocked(p, c) /\ \A u \in Users : MemberLocked(p, c, u)
      BY <3>1, SameRowLocked
    <3>5. \A v : Owned(v)' = Owned(v)
      BY <3>1 DEF Owned
    <3>. QED BY <3>1, <3>2, <3>3, <3>4, <3>5 DEF LockedBy
  <2>. QED BY <1>1, <2>1, <2>2, <2>3, <2>4, CodesLocked, DeleteLocked DEF Commit
<1>. QED BY <1>2, <1>3

-----------------------------------------------------------------------------
(* The theorems *)

(* What a transaction read under its locks is still so when it commits, for    *)
(* any users and any number of transactions at once.                           *)
THEOREM ConversationsInvariant == Spec => []ConversationsInv
<1>. QED BY ConversationsStart, ConversationsStep, PTL DEF Spec

(* A user has one invitation that works, the one of the greatest generation:   *)
(* ConversationStore.codes locks the user before it looks for the invitation.  *)
THEOREM OneCodeWorks == Spec => []OneActiveInvitation
<1>1. ConversationsInv => OneActiveInvitation
  BY DEF ConversationsInv
<1>. QED BY <1>1, ConversationsInvariant, PTL

(* A conversation never goes back, neither from closed to active nor from      *)
(* stored to ephemeral, however its transitions overlap.                       *)
THEOREM TransitionsGoForward == Spec => TransitionsNeverUndo
<1>1. Forward <=> \A c \in DOMAIN conv : /\ Rank[conv[c].status] <= Rank[conv'[c].status]
                                         /\ conv[c].mode = "stored" => conv'[c].mode = "stored"
  BY DEF Forward
<1>2. ConversationsInv /\ [Next]_vars => [Forward]_vars
  BY ConversationsStep
<1>3. Spec => [][Forward]_vars
  BY <1>2, ConversationsInvariant, PTL DEF Spec
<1>. QED BY <1>1, <1>3, PTL DEF TransitionsNeverUndo

(* A conversation is only created from a code that works at that moment, of a  *)
(* host and by a guest whose addresses are verified: redeem holds both users   *)
(* and the invitation.                                                         *)
THEOREM ConversationsFromWorkingCodes == Spec => CreatedFromWorkingCode
<1>1. ConversationsInv /\ [Next]_vars =>
        [\A c \in DOMAIN conv' \ DOMAIN conv :
           LET i == inv[conv'[c].from] IN
           /\ i.status = "active"
           /\ conv'[c].members \subseteq alive \cap verified
           /\ \A j \in Owned(i.owner) : inv[j].generation <= i.generation]_vars
  BY CreatedStep
<1>. QED BY <1>1, ConversationsInvariant, PTL DEF Spec, CreatedFromWorkingCode

(* What the open transactions hold they have taken in the order of the code:   *)
(* the lock that MayLock names first, before the next.                         *)
THEOREM LocksInOrder == Spec => []HeldInv
<1>1. Init => HeldInv
  BY DEF Init, HeldInv, HoldsInOrder, OnePurge, Idle
<1>. QED BY <1>1, HeldStep, ConversationsInvariant, PTL DEF Spec

(* Transactions that wait for each other in a circle: one is a deletion and    *)
(* another takes two of the rows of its cascade, or a send waits with a         *)
(* redemption, or a purge with who erases messages.  All others lock users in   *)
(* the order of their ids, then the conversation, then what belongs to it.      *)
THEOREM CirclesAreKnown == Spec => []CirclesNeedAPair
<1>1. ConversationsInv /\ HeldInv => CirclesNeedAPair
  BY CirclesAre
<1>. QED BY <1>1, LocksInOrder, ConversationsInvariant, PTL

(* Nobody ever waits for an invitation or for a vote: they are locked under    *)
(* their owner and their conversation.                                         *)
THEOREM CodesAndVotesAreFree == Spec => []CodesAndVotesAreNotWaitedFor
<1>1. ConversationsInv /\ HeldInv => CodesAndVotesAreNotWaitedFor
  <2>. SUFFICES ASSUME ConversationsInv, HeldInv, NEW p \in Transactions, NEW q \in Transactions, p # q,
                       NEW lock \in Wanted(p), Blocks(q, lock)
                PROVE  lock[1][1] \notin {"invitation", "vote"}
    BY DEF CodesAndVotesAreNotWaitedFor
  <2>1. Waits(p, q, lock)
    BY DEF Waits
  <2>. QED BY <2>1, WaitedRows DEF User, OfConversation
<1>. QED BY <1>1, LocksInOrder, ConversationsInvariant, PTL

(* What the code writes it has locked until it commits: users, invitations,    *)
(* conversations and the members of a conversation.  It says nothing of what a *)
(* transaction only reads: accept counts the members, and a send looks for its *)
(* recipient, before a lock keeps the deletion of that account out.            *)
THEOREM WritesAreLocked == Spec => ChangesAreLocked
<1>1. ConversationsInv /\ [Next]_vars =>
        [\E p \in Transactions : LockedBy(p) /\ \A q \in Transactions \ {p} : txn'[q] = txn[q]]_vars
  BY LockedStep
<1>. QED BY <1>1, ConversationsInvariant, PTL DEF Spec, ChangesAreLocked

=============================================================================
