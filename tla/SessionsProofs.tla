--------------------------- MODULE SessionsProofs ---------------------------
(***************************************************************************)
(* Theorems about Sessions, SessionSockets and KeyTransfers, for any number *)
(* of sessions, tokens, codes, sockets, transfers and bootstrap tokens.     *)
(***************************************************************************)
EXTENDS SessionSockets, KeyTransfers, TLAPS

-----------------------------------------------------------------------------
(* Sessions: types *)

LEMMA PredecessorIsSid ==
  ASSUME NEW s \in Sids, Live(s), \A r \in Sids : Live(r) => r = s
  PROVE  TransferPredecessor = s
<1>1. \E p \in Sids : Live(p) /\ \A r \in Sids : Live(r) => r <= p
  BY SessionConstants DEF Sids
<1>2. PICK p \in Sids : p = TransferPredecessor /\ Live(p)
  BY <1>1 DEF TransferPredecessor
<1>. QED BY <1>2

(* Rows are numbered in the order of their creation. *)
RowsAreCreated == \A s \in Sids : session[s] # "absent" => s <= created

RowsInv == TypeOK /\ RowsAreCreated /\ OnlyNewestSessionLives

(* The predecessor is the last session created, or there is none. *)
LEMMA PredecessorIsNewest ==
  ASSUME RowsInv
  PROVE  TransferPredecessor \in {0, created}
<1>1. CASE \E s \in Sids : Live(s)
  <2>1. PICK s \in Sids : Live(s)
    BY <1>1
  <2>2. \A r \in Sids : Live(r) => r = created
    BY SessionConstants DEF RowsInv, TypeOK, OnlyNewestSessionLives, Live, Rows, Sids
  <2>. QED BY <2>1, <2>2, PredecessorIsSid
<1>2. CASE ~ \E s \in Sids : Live(s)
  BY <1>2 DEF TransferPredecessor
<1>. QED BY <1>1, <1>2

-----------------------------------------------------------------------------
(* Sessions: one lemma per helper, then the actions *)

LEMMA CreateSessionType ==
  ASSUME TypeOK, NEW from \in Bootstraps \cup {"none", "register", "recover"},
         CreateSession(from)
  PROVE  /\ created + 1 \in Sids
         /\ created' \in 0..MaxSessions
         /\ session' \in [Sids -> {"absent", "valid", "expired"}]
         /\ issued' \in [Sids -> 0..MaxTokens]
         /\ origin' \in [Sids -> Bootstraps \cup {"none", "register", "recover"}]
<1>1. created + 1 \in Sids /\ created + 1 \in 0..MaxSessions
  BY SessionConstants DEF TypeOK, CreateSession, Sids
<1>2. 1 \in 0..MaxTokens
  BY SessionConstants
<1>. QED BY <1>1, <1>2 DEF TypeOK, CreateSession

LEMMA SendCodeType ==
  ASSUME TypeOK, NEW address \in Addresses, NEW committed \in BOOLEAN, SendCode(address, committed)
  PROVE  /\ codes' \in 0..MaxCodes /\ code' \in 0..codes'
         /\ mailed' \subseteq Codes \X Addresses
<1>1. codes + 1 \in Codes /\ codes' = codes + 1
  BY SessionConstants DEF TypeOK, SendCode, Codes
<1>2. codes' \in 0..MaxCodes /\ code' \in 0..codes'
  BY SessionConstants, <1>1 DEF TypeOK, SendCode, Codes
<1>3. mailed' \subseteq Codes \X Addresses
  BY <1>1 DEF TypeOK, SendCode
<1>. QED BY <1>2, <1>3

LEMMA RevokeType ==
  ASSUME TypeOK, NEW family \in SUBSET Sids, Revoke(family)
  PROVE  revoked' \subseteq Sids /\ unpublished' \subseteq Sids
BY DEF TypeOK, Revoke

LEMMA MailTypeStep == TypeOK /\ MailStep => TypeOK'
<1>1. ASSUME TypeOK, NEW s \in Sids, NEW committed \in BOOLEAN, ResendVerification(s, committed)
      PROVE  TypeOK'
  BY <1>1, SendCodeType DEF ResendVerification, TypeOK, bootVars
<1>2. ASSUME TypeOK, NEW s \in Sids, NEW committed \in BOOLEAN, NEW a \in Addresses,
             UpdateEmail(s, a, committed)
      PROVE  TypeOK'
  BY <1>2, SendCodeType DEF UpdateEmail, TypeOK, bootVars
<1>3. ASSUME TypeOK, NEW k \in Codes, VerifyEmail(k) PROVE TypeOK'
  BY <1>3 DEF VerifyEmail, Spend, TypeOK, bootVars
<1>4. ASSUME TypeOK, CodeExpires PROVE TypeOK'
  BY <1>4 DEF CodeExpires, TypeOK, bootVars
<1>. QED BY <1>1, <1>2, <1>3, <1>4 DEF MailStep

LEMMA AccountTypeStep == RowsInv /\ AccountStep => TypeOK'
<1>. SUFFICES ASSUME RowsInv, AccountStep PROVE TypeOK'
  OBVIOUS
<1>0. TypeOK
  BY DEF RowsInv
<1>r. Rows \in SUBSET Sids
  BY DEF Rows
<1>1. ASSUME NEW committed \in BOOLEAN, Register(committed) PROVE TypeOK'
  <2>1. codes' \in 0..MaxCodes /\ code' \in 0..codes' /\ mailed' \subseteq Codes \X Addresses
    BY <1>0, <1>1, SendCodeType DEF Register, TypeOK
  <2>2. CASE committed
    BY <1>0, <1>1, <2>1, <2>2, CreateSessionType DEF Register, TypeOK, bootVars
  <2>3. CASE ~committed
    BY <1>0, <1>1, <2>1, <2>3 DEF Register, TypeOK, bootVars
  <2>. QED BY <2>2, <2>3
<1>2. CASE Recover
  BY <1>0, <1>r, <1>2, CreateSessionType, RevokeType DEF Recover, TypeOK, bootVars, mailVars
<1>3. ASSUME NEW j \in Bootstraps, ConsumeBootstrap(j) PROVE TypeOK'
  BY <1>0, <1>3 DEF ConsumeBootstrap, TypeOK, mailVars
<1>4. ASSUME NEW j \in Bootstraps, Exchange(j) PROVE TypeOK'
  <2>1. /\ created + 1 \in Sids
        /\ created' \in 0..MaxSessions
        /\ session' \in [Sids -> {"absent", "valid", "expired"}]
        /\ issued' \in [Sids -> 0..MaxTokens]
        /\ origin' \in [Sids -> Bootstraps \cup {"none", "register", "recover"}]
    BY <1>0, <1>4, CreateSessionType DEF Exchange
  <2>2. revoked' \subseteq Sids /\ unpublished' \subseteq Sids
    BY <1>0, <1>r, <1>4, RevokeType DEF Exchange
  <2>3. TransferPredecessor \in {0, created}
    BY PredecessorIsNewest
  <2>4. grant' \in Grants
    <3>1. CASE TransferPredecessor = 0
      BY <1>4, <3>1 DEF Exchange, TransferGrant, Grants
    <3>2. CASE TransferPredecessor # 0
      <4>1. created \in Sids /\ created # created + 1
        BY <1>0, <2>3, <3>2, SessionConstants DEF TypeOK, Sids
      <4>2. grant' = [source |-> created, target |-> created + 1]
        BY <1>4, <2>3, <3>2 DEF Exchange, TransferGrant
      <4>. QED BY <2>1, <4>1, <4>2 DEF Grants
    <3>. QED BY <3>1, <3>2
  <2>. QED BY <1>0, <1>4, <2>1, <2>2, <2>4 DEF Exchange, TypeOK, mailVars
<1>5. ASSUME NEW j \in Bootstraps, ExchangeFails(j) \/ MarkLapses(j) PROVE TypeOK'
  BY <1>0, <1>5 DEF ExchangeFails, MarkLapses, TypeOK, mailVars
<1>6. ASSUME NEW t \in Tokens, Rotate(t) PROVE TypeOK'
  <2>1. t[1] \in Sids /\ issued[t[1]] + 1 \in 0..MaxTokens
    BY <1>0, <1>6, SessionConstants DEF Rotate, TypeOK, Tokens
  <2>. QED BY <1>0, <1>6, <2>1 DEF Rotate, TypeOK, mailVars, bootVars
<1>7. ASSUME NEW t \in Tokens, Reuse(t) PROVE TypeOK'
  <2>1. t[1] \in Sids
    BY DEF Tokens
  <2>. QED BY <1>0, <1>7, <2>1, RevokeType DEF Reuse, RevokeFamily, TypeOK, mailVars, bootVars
<1>8. ASSUME NEW s \in Sids, Logout(s) PROVE TypeOK'
  BY <1>0, <1>8, RevokeType DEF Logout, TypeOK, mailVars, bootVars
<1>9. ASSUME NEW s \in Sids, Delete(s) PROVE TypeOK'
  <2>1. revoked' \subseteq Sids /\ unpublished' \subseteq Sids
    BY <1>0, <1>r, <1>9, RevokeType DEF Delete
  <2>2. 0 \in 0..codes
    BY <1>0 DEF TypeOK
  <2>. QED BY <1>0, <1>9, <2>1, <2>2 DEF Delete, TypeOK, Grants, bootVars
<1>10. ASSUME NEW s \in Sids, SessionExpires(s) PROVE TypeOK'
  BY <1>0, <1>10 DEF SessionExpires, TypeOK, mailVars, bootVars
<1>11. ASSUME NEW s \in Sids, Purge(s) PROVE TypeOK'
  BY <1>0, <1>11 DEF Purge, TypeOK, Grants, mailVars, bootVars
<1>12. CASE GrantExpires
  BY <1>0, <1>12 DEF GrantExpires, TypeOK, Grants, mailVars, bootVars
<1>. QED
  BY <1>1, <1>2, <1>3, <1>4, <1>5, <1>6, <1>7, <1>8, <1>9, <1>10, <1>11, <1>12 DEF AccountStep

LEMMA OtherTypeStep ==
  TypeOK /\ ((\E s \in Sids : Publish(s)) \/ RedisLoss \/ UNCHANGED vars) => TypeOK'
BY DEF Publish, RedisLoss, vars, TypeOK, mailVars, bootVars

-----------------------------------------------------------------------------
(* The invariant of the sessions *)

NoAccountNoSession == account = "none" => created = 0

(* A revocation names a session that was created. *)
RevokedWereCreated == \A s \in revoked : s <= created

(* Every token but the last of its family is marked as used. *)
EarlierTokensAreUsed == \A t \in Tokens : t[2] < issued[t[1]] => t \in used

AccusedAreRevoked == accused \subseteq revoked

(* A bootstrap token that was taken is remembered, or is known to be forgotten; *)
(* one that is remembered and waits for its transaction has opened nothing.     *)
BootstrapsAreRemembered ==
  /\ exchanging \subseteq consumed \cup forgot
  /\ \A s \in Sids : origin[s] \in Bootstraps => origin[s] \in consumed \cup forgot
  /\ \A j \in exchanging \ forgot : \A s \in Sids : origin[s] # j

(* The code in force was mailed to the address in force. *)
CodeIsForAddress == code # 0 => <<code, email>> \in mailed

SessionInv ==
  /\ RowsInv
  /\ NoAccountNoSession
  /\ RevokedWereCreated
  /\ EarlierTokensAreUsed
  /\ AccusedAreRevoked
  /\ BootstrapsAreRemembered
  /\ BootstrapOpensOneSession
  /\ CodeIsForAddress
  /\ VerifiedMeansMailed

LEMMA SessionInit == Init => SessionInv
<1>. SUFFICES ASSUME Init PROVE SessionInv
  OBVIOUS
<1>0. 0 \in 0..MaxSessions /\ 0 \in 0..MaxTokens /\ 0 \in 0..MaxCodes /\ 0 \in 0..0
  BY SessionConstants
<1>1. TypeOK
  BY <1>0 DEF Init, TypeOK, Grants
<1>2. RowsInv /\ NoAccountNoSession /\ RevokedWereCreated /\ AccusedAreRevoked
  BY <1>1 DEF Init, NoAccountNoSession, RowsInv, RowsAreCreated, OnlyNewestSessionLives, Rows, RevokedWereCreated,
              AccusedAreRevoked
<1>3. EarlierTokensAreUsed
  BY DEF Init, EarlierTokensAreUsed, Tokens
<1>4. BootstrapsAreRemembered /\ BootstrapOpensOneSession
  BY SessionConstants DEF Init, BootstrapsAreRemembered, BootstrapOpensOneSession
<1>5. CodeIsForAddress /\ VerifiedMeansMailed
  BY DEF Init, CodeIsForAddress, VerifiedMeansMailed
<1>. QED BY <1>2, <1>3, <1>4, <1>5 DEF SessionInv

(* What a step does to the sessions: it creates one, as the newest, and ends    *)
(* those with a row, or it creates none.                                        *)
sessionVars == <<created, session, revoked>>

LEMMA SessionStep ==
  ASSUME SessionInv, [Next]_vars
  PROVE  \/ /\ created' = created + 1 /\ created' \in Sids
            /\ session' = [session EXCEPT ![created + 1] = "valid"]
            /\ revoked' = revoked \cup Rows \/ (revoked' = revoked /\ account = "none")
         \/ /\ created' = created
            /\ \A s \in Sids : session'[s] \in {session[s], "absent"}
                                 \/ (session[s] = "valid" /\ session'[s] = "expired")
            /\ revoked \subseteq revoked' /\ revoked' \subseteq revoked \cup Rows
<1>1. CASE UNCHANGED vars
  BY <1>1 DEF vars, SessionInv, RowsInv, TypeOK
<1>2. CASE MailStep
  BY <1>2 DEF MailStep, ResendVerification, UpdateEmail, VerifyEmail, Spend, CodeExpires
<1>3. CASE (\E s \in Sids : Publish(s)) \/ RedisLoss
  BY <1>3 DEF Publish, RedisLoss
<1>4. CASE AccountStep
  <2>0. TypeOK
    BY DEF SessionInv, RowsInv
  <2>1. ASSUME NEW committed \in BOOLEAN, Register(committed)
        PROVE  \/ UNCHANGED sessionVars
               \/ CreateSession("register") /\ UNCHANGED revoked /\ account = "none"
    BY <2>1 DEF Register, sessionVars
  <2>2. ASSUME NEW j \in Bootstraps, Exchange(j) \/ Recover
        PROVE  (\E from \in Bootstraps \cup {"recover"} : CreateSession(from)) /\ Revoke(Rows)
    BY <2>2 DEF Exchange, Recover
  <2>2r. ASSUME Recover PROVE CreateSession("recover") /\ Revoke(Rows)
    BY <2>2r DEF Recover
  <2>3. ASSUME NEW from \in Bootstraps \cup {"none", "register", "recover"}, CreateSession(from)
        PROVE  /\ created' = created + 1 /\ created' \in Sids
               /\ session' = [session EXCEPT ![created + 1] = "valid"]
    BY <2>0, <2>3, CreateSessionType DEF CreateSession
  <2>4. ASSUME NEW j \in Bootstraps, ConsumeBootstrap(j) \/ ExchangeFails(j) \/ MarkLapses(j)
        PROVE  UNCHANGED sessionVars
    BY <2>4 DEF ConsumeBootstrap, ExchangeFails, MarkLapses, sessionVars
  <2>5. ASSUME NEW t \in Tokens, Rotate(t) PROVE UNCHANGED sessionVars
    BY <2>5 DEF Rotate, sessionVars
  <2>6. ASSUME NEW t \in Tokens, Reuse(t)
        PROVE  UNCHANGED <<created, session>> /\ Revoke({t[1]}) /\ {t[1]} \subseteq Rows
    BY <2>6 DEF Reuse, RevokeFamily, Known
  <2>7. ASSUME NEW s \in Sids, Logout(s)
        PROVE  UNCHANGED <<created, session>> /\ Revoke({s}) /\ {s} \subseteq Rows
    BY <2>7 DEF Logout, Authenticated, Live, Rows
  <2>8. ASSUME NEW s \in Sids, Delete(s)
        PROVE  /\ created' = created /\ session' = [r \in Sids |-> "absent"] /\ Revoke(Rows)
    BY <2>8 DEF Delete
  <2>9. ASSUME NEW s \in Sids, SessionExpires(s)
        PROVE  /\ UNCHANGED <<created, revoked>> /\ session[s] = "valid"
               /\ session' = [session EXCEPT ![s] = "expired"]
    BY <2>9 DEF SessionExpires
  <2>10. ASSUME NEW s \in Sids, Purge(s)
         PROVE  /\ UNCHANGED <<created, revoked>>
                /\ session' = [session EXCEPT ![s] = "absent"]
    BY <2>10 DEF Purge
  <2>11. CASE GrantExpires
    BY <2>11 DEF GrantExpires
  <2>a. CASE \E committed \in BOOLEAN : Register(committed)
    BY <2>a, <2>1, <2>3 DEF sessionVars
  <2>b. CASE (\E j \in Bootstraps : Exchange(j)) \/ Recover
    BY <2>b, <2>2, <2>2r, <2>3 DEF Revoke
  <2>c. CASE \E j \in Bootstraps : ConsumeBootstrap(j) \/ ExchangeFails(j) \/ MarkLapses(j)
    BY <2>c, <2>4 DEF sessionVars
  <2>d. CASE \E t \in Tokens : Rotate(t) \/ Reuse(t)
    BY <2>d, <2>5, <2>6 DEF sessionVars, Revoke
  <2>e. CASE \E s \in Sids : Logout(s) \/ Delete(s)
    BY <2>e, <2>7, <2>8 DEF Revoke
  <2>f. CASE \E s \in Sids : SessionExpires(s) \/ Purge(s)
    BY <2>0, <2>f, <2>9, <2>10 DEF TypeOK
  <2>. QED BY <1>4, <2>11, <2>a, <2>b, <2>c, <2>d, <2>e, <2>f DEF AccountStep
<1>. QED BY <1>1, <1>2, <1>3, <1>4 DEF Next

LEMMA TypeStep == SessionInv /\ [Next]_vars => TypeOK'
BY MailTypeStep, AccountTypeStep, OtherTypeStep DEF Next, SessionInv, RowsInv

LEMMA AccountStays ==
  ASSUME SessionInv, [Next]_vars
  PROVE  NoAccountNoSession'
<1>1. CASE UNCHANGED vars
  BY <1>1 DEF vars, SessionInv, NoAccountNoSession
<1>2. CASE MailStep
  BY <1>2 DEF MailStep, ResendVerification, UpdateEmail, VerifyEmail, Spend, CodeExpires, SessionInv,
              NoAccountNoSession
<1>3. CASE (\E s \in Sids : Publish(s)) \/ RedisLoss
  BY <1>3 DEF Publish, RedisLoss, SessionInv, NoAccountNoSession
<1>4. CASE AccountStep
  <2>1. account' # "none" \/ (account' = account /\ created' = created)
    BY <1>4 DEF AccountStep, Register, Recover, ConsumeBootstrap, Exchange, ExchangeFails,
                MarkLapses, Rotate, Reuse, Logout, Authenticated, Delete, SessionExpires, Purge,
                GrantExpires, Known
  <2>. QED BY <2>1 DEF SessionInv, NoAccountNoSession
<1>. QED BY <1>1, <1>2, <1>3, <1>4 DEF Next

LEMMA RowsStep ==
  ASSUME SessionInv, [Next]_vars
  PROVE  RowsInv' /\ RevokedWereCreated'
<1>0. TypeOK /\ TypeOK'
  BY TypeStep DEF SessionInv, RowsInv
<1>1. CASE /\ created' = created + 1 /\ created' \in Sids
           /\ session' = [session EXCEPT ![created + 1] = "valid"]
           /\ revoked' = revoked \cup Rows \/ (revoked' = revoked /\ account = "none")
  <2>1. \A s \in Sids : session'[s] # "absent" => s <= created'
    <3>1. \A s \in Sids : s <= created => s <= created'
      BY <1>0, <1>1, SessionConstants DEF TypeOK, Sids
    <3>2. created' <= created'
      BY <1>1, SessionConstants DEF Sids
    <3>. QED BY <1>0, <1>1, <3>1, <3>2 DEF TypeOK, SessionInv, RowsInv, RowsAreCreated
  <2>2. \A s \in revoked' : s <= created'
    <3>1. \A s \in revoked' : s \in Sids /\ s <= created
      BY <1>0, <1>1 DEF TypeOK, SessionInv, RowsInv, RowsAreCreated, RevokedWereCreated, Rows
    <3>. QED BY <1>0, <1>1, <3>1, SessionConstants DEF TypeOK, Sids
  <2>3. \A s \in Sids : session'[s] # "absent" /\ s # created' => s \in revoked'
    <3>. SUFFICES ASSUME NEW s \in Sids, session'[s] # "absent", s # created'
                  PROVE  s \in revoked'
      OBVIOUS
    <3>1. s \in Rows
      BY <1>0, <1>1 DEF TypeOK, Rows
    <3>2. s <= created
      BY <3>1 DEF SessionInv, RowsInv, RowsAreCreated, Rows
    <3>3. account # "none"
      BY <1>0, <3>2, SessionConstants DEF SessionInv, NoAccountNoSession, Sids
    <3>. QED BY <1>1, <3>1, <3>3
  <2>. QED BY <1>0, <2>1, <2>2, <2>3 DEF RowsInv, RowsAreCreated, OnlyNewestSessionLives, Rows,
                                         RevokedWereCreated
<1>2. CASE /\ created' = created
           /\ \A s \in Sids : session'[s] \in {session[s], "absent"}
                                \/ (session[s] = "valid" /\ session'[s] = "expired")
           /\ revoked \subseteq revoked' /\ revoked' \subseteq revoked \cup Rows
  <2>1. \A s \in Sids : session'[s] # "absent" => session[s] # "absent"
    BY <1>2
  <2>2. \A s \in revoked' : s <= created'
    BY <1>2 DEF SessionInv, RowsInv, RowsAreCreated, RevokedWereCreated, Rows
  <2>. QED BY <1>0, <1>2, <2>1, <2>2 DEF SessionInv, RowsInv, RowsAreCreated,
                                         OnlyNewestSessionLives, Rows, RevokedWereCreated
<1>. QED BY <1>1, <1>2, SessionStep

(* What a step does to refresh tokens and accusations. *)
LEMMA TokenStep ==
  ASSUME SessionInv, [Next]_vars
  PROVE  /\ EarlierTokensAreUsed' /\ AccusedAreRevoked'
         /\ \A s \in revoked \cup accused : issued'[s] = issued[s]
<1>0. TypeOK /\ TypeOK'
  BY TypeStep DEF SessionInv, RowsInv
<1>. DEFINE Same == UNCHANGED <<issued, used, accused>> /\ revoked \subseteq revoked'
<1>s. ASSUME Same
      PROVE  /\ EarlierTokensAreUsed' /\ AccusedAreRevoked'
             /\ \A s \in revoked \cup accused : issued'[s] = issued[s]
  BY <1>s DEF SessionInv, EarlierTokensAreUsed, AccusedAreRevoked
<1>1. CASE UNCHANGED vars \/ MailStep \/ (\E s \in Sids : Publish(s)) \/ RedisLoss
  <2>1. Same
    BY <1>1 DEF vars, MailStep, ResendVerification, UpdateEmail, VerifyEmail, Spend, CodeExpires,
                Publish, RedisLoss
  <2>. QED BY <2>1, <1>s
<1>2. ASSUME NEW from \in Bootstraps \cup {"none", "register", "recover"}, CreateSession(from),
             UNCHANGED <<used, accused>>, revoked \subseteq revoked'
      PROVE  /\ EarlierTokensAreUsed' /\ AccusedAreRevoked'
             /\ \A s \in revoked \cup accused : issued'[s] = issued[s]
  <2>1. created + 1 \in Sids /\ issued' = [issued EXCEPT ![created + 1] = 1]
    BY <1>0, <1>2, CreateSessionType DEF CreateSession
  <2>2. created + 1 \notin revoked
    BY <1>0, SessionConstants DEF TypeOK, SessionInv, RevokedWereCreated, Sids
  <2>3. \A s \in revoked \cup accused : issued'[s] = issued[s]
    BY <1>0, <2>1, <2>2 DEF TypeOK, SessionInv, AccusedAreRevoked
  <2>4. EarlierTokensAreUsed'
    <3>. SUFFICES ASSUME NEW t \in Tokens, t[2] < issued'[t[1]] PROVE t \in used
      BY <1>2 DEF EarlierTokensAreUsed
    <3>1. t[1] \in Sids /\ t[2] \in 1..MaxTokens
      BY DEF Tokens
    <3>2. t[1] # created + 1
      BY <1>0, <2>1, <3>1, SessionConstants DEF TypeOK
    <3>. QED BY <1>0, <2>1, <3>1, <3>2 DEF TypeOK, SessionInv, EarlierTokensAreUsed
  <2>. QED BY <1>2, <2>3, <2>4 DEF SessionInv, AccusedAreRevoked
<1>3. CASE AccountStep
  <2>1. ASSUME NEW committed \in BOOLEAN, Register(committed)
        PROVE  Same \/ (CreateSession("register") /\ UNCHANGED <<used, accused, revoked>>)
    BY <2>1 DEF Register
  <2>2. ASSUME Recover
        PROVE  CreateSession("recover") /\ UNCHANGED <<used, accused>> /\ revoked \subseteq revoked'
    BY <2>2 DEF Recover, Revoke
  <2>3. ASSUME NEW j \in Bootstraps, Exchange(j)
        PROVE  CreateSession(j) /\ UNCHANGED <<used, accused>> /\ revoked \subseteq revoked'
    BY <2>3 DEF Exchange, Revoke
  <2>4. ASSUME NEW j \in Bootstraps, ConsumeBootstrap(j) \/ ExchangeFails(j) \/ MarkLapses(j)
        PROVE  Same
    BY <2>4 DEF ConsumeBootstrap, ExchangeFails, MarkLapses
  <2>5. ASSUME NEW s \in Sids, Logout(s) \/ Delete(s) \/ SessionExpires(s) \/ Purge(s)
        PROVE  Same
    BY <2>5 DEF Logout, Delete, SessionExpires, Purge, Revoke
  <2>6. ASSUME NEW t \in Tokens, Reuse(t)
        PROVE  /\ EarlierTokensAreUsed' /\ AccusedAreRevoked'
               /\ \A s \in revoked \cup accused : issued'[s] = issued[s]
    BY <2>6 DEF Reuse, RevokeFamily, Revoke, SessionInv, EarlierTokensAreUsed, AccusedAreRevoked
  <2>7. ASSUME NEW t \in Tokens, Rotate(t)
        PROVE  /\ EarlierTokensAreUsed' /\ AccusedAreRevoked'
               /\ \A s \in revoked \cup accused : issued'[s] = issued[s]
    <3>1. /\ t[1] \in Sids \ revoked /\ t[2] <= issued[t[1]] /\ t \notin used
          /\ used' = used \cup {t} /\ issued' = [issued EXCEPT ![t[1]] = @ + 1]
          /\ UNCHANGED <<revoked, accused>>
      BY <2>7 DEF Rotate, Known, Live
    <3>2. EarlierTokensAreUsed'
      <4>. SUFFICES ASSUME NEW q \in Tokens, q[2] < issued'[q[1]] PROVE q \in used'
        BY DEF EarlierTokensAreUsed
      <4>0. q[1] \in Sids /\ q[2] \in 1..MaxTokens /\ t[2] \in 1..MaxTokens
        BY DEF Tokens
      <4>1. CASE q[1] # t[1]
        BY <1>0, <3>1, <4>0, <4>1 DEF TypeOK, SessionInv, EarlierTokensAreUsed
      <4>2. CASE q[1] = t[1] /\ q[2] < issued[q[1]]
        BY <3>1, <4>2 DEF SessionInv, EarlierTokensAreUsed
      <4>3. CASE q[1] = t[1] /\ ~(q[2] < issued[q[1]])
        <5>1. issued[t[1]] \in Nat /\ issued'[q[1]] = issued[t[1]] + 1
          BY <1>0, <3>1, <4>0, <4>3, SessionConstants DEF TypeOK
        <5>2. ~(t[2] < issued[t[1]])
          BY <3>1 DEF SessionInv, EarlierTokensAreUsed
        <5>3. q[2] = t[2]
          BY <3>1, <4>0, <4>3, <5>1, <5>2, SessionConstants
        <5>4. q = t
          BY <4>3, <5>3 DEF Tokens
        <5>. QED BY <3>1, <5>4
      <4>. QED BY <4>1, <4>2, <4>3
    <3>. QED BY <1>0, <3>1, <3>2 DEF TypeOK, SessionInv, AccusedAreRevoked
  <2>8. CASE GrantExpires
    BY <2>8, <1>s DEF GrantExpires
  <2>. QED BY <1>3, <1>2, <1>s, <2>1, <2>2, <2>3, <2>4, <2>5, <2>6, <2>7, <2>8 DEF AccountStep
<1>. QED BY <1>1, <1>3 DEF Next

-----------------------------------------------------------------------------
(* Bootstrap tokens *)

BootInv == BootstrapsAreRemembered /\ BootstrapOpensOneSession

(* A session that comes from no bootstrap token. *)
LEMMA CreatedOtherwise ==
  ASSUME SessionInv, TypeOK', NEW from \in {"register", "recover"}, CreateSession(from),
         UNCHANGED bootVars
  PROVE  BootInv'
<1>1. created + 1 \in Sids /\ from \notin Bootstraps
  BY SessionConstants, CreateSessionType DEF SessionInv, RowsInv
<1>2. \A s \in Sids : origin'[s] = IF s = created + 1 THEN from ELSE origin[s]
  BY <1>1 DEF CreateSession, SessionInv, RowsInv, TypeOK
<1>3. exchanging' = exchanging /\ consumed' = consumed /\ forgot' = forgot
  BY DEF bootVars
<1>4. BootstrapsAreRemembered'
  <2>1. \A s \in Sids : origin'[s] \in Bootstraps => origin[s] = origin'[s]
    BY <1>1, <1>2
  <2>2. \A j \in exchanging : j \in Bootstraps
    BY DEF SessionInv, RowsInv, TypeOK
  <2>3. \A j \in exchanging \ forgot : \A s \in Sids : origin'[s] # j
    BY <2>1, <2>2 DEF SessionInv, BootstrapsAreRemembered
  <2>. QED BY <1>3, <2>1, <2>3 DEF SessionInv, BootstrapsAreRemembered
<1>5. BootstrapOpensOneSession'
  BY <1>1, <1>2, <1>3 DEF SessionInv, BootstrapOpensOneSession
<1>. QED BY <1>4, <1>5 DEF BootInv

LEMMA ExchangeBoot ==
  ASSUME SessionInv, NEW j \in Bootstraps, Exchange(j)
  PROVE  BootInv'
<1>1. created + 1 \in Sids
  BY CreateSessionType DEF Exchange, SessionInv, RowsInv
<1>2. \A s \in Sids : origin'[s] = IF s = created + 1 THEN j ELSE origin[s]
  BY <1>1 DEF Exchange, CreateSession, SessionInv, RowsInv, TypeOK
<1>3. /\ j \in exchanging /\ exchanging' = exchanging \ {j}
      /\ consumed' = consumed /\ forgot' = forgot
  BY DEF Exchange
<1>4. BootstrapsAreRemembered'
  BY <1>1, <1>2, <1>3 DEF BootstrapsAreRemembered, SessionInv
<1>5. BootstrapOpensOneSession'
  <2>. SUFFICES ASSUME NEW s \in Sids, NEW r \in Sids,
                       origin'[s] = origin'[r], origin'[s] \in Bootstraps \ forgot
                PROVE  s = r
    BY <1>3 DEF BootstrapOpensOneSession
  <2>1. CASE origin'[s] = j
    <3>1. \A q \in Sids : origin[q] # j
      BY <1>3, <2>1 DEF SessionInv, BootstrapsAreRemembered
    <3>. QED BY <1>2, <2>1, <3>1
  <2>2. CASE origin'[s] # j
    BY <1>2, <2>2 DEF SessionInv, BootstrapOpensOneSession
  <2>. QED BY <2>1, <2>2
<1>. QED BY <1>4, <1>5 DEF BootInv

LEMMA BootstrapStep ==
  ASSUME SessionInv, [Next]_vars
  PROVE  BootInv'
<1>0. TypeOK /\ TypeOK'
  BY TypeStep DEF SessionInv, RowsInv
<1>s. ASSUME UNCHANGED <<bootVars, origin>> PROVE BootInv'
  BY <1>s DEF SessionInv, BootInv, BootstrapsAreRemembered, BootstrapOpensOneSession, bootVars
<1>1. CASE UNCHANGED vars \/ MailStep \/ \E s \in Sids : Publish(s)
  <2>1. UNCHANGED <<bootVars, origin>>
    BY <1>1 DEF vars, bootVars, MailStep, ResendVerification, UpdateEmail, VerifyEmail, Spend,
                CodeExpires, Publish
  <2>. QED BY <2>1, <1>s
<1>2. CASE RedisLoss
  BY <1>2 DEF RedisLoss, SessionInv, BootInv, BootstrapsAreRemembered, BootstrapOpensOneSession
<1>3. CASE AccountStep
  <2>1. ASSUME NEW committed \in BOOLEAN, Register(committed)
        PROVE  BootInv'
    <3>1. \/ UNCHANGED <<bootVars, origin>>
          \/ CreateSession("register") /\ UNCHANGED bootVars
      BY <2>1 DEF Register
    <3>. QED BY <1>0, <1>s, <3>1, CreatedOtherwise
  <2>2. CASE Recover
    BY <1>0, <2>2, CreatedOtherwise DEF Recover
  <2>3. ASSUME NEW j \in Bootstraps, ConsumeBootstrap(j) PROVE BootInv'
    <3>1. /\ j \notin consumed /\ consumed' = consumed \cup {j}
          /\ exchanging' = exchanging \cup {j} /\ UNCHANGED <<forgot, origin>>
      BY <2>3 DEF ConsumeBootstrap
    <3>2. j \notin forgot => \A s \in Sids : origin[s] # j
      BY <3>1 DEF SessionInv, BootstrapsAreRemembered
    <3>. QED BY <3>1, <3>2 DEF SessionInv, BootInv, BootstrapsAreRemembered, BootstrapOpensOneSession
  <2>4. ASSUME NEW j \in Bootstraps, ExchangeFails(j) \/ MarkLapses(j) PROVE BootInv'
    BY <2>4 DEF ExchangeFails, MarkLapses, SessionInv, BootInv, BootstrapsAreRemembered,
                BootstrapOpensOneSession
  <2>5. ASSUME NEW t \in Tokens, Rotate(t) \/ Reuse(t) PROVE UNCHANGED <<bootVars, origin>>
    BY <2>5 DEF Rotate, Reuse
  <2>6. ASSUME NEW s \in Sids, Logout(s) \/ Delete(s) \/ SessionExpires(s) \/ Purge(s)
        PROVE  UNCHANGED <<bootVars, origin>>
    BY <2>6 DEF Logout, Delete, SessionExpires, Purge
  <2>7. CASE GrantExpires
    BY <2>7, <1>s DEF GrantExpires
  <2>. QED BY <1>3, <1>s, <2>1, <2>2, <2>3, <2>4, <2>5, <2>6, <2>7, ExchangeBoot DEF AccountStep
<1>. QED BY <1>1, <1>2, <1>3 DEF Next

-----------------------------------------------------------------------------
(* Addresses *)

MailInv == CodeIsForAddress /\ VerifiedMeansMailed

LEMMA MailStays ==
  ASSUME SessionInv, [Next]_vars
  PROVE  MailInv'
<1>s. ASSUME UNCHANGED mailVars PROVE MailInv'
  BY <1>s DEF SessionInv, MailInv, CodeIsForAddress, VerifiedMeansMailed, mailVars
<1>1. ASSUME NEW committed \in BOOLEAN, SendCode(email, committed),
             UNCHANGED <<email, verified, presented>>
      PROVE  MailInv'
  BY <1>1 DEF SendCode, SessionInv, MailInv, CodeIsForAddress, VerifiedMeansMailed
<1>2. CASE MailStep
  <2>1. ASSUME NEW s \in Sids, NEW committed \in BOOLEAN, ResendVerification(s, committed)
        PROVE  MailInv'
    BY <2>1, <1>1 DEF ResendVerification
  <2>2. ASSUME NEW s \in Sids, NEW committed \in BOOLEAN, NEW a \in Addresses,
               UpdateEmail(s, a, committed)
        PROVE  MailInv'
    <3>1. CASE committed
      BY <2>2, <3>1 DEF UpdateEmail, SendCode, MailInv, CodeIsForAddress, VerifiedMeansMailed
    <3>2. CASE ~committed
      BY <2>2, <3>2 DEF UpdateEmail, SendCode, SessionInv, MailInv, CodeIsForAddress,
                        VerifiedMeansMailed
    <3>. QED BY <3>1, <3>2
  <2>3. ASSUME NEW k \in Codes, VerifyEmail(k) PROVE MailInv'
    <3>1. <<k, email>> \in mailed
      <4>1. k # 0
        BY SessionConstants DEF Codes
      <4>. QED BY <2>3, <4>1 DEF VerifyEmail, Spend, SessionInv, CodeIsForAddress
    <3>. QED BY <2>3, <3>1 DEF VerifyEmail, Spend, MailInv, CodeIsForAddress, VerifiedMeansMailed
  <2>4. CASE CodeExpires
    BY <2>4 DEF CodeExpires, SessionInv, MailInv, CodeIsForAddress, VerifiedMeansMailed
  <2>. QED BY <1>2, <2>1, <2>2, <2>3, <2>4 DEF MailStep
<1>3. CASE AccountStep
  <2>1. ASSUME NEW committed \in BOOLEAN, Register(committed) PROVE MailInv'
    BY <2>1, <1>1 DEF Register
  <2>2. ASSUME NEW s \in Sids, Delete(s) PROVE MailInv'
    BY <2>2 DEF Delete, SessionInv, MailInv, CodeIsForAddress, VerifiedMeansMailed
  <2>3. CASE Recover \/ GrantExpires
    BY <2>3, <1>s DEF Recover, GrantExpires
  <2>4. ASSUME NEW j \in Bootstraps,
               ConsumeBootstrap(j) \/ Exchange(j) \/ ExchangeFails(j) \/ MarkLapses(j)
        PROVE  UNCHANGED mailVars
    BY <2>4 DEF ConsumeBootstrap, Exchange, ExchangeFails, MarkLapses
  <2>5. ASSUME NEW t \in Tokens, Rotate(t) \/ Reuse(t) PROVE UNCHANGED mailVars
    BY <2>5 DEF Rotate, Reuse
  <2>6. ASSUME NEW s \in Sids, Logout(s) \/ SessionExpires(s) \/ Purge(s)
        PROVE  UNCHANGED mailVars
    BY <2>6 DEF Logout, SessionExpires, Purge
  <2>. QED BY <1>3, <1>s, <2>1, <2>2, <2>3, <2>4, <2>5, <2>6 DEF AccountStep
<1>4. CASE UNCHANGED vars \/ (\E s \in Sids : Publish(s)) \/ RedisLoss
  <2>1. UNCHANGED mailVars
    BY <1>4 DEF vars, Publish, RedisLoss
  <2>. QED BY <2>1, <1>s
<1>. QED BY <1>2, <1>3, <1>4 DEF Next

LEMMA InvariantStep == SessionInv /\ [Next]_vars => SessionInv'
<1>. SUFFICES ASSUME SessionInv, [Next]_vars PROVE SessionInv'
  OBVIOUS
<1>1. RowsInv' /\ RevokedWereCreated'
  BY RowsStep
<1>2. NoAccountNoSession'
  BY AccountStays
<1>3. EarlierTokensAreUsed' /\ AccusedAreRevoked'
  BY TokenStep
<1>4. BootInv'
  BY BootstrapStep
<1>5. MailInv'
  BY MailStays
<1>. QED BY <1>1, <1>2, <1>3, <1>4, <1>5 DEF SessionInv, BootInv, MailInv

(* The live predecessor that an exchange replaces, if it gives a permission. *)
LEMMA GrantStep ==
  ASSUME SessionInv, AccountStep, grant' \notin {grant, NoGrant}
  PROVE  /\ grant'.source = created /\ grant'.target = created'
         /\ created' = created + 1
         /\ created \in Sids /\ Live(created) /\ created \in revoked'
<1>1. PICK j \in Bootstraps : Exchange(j)
  <2>1. ASSUME NEW committed \in BOOLEAN, Register(committed) PROVE grant' = grant
    BY <2>1 DEF Register
  <2>2. ASSUME NEW j \in Bootstraps, ConsumeBootstrap(j) \/ ExchangeFails(j) \/ MarkLapses(j)
        PROVE  grant' = grant
    BY <2>2 DEF ConsumeBootstrap, ExchangeFails, MarkLapses
  <2>3. ASSUME NEW t \in Tokens, Rotate(t) \/ Reuse(t) PROVE grant' = grant
    BY <2>3 DEF Rotate, Reuse
  <2>4. ASSUME NEW s \in Sids, Logout(s) \/ Delete(s) \/ SessionExpires(s) \/ Purge(s)
        PROVE  grant' \in {grant, NoGrant}
    BY <2>4 DEF Logout, Delete, SessionExpires, Purge
  <2>5. ASSUME Recover \/ GrantExpires PROVE grant' \in {grant, NoGrant}
    BY <2>5 DEF Recover, GrantExpires
  <2>. QED BY <2>1, <2>2, <2>3, <2>4, <2>5 DEF AccountStep
<1>2. /\ TransferPredecessor # 0 /\ created' = created + 1
      /\ grant' = [source |-> TransferPredecessor, target |-> created + 1]
      /\ revoked' = revoked \cup Rows
  BY <1>1 DEF Exchange, CreateSession, TransferGrant, Revoke
<1>3. TransferPredecessor = created
  BY <1>2, PredecessorIsNewest DEF SessionInv
<1>4. PICK s \in Sids : Live(s)
  BY <1>2 DEF TransferPredecessor
<1>5. s = created
  BY <1>4 DEF SessionInv, RowsInv, OnlyNewestSessionLives, Rows, Live
<1>6. created \in Rows
  BY <1>4, <1>5 DEF Rows, Live
<1>. QED BY <1>2, <1>3, <1>4, <1>5, <1>6

-----------------------------------------------------------------------------
(* Theorems about Sessions *)

(* The invariant holds of every behaviour of the handlers, the worker and Redis. *)
THEOREM SessionInvariant == Spec => []SessionInv
BY SessionInit, InvariantStep, PTL DEF Spec

(* Every variable keeps its type: in particular a session that ended never     *)
(* comes back as another value, and a grant never joins a session to itself.   *)
THEOREM TypeCorrect == Spec => []TypeOK
<1>1. SessionInv => TypeOK
  BY DEF SessionInv, RowsInv
<1>. QED BY <1>1, SessionInvariant, PTL

(* After a recovery or an exchange no earlier session of the account lives.   *)
THEOREM NewestOnly == Spec => []OnlyNewestSessionLives
<1>1. SessionInv => OnlyNewestSessionLives
  BY DEF SessionInv, RowsInv
<1>. QED BY <1>1, SessionInvariant, PTL

(* A family has one usable refresh token, the last one issued, however long    *)
(* the chain of rotations.                                                     *)
THEOREM OneTokenPerFamily == Spec => []OneUsableToken
<1>1. SessionInv => OneUsableToken
  <2>. SUFFICES ASSUME SessionInv, NEW t \in Tokens, Known(t), t \notin used
                PROVE  t[2] = issued[t[1]]
    BY DEF OneUsableToken
  <2>1. t[2] \in Nat /\ issued[t[1]] \in Nat /\ t[2] <= issued[t[1]]
    BY SessionConstants DEF Known, Tokens, SessionInv, RowsInv, TypeOK
  <2>2. ~(t[2] < issued[t[1]])
    BY DEF SessionInv, EarlierTokensAreUsed
  <2>. QED BY <2>1, <2>2
<1>. QED BY <1>1, SessionInvariant, PTL

(* A revoked family, and one told of a reuse, is never refreshed again.        *)
THEOREM RevocationIsFinal == Spec => NoRefreshAfterRevocation
<1>1. SessionInv /\ [Next]_vars => [\A s \in revoked \cup accused : issued'[s] = issued[s]]_vars
  BY TokenStep
<1>. QED BY <1>1, SessionInvariant, PTL DEF Spec, NoRefreshAfterRevocation

(* A bootstrap token that Redis remembers opened at most one session.          *)
THEOREM BootstrapOnce == Spec => []BootstrapOpensOneSession
<1>1. SessionInv => BootstrapOpensOneSession
  BY DEF SessionInv
<1>. QED BY <1>1, SessionInvariant, PTL

(* A verified address is one to which a code that was presented was mailed.    *)
THEOREM VerifiedAddressGotTheCode == Spec => []VerifiedMeansMailed
<1>1. SessionInv => VerifiedMeansMailed
  BY DEF SessionInv
<1>. QED BY <1>1, SessionInvariant, PTL

(* A permission to upload goes to the live session that the exchange ends.     *)
THEOREM GrantToReplaced == Spec => GrantOnlyToReplaced
<1>1. SessionInv /\ [Next]_vars => [grant' \notin {grant, NoGrant} =>
                                      /\ Live(grant'.source)
                                      /\ grant'.source \in revoked'
                                      /\ grant'.target = created']_vars
  <2>. SUFFICES ASSUME SessionInv, Next, grant' \notin {grant, NoGrant}
                PROVE  Live(grant'.source) /\ grant'.source \in revoked' /\ grant'.target = created'
    OBVIOUS
  <2>1. AccountStep
    BY DEF Next, MailStep, ResendVerification, UpdateEmail, VerifyEmail, Spend, CodeExpires, Publish,
           RedisLoss
  <2>. QED BY <2>1, GrantStep
<1>. QED BY <1>1, SessionInvariant, PTL DEF Spec, GrantOnlyToReplaced

-----------------------------------------------------------------------------
(* Key transfers: a permission joins consecutive sessions, the blob of a       *)
(* transfer was uploaded by its target or by the session before, and it does   *)
(* not change while the transfer exists.                                       *)

GrantJoinsNeighbours == grant # NoGrant => grant.target = grant.source + 1

BlobIsFromNeighbour ==
  \A t \in Transfers : blob[t] # NoBlob =>
    meta[t] # 0 /\ blob[t].by \in {meta[t], meta[t] - 1}

(* A UUID is given to one transfer. *)
UsedIdsAreSpent ==
  /\ \A t \in Transfers : meta[t] # 0 => t \in spent
  /\ \A r \in read : r.id \in spent

(* As long as a transfer exists, whoever read it read what it still holds. *)
ReadsAreOfTheBlob == \A r \in read : meta[r.id] # 0 => blob[r.id] = r.content

TransfersInv ==
  /\ TransfersTypeOK
  /\ SessionInv
  /\ GrantJoinsNeighbours
  /\ BlobIsFromNeighbour
  /\ UsedIdsAreSpent
  /\ ReadsAreOfTheBlob
  /\ KeysComeFromReplaced
  /\ DownloadsAgree

LEMMA TransfersInitially == TransfersInit => TransfersInv
<1>. SUFFICES ASSUME TransfersInit PROVE TransfersInv
  OBVIOUS
<1>1. SessionInv /\ TypeOK
  BY SessionInit DEF TransfersInit, SessionInv, RowsInv
<1>2. 0 \in 0..MaxSessions
  BY SessionConstants
<1>3. TransfersTypeOK
  BY <1>1, <1>2 DEF TransfersInit, TransfersTypeOK
<1>4. GrantJoinsNeighbours
  BY DEF TransfersInit, Init, GrantJoinsNeighbours
<1>5. BlobIsFromNeighbour /\ UsedIdsAreSpent /\ ReadsAreOfTheBlob /\ KeysComeFromReplaced
      /\ DownloadsAgree
  BY DEF TransfersInit, BlobIsFromNeighbour, UsedIdsAreSpent, ReadsAreOfTheBlob,
         KeysComeFromReplaced, DownloadsAgree
<1>. QED BY <1>1, <1>3, <1>4, <1>5 DEF TransfersInv

(* What a step does to sessions and permissions. *)
LEMMA TransfersSessions ==
  ASSUME TransfersInv, [TransfersNext]_tVars
  PROVE  SessionInv' /\ GrantJoinsNeighbours'
<1>1. CASE AccountStep
  <2>1. SessionInv'
    BY <1>1, InvariantStep DEF Next, TransfersInv
  <2>2. CASE grant' \in {grant, NoGrant}
    BY <2>1, <2>2 DEF TransfersInv, GrantJoinsNeighbours, NoGrant
  <2>3. CASE grant' \notin {grant, NoGrant}
    BY <1>1, <2>1, <2>3, GrantStep DEF TransfersInv, GrantJoinsNeighbours
  <2>. QED BY <2>1, <2>2, <2>3
<1>2. ASSUME NEW t \in Transfers, NEW s \in Sids, NEW committed \in BOOLEAN,
             DeleteTransfer(t, s, committed)
      PROVE  SessionInv' /\ GrantJoinsNeighbours'
  <2>1. /\ grant' \in {grant, NoGrant}
        /\ UNCHANGED <<account, mailVars, created, session, revoked, issued, used, bootVars,
                       unpublished, origin, accused>>
    BY <1>2 DEF DeleteTransfer
  <2>2. TypeOK'
    BY <2>1 DEF TransfersInv, SessionInv, RowsInv, TypeOK, Grants, mailVars, bootVars
  <2>3. RowsInv' /\ NoAccountNoSession' /\ RevokedWereCreated'
    BY <2>1, <2>2 DEF TransfersInv, SessionInv, RowsInv, RowsAreCreated, OnlyNewestSessionLives,
                      Rows, NoAccountNoSession, RevokedWereCreated
  <2>4. EarlierTokensAreUsed' /\ AccusedAreRevoked'
    BY <2>1 DEF TransfersInv, SessionInv, EarlierTokensAreUsed, AccusedAreRevoked
  <2>5. BootstrapsAreRemembered' /\ BootstrapOpensOneSession'
    BY <2>1 DEF TransfersInv, SessionInv, BootstrapsAreRemembered, BootstrapOpensOneSession, bootVars
  <2>6. CodeIsForAddress' /\ VerifiedMeansMailed'
    BY <2>1 DEF TransfersInv, SessionInv, CodeIsForAddress, VerifiedMeansMailed, mailVars
  <2>7. GrantJoinsNeighbours'
    BY <2>1 DEF TransfersInv, GrantJoinsNeighbours
  <2>. QED BY <2>2, <2>3, <2>4, <2>5, <2>6, <2>7 DEF SessionInv
<1>3. ASSUME [RedisLoss]_vars PROVE SessionInv' /\ GrantJoinsNeighbours'
  <2>1. SessionInv'
    BY <1>3, InvariantStep DEF Next, TransfersInv
  <2>2. grant' = grant
    BY <1>3 DEF RedisLoss, vars
  <2>. QED BY <2>1, <2>2 DEF TransfersInv, GrantJoinsNeighbours
<1>4. CASE UNCHANGED tVars
  BY <1>4, <1>3 DEF tVars
<1>5. ASSUME NEW t \in Transfers, NEW s \in Sids,
             CreateTransfer(t, s) \/ Get(t, s) \/ DeadlinePasses(t)
             \/ \E b \in Blobs : Put(t, s, b)
      PROVE  SessionInv' /\ GrantJoinsNeighbours'
  BY <1>3, <1>5 DEF CreateTransfer, Get, DeadlinePasses, Put
<1>6. CASE \E t \in Transfers : DeadlinePasses(t)
  BY <1>3, <1>6 DEF DeadlinePasses
<1>7. CASE TransfersRedisLoss
  BY <1>3, <1>7 DEF TransfersRedisLoss
<1>. QED BY <1>1, <1>2, <1>4, <1>5, <1>6, <1>7 DEF TransfersNext

(* The part of the invariant about Redis and downloads. *)
RedisInv ==
  /\ meta \in [Transfers -> 0..MaxSessions]
  /\ blob \in [Transfers -> Blob \cup {NoBlob}]
  /\ spent \subseteq Transfers
  /\ read \subseteq [id : Transfers, session : Sids, content : Blob]
  /\ BlobIsFromNeighbour /\ UsedIdsAreSpent /\ ReadsAreOfTheBlob
  /\ KeysComeFromReplaced /\ DownloadsAgree

LEMMA RedisStep ==
  ASSUME TransfersInv, [TransfersNext]_tVars
  PROVE  RedisInv'
<1>. USE DEF RedisInv
<1>0. RedisInv
  BY DEF TransfersInv, TransfersTypeOK
<1>z. NoBlob \notin Blob /\ \A s \in Sids : s # 0 /\ s \in 0..MaxSessions /\ s \in Nat
  BY SessionConstants DEF NoBlob, Blob, Sids
<1>1. CASE UNCHANGED transferVars
  BY <1>0, <1>1 DEF transferVars, BlobIsFromNeighbour, UsedIdsAreSpent, ReadsAreOfTheBlob,
                    KeysComeFromReplaced, DownloadsAgree
<1>2. ASSUME NEW t \in Transfers, NEW s \in Sids, CreateTransfer(t, s) PROVE RedisInv'
  <2>1. /\ t \notin spent /\ spent' = spent \cup {t} /\ meta' = [meta EXCEPT ![t] = s]
        /\ UNCHANGED <<blob, read>>
    BY <1>2 DEF CreateTransfer
  <2>2. meta[t] = 0 /\ blob[t] = NoBlob /\ \A r \in read : r.id # t
    BY <1>0, <2>1 DEF UsedIdsAreSpent, BlobIsFromNeighbour
  <2>3. meta' \in [Transfers -> 0..MaxSessions]
    BY <1>0, <1>z, <2>1
  <2>4. BlobIsFromNeighbour' /\ UsedIdsAreSpent' /\ ReadsAreOfTheBlob'
    BY <1>0, <2>1, <2>2 DEF BlobIsFromNeighbour, UsedIdsAreSpent, ReadsAreOfTheBlob
  <2>. QED BY <1>0, <2>1, <2>3, <2>4 DEF KeysComeFromReplaced, DownloadsAgree
<1>3. ASSUME NEW t \in Transfers, NEW s \in Sids, NEW b \in Blobs, Put(t, s, b)
      PROVE  RedisInv'
  <2>. DEFINE new == [by |-> s, blob |-> b]
  <2>1. /\ meta[t] # 0 /\ meta[t] = UploadTarget(s) /\ blob[t] = NoBlob
        /\ blob' = [blob EXCEPT ![t] = new] /\ UNCHANGED <<meta, spent, read>>
    BY <1>3 DEF Put, Addressed, Unloaded
  <2>2. new \in Blob /\ new # NoBlob
    BY <1>z DEF Blob
  <2>3. s \in {meta[t], meta[t] - 1}
    <3>1. CASE grant.source = s
      <4>1. grant # NoGrant
        BY <1>z, <3>1 DEF NoGrant
      <4>. QED BY <1>z, <2>1, <3>1, <4>1 DEF TransfersInv, GrantJoinsNeighbours, UploadTarget
    <3>2. CASE grant.source # s
      BY <2>1, <3>2 DEF UploadTarget
    <3>. QED BY <3>1, <3>2
  <2>4. BlobIsFromNeighbour' /\ UsedIdsAreSpent'
    BY <1>0, <2>1, <2>2, <2>3 DEF BlobIsFromNeighbour, UsedIdsAreSpent
  <2>5. \A r \in read : r.id # t
    BY <1>0, <1>z, <2>1 DEF ReadsAreOfTheBlob
  <2>6. ReadsAreOfTheBlob'
    BY <1>0, <2>1, <2>5 DEF ReadsAreOfTheBlob
  <2>. QED BY <1>0, <2>1, <2>2, <2>4, <2>6 DEF KeysComeFromReplaced, DownloadsAgree
<1>4. ASSUME NEW t \in Transfers, NEW s \in Sids, Get(t, s) PROVE RedisInv'
  <2>. DEFINE new == [id |-> t, session |-> s, content |-> blob[t]]
  <2>1. /\ meta[t] # 0 /\ meta[t] = s /\ blob[t] # NoBlob
        /\ read' = read \cup {new} /\ UNCHANGED <<meta, blob, spent>>
    BY <1>4 DEF Get, Addressed
  <2>2. new \in [id : Transfers, session : Sids, content : Blob]
    BY <1>0, <2>1
  <2>3. BlobIsFromNeighbour' /\ UsedIdsAreSpent' /\ ReadsAreOfTheBlob'
    BY <1>0, <2>1 DEF BlobIsFromNeighbour, UsedIdsAreSpent, ReadsAreOfTheBlob
  <2>4. KeysComeFromReplaced'
    BY <1>0, <2>1 DEF BlobIsFromNeighbour, KeysComeFromReplaced
  <2>5. DownloadsAgree'
    BY <1>0, <2>1 DEF ReadsAreOfTheBlob, DownloadsAgree
  <2>. QED BY <1>0, <2>1, <2>2, <2>3, <2>4, <2>5
<1>5. ASSUME NEW t \in Transfers, Erase(t), UNCHANGED <<spent, read>> PROVE RedisInv'
  <2>1. meta' = [meta EXCEPT ![t] = 0] /\ blob' = [blob EXCEPT ![t] = NoBlob]
    BY <1>5 DEF Erase
  <2>2. 0 \in 0..MaxSessions
    BY SessionConstants
  <2>. QED BY <1>0, <1>5, <2>1, <2>2 DEF BlobIsFromNeighbour, UsedIdsAreSpent, ReadsAreOfTheBlob,
                                    KeysComeFromReplaced, DownloadsAgree
<1>6. CASE TransfersRedisLoss
  <2>1. 0 \in 0..MaxSessions
    BY SessionConstants
  <2>. QED BY <1>0, <1>6, <2>1 DEF TransfersRedisLoss, BlobIsFromNeighbour, UsedIdsAreSpent,
                     ReadsAreOfTheBlob, KeysComeFromReplaced, DownloadsAgree
<1>7. ASSUME NEW t \in Transfers, DeadlinePasses(t) PROVE RedisInv'
  BY <1>7, <1>5 DEF DeadlinePasses
<1>8. ASSUME NEW t \in Transfers, NEW s \in Sids, NEW committed \in BOOLEAN,
             DeleteTransfer(t, s, committed)
      PROVE  RedisInv'
  BY <1>8, <1>5 DEF DeleteTransfer
<1>9. CASE UNCHANGED tVars
  BY <1>9, <1>1 DEF tVars
<1>. QED BY <1>1, <1>2, <1>3, <1>4, <1>6, <1>7, <1>8, <1>9 DEF TransfersNext

LEMMA TransfersStep == TransfersInv /\ [TransfersNext]_tVars => TransfersInv'
<1>. SUFFICES ASSUME TransfersInv, [TransfersNext]_tVars PROVE TransfersInv'
  OBVIOUS
<1>1. SessionInv' /\ GrantJoinsNeighbours'
  BY TransfersSessions
<1>2. RedisInv'
  BY RedisStep
<1>. QED BY <1>1, <1>2 DEF TransfersInv, TransfersTypeOK, RedisInv, SessionInv, RowsInv,
                           BlobIsFromNeighbour

-----------------------------------------------------------------------------
(* Theorems about KeyTransfers *)

(* The invariant holds of every behaviour of sessions and transfers.           *)
THEOREM TransfersInvariant == TransfersSpec => []TransfersInv
BY TransfersInitially, TransfersStep, PTL DEF TransfersSpec

(* The types hold, and with them that no blob outlives its transfer.           *)
THEOREM TransfersTypeCorrect == TransfersSpec => []TransfersTypeOK
<1>1. TransfersInv => TransfersTypeOK
  BY DEF TransfersInv
<1>. QED BY <1>1, TransfersInvariant, PTL

(* A downloaded key was uploaded by the downloading session itself or by the   *)
(* one its exchange replaced, through any number of exchanges.                 *)
THEOREM KeysFromReplaced == TransfersSpec => []KeysComeFromReplaced
<1>1. TransfersInv => KeysComeFromReplaced
  BY DEF TransfersInv
<1>. QED BY <1>1, TransfersInvariant, PTL

(* Every download of one transfer returns the same blob.                       *)
THEOREM OneBlobPerTransfer == TransfersSpec => []DownloadsAgree
<1>1. TransfersInv => DownloadsAgree
  BY DEF TransfersInv
<1>. QED BY <1>1, TransfersInvariant, PTL

-----------------------------------------------------------------------------
(* Sockets: a revocation is to be published from the step that commits it      *)

SocketsInv == SocketsTypeOK /\ SessionInv /\ RevokedSocketIsTold

LEMMA RevocationIsQueued ==
  ASSUME SessionInv, MailStep \/ AccountStep \/ RedisLoss \/ UNCHANGED vars
  PROVE  /\ unpublished \subseteq unpublished'
         /\ revoked' \ revoked \subseteq unpublished'
<1>1. CASE UNCHANGED vars \/ RedisLoss \/ MailStep
  BY <1>1 DEF vars, RedisLoss, MailStep, ResendVerification, UpdateEmail, VerifyEmail, Spend, CodeExpires
<1>2. CASE AccountStep
  <2>1. ASSUME NEW committed \in BOOLEAN, Register(committed)
        PROVE  UNCHANGED <<revoked, unpublished>>
    BY <2>1 DEF Register
  <2>2. ASSUME Recover PROVE Revoke(Rows)
    BY <2>2 DEF Recover
  <2>3. ASSUME NEW j \in Bootstraps, Exchange(j) PROVE Revoke(Rows)
    BY <2>3 DEF Exchange
  <2>4. ASSUME NEW j \in Bootstraps, ConsumeBootstrap(j) \/ ExchangeFails(j) \/ MarkLapses(j)
        PROVE  UNCHANGED <<revoked, unpublished>>
    BY <2>4 DEF ConsumeBootstrap, ExchangeFails, MarkLapses
  <2>5. ASSUME NEW t \in Tokens, Rotate(t) PROVE UNCHANGED <<revoked, unpublished>>
    BY <2>5 DEF Rotate
  <2>6. ASSUME NEW t \in Tokens, Reuse(t) PROVE Revoke({t[1]})
    BY <2>6 DEF Reuse, RevokeFamily
  <2>7. ASSUME NEW s \in Sids, Logout(s) PROVE Revoke({s})
    BY <2>7 DEF Logout
  <2>8. ASSUME NEW s \in Sids, Delete(s) PROVE Revoke(Rows)
    BY <2>8 DEF Delete
  <2>9. ASSUME NEW s \in Sids, SessionExpires(s) \/ Purge(s)
        PROVE  UNCHANGED <<revoked, unpublished>>
    BY <2>9 DEF SessionExpires, Purge
  <2>10. ASSUME GrantExpires PROVE UNCHANGED <<revoked, unpublished>>
    BY <2>10 DEF GrantExpires
  <2>11. UNCHANGED <<revoked, unpublished>> \/ \E family \in SUBSET Sids : Revoke(family)
    <3>1. Rows \in SUBSET Sids /\ \A s \in Sids : {s} \in SUBSET Sids
      BY DEF Rows
    <3>2. \A t \in Tokens : {t[1]} \in SUBSET Sids
      BY DEF Tokens
    <3>. QED
      BY <1>2, <3>1, <3>2, <2>1, <2>2, <2>3, <2>4, <2>5, <2>6, <2>7, <2>8, <2>9, <2>10 DEF AccountStep
  <2>. QED BY <2>11 DEF Revoke
<1>. QED BY <1>1, <1>2

(* The places of a socket, as the steps change them. *)
LEMMA SocketsStep == SocketsInv /\ [SocketsNext]_sVars => SocketsInv'
<1>. SUFFICES ASSUME SocketsInv, [SocketsNext]_sVars PROVE SocketsInv'
  OBVIOUS
<1>. DEFINE Place == {"none", "ticket", "subscribed", "checked", "open", "closed"}
            PlaceOK == socket \in [Conns -> [at : Place, sid : 0..MaxSessions]]
            QueuesOK == /\ told \subseteq Conns /\ lost \subseteq Conns
                        /\ present \subseteq {c \in Conns : socket[c].at \in {"open", "closed"}}
<1>0. TypeOK /\ PlaceOK /\ QueuesOK /\ SessionInv /\ RevokedSocketIsTold
  BY DEF SocketsInv, SocketsTypeOK
<1>n. ASSUME [Next]_vars PROVE SessionInv' /\ TypeOK'
  <2>1. SessionInv'
    BY <1>0, <1>n, InvariantStep
  <2>. QED BY <2>1 DEF SessionInv, RowsInv
(* The sessions change and the sockets do not. *)
<1>1. CASE (MailStep \/ AccountStep \/ UNCHANGED vars) /\ UNCHANGED socketVars
  <2>1. SessionInv' /\ TypeOK'
    BY <1>1, <1>n DEF Next
  <2>2. SocketsTypeOK'
    BY <1>0, <1>1, <2>1 DEF SocketsTypeOK, socketVars
  <2>3. RevokedSocketIsTold'
    BY <1>0, <1>1, RevocationIsQueued DEF RevokedSocketIsTold, At, socketVars
  <2>. QED BY <2>1, <2>2, <2>3 DEF SocketsInv
(* One socket moves, and the sessions do not change. *)
<1>2. ASSUME NEW c \in Conns, NEW place \in Place, UNCHANGED <<vars, told, lost>>,
             Move(c, place), place = "checked" => ~(socket[c].sid \in revoked),
             place = "open" => At(c, {"checked"}),
             present' \subseteq present \cup {c},
             c \in present' => place \in {"open", "closed"}
      PROVE  SocketsInv'
  <2>1. SessionInv' /\ TypeOK'
    BY <1>2, <1>n
  <2>2. PlaceOK' /\ \A d \in Conns : socket'[d] = IF d = c THEN [socket[c] EXCEPT !.at = place]
                                                   ELSE socket[d]
    BY <1>0, <1>2 DEF Move
  <2>3. QueuesOK'
    BY <1>0, <1>2, <2>2
  <2>4. RevokedSocketIsTold'
    <3>. SUFFICES ASSUME NEW d \in Conns, socket'[d].at \in {"checked", "open"},
                         socket'[d].sid \in revoked
                  PROVE  d \in told \cup lost \/ socket'[d].sid \in unpublished
      BY <1>2 DEF RevokedSocketIsTold, At, vars
    <3>1. CASE d # c
      BY <1>0, <2>2, <3>1 DEF RevokedSocketIsTold, At
    <3>2. CASE d = c
      <4>1. socket'[c].at = place /\ socket'[c].sid = socket[c].sid
        BY <1>0, <2>2
      <4>2. At(c, {"checked"})
        BY <1>2, <3>2, <4>1
      <4>. QED BY <1>0, <3>2, <4>1, <4>2 DEF RevokedSocketIsTold, At
    <3>. QED BY <3>1, <3>2
  <2>. QED BY <2>1, <2>2, <2>3, <2>4 DEF SocketsInv, SocketsTypeOK
<1>3. ASSUME NEW s \in Sids, NEW c \in Conns, WsTicket(s, c) PROVE SocketsInv'
  <2>1. SessionInv' /\ TypeOK'
    BY <1>3, <1>n DEF WsTicket
  <2>2. s \in 0..MaxSessions
    BY SessionConstants DEF Sids
  <2>3. PlaceOK' /\ \A d \in Conns : socket'[d] = IF d = c THEN [at |-> "ticket", sid |-> s]
                                                   ELSE socket[d]
    BY <1>0, <1>3, <2>2 DEF WsTicket
  <2>4. QueuesOK'
    BY <1>0, <1>3, <2>3 DEF WsTicket, At
  <2>5. RevokedSocketIsTold'
    BY <1>0, <1>3, <2>3 DEF WsTicket, RevokedSocketIsTold, At, vars
  <2>. QED BY <2>1, <2>3, <2>4, <2>5 DEF SocketsInv, SocketsTypeOK
<1>4. ASSUME NEW c \in Conns, TicketExpires(c) \/ Subscribe(c) PROVE SocketsInv'
  <2>1. c \notin present
    BY <1>0, <1>4 DEF TicketExpires, Subscribe, At
  <2>. QED BY <1>2, <1>4, <2>1 DEF TicketExpires, Subscribe
<1>5. ASSUME NEW c \in Conns, HandshakeCheck(c) PROVE SocketsInv'
  <2>1. c \notin present
    BY <1>0, <1>5 DEF HandshakeCheck, At
  <2>2. CASE Admitted(socket[c].sid)
    BY <1>2, <1>5, <2>1, <2>2 DEF HandshakeCheck, Admitted, Authenticated, Live
  <2>3. CASE ~Admitted(socket[c].sid)
    BY <1>2, <1>5, <2>1, <2>3 DEF HandshakeCheck
  <2>. QED BY <2>2, <2>3
<1>6. ASSUME NEW c \in Conns, Accept(c) PROVE SocketsInv'
  BY <1>2, <1>6 DEF Accept
<1>7. ASSUME NEW c \in Conns, ReadRevocation(c) \/ Monitor(c) PROVE SocketsInv'
  BY <1>2, <1>7 DEF ReadRevocation, Monitor
<1>8. ASSUME NEW c \in Conns, NEW clean \in BOOLEAN, SocketEnds(c, clean) PROVE SocketsInv'
  BY <1>2, <1>8 DEF SocketEnds
<1>9. ASSUME NEW c \in Conns, PresenceExpires(c) PROVE SocketsInv'
  <2>1. SessionInv' /\ TypeOK'
    BY <1>9, <1>n DEF PresenceExpires
  <2>2. QueuesOK' /\ PlaceOK'
    BY <1>0, <1>9 DEF PresenceExpires
  <2>3. RevokedSocketIsTold'
    BY <1>0, <1>9 DEF PresenceExpires, RevokedSocketIsTold, At, vars
  <2>. QED BY <2>1, <2>2, <2>3 DEF SocketsInv, SocketsTypeOK
(* The publication reaches the subscribers, or counts them as missed. *)
<1>10. ASSUME NEW s \in Sids, PublishRevocation(s) PROVE SocketsInv'
  <2>1. SessionInv' /\ TypeOK'
    BY <1>10, <1>n DEF PublishRevocation, Next
  <2>2. /\ UNCHANGED <<socket, present, revoked>> /\ unpublished' = unpublished \ {s}
        /\ told \subseteq told' /\ told' \subseteq Conns
        /\ lost \subseteq lost' /\ lost' \subseteq Conns
        /\ \A c \in Conns : Subscribed(c) /\ socket[c].sid = s => c \in told' \cup lost'
    BY <1>0, <1>10 DEF PublishRevocation, Publish
  <2>3. RevokedSocketIsTold'
    BY <1>0, <2>2 DEF RevokedSocketIsTold, At, Subscribed
  <2>. QED BY <1>0, <2>1, <2>2, <2>3 DEF SocketsInv, SocketsTypeOK
<1>11. CASE SocketsRedisLoss
  <2>1. SessionInv' /\ TypeOK'
    BY <1>11, <1>n DEF SocketsRedisLoss, Next
  <2>2. \A c \in Conns : socket'[c] = IF At(c, {"ticket"}) THEN [socket[c] EXCEPT !.at = "closed"]
                                      ELSE socket[c]
    BY <1>11 DEF SocketsRedisLoss
  <2>3. PlaceOK' /\ QueuesOK'
    BY <1>0, <1>11, <2>2 DEF SocketsRedisLoss
  <2>4. \A c \in Conns : socket'[c].at \in {"checked", "open"} => c \in lost'
    BY <1>0, <1>11, <2>2 DEF SocketsRedisLoss, Subscribed, At
  <2>. QED BY <2>1, <2>3, <2>4 DEF SocketsInv, SocketsTypeOK, RevokedSocketIsTold, At
<1>12. CASE UNCHANGED sVars
  BY <1>1, <1>12 DEF sVars
<1>. QED
  BY <1>1, <1>3, <1>4, <1>5, <1>6, <1>7, <1>8, <1>9, <1>10, <1>11, <1>12 DEF SocketsNext

LEMMA SocketsInitially == SocketsInit => SocketsInv
<1>. SUFFICES ASSUME SocketsInit PROVE SocketsInv
  OBVIOUS
<1>1. SessionInv /\ TypeOK
  BY SessionInit DEF SocketsInit, SessionInv, RowsInv
<1>2. 0 \in 0..MaxSessions
  BY SessionConstants
<1>3. SocketsTypeOK
  BY <1>1, <1>2 DEF SocketsInit, SocketsTypeOK, NoSocket
<1>4. RevokedSocketIsTold
  BY DEF SocketsInit, NoSocket, RevokedSocketIsTold, At
<1>. QED BY <1>1, <1>3, <1>4 DEF SocketsInv

-----------------------------------------------------------------------------
(* Theorems about SessionSockets *)

(* The invariant holds of every behaviour of sessions and sockets.             *)
THEOREM SocketsInvariant == SocketsSpec => []SocketsInv
BY SocketsInitially, SocketsStep, PTL DEF SocketsSpec

(* The types hold, and with them that only an accepted socket was announced.   *)
THEOREM SocketsTypeCorrect == SocketsSpec => []SocketsTypeOK
<1>1. SocketsInv => SocketsTypeOK
  BY DEF SocketsInv
<1>. QED BY <1>1, SocketsInvariant, PTL

(* For any number of sockets: the revocation of an accepted one is queued for  *)
(* it or still to be published, unless a publication was lost.                 *)
THEOREM RevocationReachesSockets == SocketsSpec => []RevokedSocketIsTold
<1>1. SocketsInv => RevokedSocketIsTold
  BY DEF SocketsInv
<1>. QED BY <1>1, SocketsInvariant, PTL

-----------------------------------------------------------------------------
(* Composition: neither component does to the accounts what Sessions does not, *)
(* so what is proved of Sessions holds with transfers and with sockets too.    *)

(* Whatever is uploaded, read or erased, the accounts run as Sessions: the end *)
(* of a transfer takes the permission away as its expiry would.                *)
THEOREM TransfersImplementSessions == TransfersSpec => Spec
<1>1. TransfersInit => Init
  BY DEF TransfersInit
<1>2. ASSUME [TransfersNext]_tVars PROVE [Next]_vars
  <2>1. CASE AccountStep
    BY <2>1 DEF Next
  <2>2. ASSUME NEW t \in Transfers, NEW s \in Sids, NEW committed \in BOOLEAN,
               DeleteTransfer(t, s, committed)
        PROVE  [Next]_vars
    <3>1. GrantExpires \/ UNCHANGED vars
      BY <2>2 DEF DeleteTransfer, GrantExpires, vars, mailVars, bootVars
    <3>. QED BY <3>1 DEF Next, AccountStep
  <2>3. ASSUME NEW t \in Transfers, NEW s \in Sids,
               \/ CreateTransfer(t, s) \/ Get(t, s)
               \/ \E b \in Blobs : Put(t, s, b)
        PROVE  UNCHANGED vars
    BY <2>3 DEF CreateTransfer, Get, Put
  <2>4. ASSUME NEW t \in Transfers, DeadlinePasses(t) PROVE UNCHANGED vars
    BY <2>4 DEF DeadlinePasses
  <2>5. CASE TransfersRedisLoss
    BY <2>5 DEF TransfersRedisLoss, Next
  <2>6. CASE UNCHANGED tVars
    BY <2>6 DEF tVars
  <2>. QED BY <1>2, <2>1, <2>2, <2>3, <2>4, <2>5, <2>6 DEF TransfersNext
<1>. QED BY <1>1, <1>2, PTL DEF TransfersSpec, Spec

(* Tickets, handshakes, monitors and losses of presence leave the accounts     *)
(* alone; what they publish is what Sessions publishes.                        *)
THEOREM SocketsImplementSessions == SocketsSpec => Spec
<1>1. SocketsInit => Init
  BY DEF SocketsInit
<1>2. ASSUME [SocketsNext]_sVars PROVE [Next]_vars
  <2>1. CASE MailStep \/ AccountStep
    BY <2>1 DEF Next
  <2>2. ASSUME NEW s \in Sids, PublishRevocation(s) PROVE Next
    BY <2>2 DEF PublishRevocation, Next
  <2>3. ASSUME NEW s \in Sids, NEW c \in Conns, WsTicket(s, c) PROVE UNCHANGED vars
    BY <2>3 DEF WsTicket
  <2>4. ASSUME NEW c \in Conns,
               \/ TicketExpires(c) \/ Subscribe(c) \/ HandshakeCheck(c) \/ Accept(c)
               \/ ReadRevocation(c) \/ Monitor(c) \/ PresenceExpires(c)
               \/ \E clean \in BOOLEAN : SocketEnds(c, clean)
        PROVE  UNCHANGED vars
    BY <2>4 DEF TicketExpires, Subscribe, HandshakeCheck, Accept, ReadRevocation, Monitor,
       PresenceExpires, SocketEnds
  <2>5. CASE SocketsRedisLoss
    BY <2>5 DEF SocketsRedisLoss, Next
  <2>6. CASE UNCHANGED sVars
    BY <2>6 DEF sVars
  <2>. QED BY <1>2, <2>1, <2>2, <2>3, <2>4, <2>5, <2>6 DEF SocketsNext
<1>. QED BY <1>1, <1>2, PTL DEF SocketsSpec, Spec
=============================================================================
