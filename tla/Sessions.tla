------------------------------ MODULE Sessions ------------------------------
(***************************************************************************)
(* One account and its sessions, as identity.py keeps them in PostgreSQL:  *)
(* registration, recovery, exchange of a bootstrap token of the main       *)
(* application, rotation of refresh tokens, detection of reuse, logout,    *)
(* deletion, and the verification of the e-mail address.                   *)
(*                                                                         *)
(* Every handler locks the row of the user before it reads what it decides *)
(* on, so a handler is one action, except the exchange, which consumes the *)
(* bootstrap token in Redis before its transaction, and what follows the   *)
(* commit: the publication of revocations (unpublished).  A refresh token  *)
(* ever issued, and a code ever mailed, may be presented at any time.      *)
(***************************************************************************)
EXTENDS Naturals

CONSTANTS
  MaxSessions,  \* bound: sessions of the account
  MaxTokens,    \* bound: refresh tokens of one family
  MaxCodes,     \* bound: verification codes generated
  Bootstraps,   \* bootstrap tokens of the main application, by jti
  Addresses     \* e-mail addresses

ASSUME SessionConstants ==
  /\ MaxSessions \in Nat /\ MaxTokens \in Nat \ {0} /\ MaxCodes \in Nat
  /\ {"none", "register", "recover"} \cap Bootstraps = {}

Sids   == 1..MaxSessions      \* in the order of created_at
Tokens == Sids \X (1..MaxTokens)
Codes  == 1..MaxCodes

VARIABLES
  account,      \* users: "deleted" means the row is gone
  email,        \* users.email
  verified,     \* users.email_verified
  code,         \* email_verification_tokens: the only row, 0 if none
  codes,        \* codes generated so far
  mailed,       \* <<code, address>> of the messages the provider accepted
  created,      \* sessions created so far
  session,      \* auth_sessions: a row that is valid, expired, or absent
  revoked,      \* sessions ever revoked; revoke writes sessions and tokens alike
  issued,       \* auth_refresh_tokens: <<s, 1>> .. <<s, issued[s]>> while s has a row
  used,         \* auth_refresh_tokens.used_at
  grant,        \* transfer_upload_grants: the only row
  consumed,     \* bootstrap:jti:* in Redis
  exchanging,   \* bootstrap tokens consumed by an exchange whose transaction is to come
  unpublished,  \* revocations committed and not yet published
  (* history: what the properties refer to *)
  origin,       \* what each session was created from
  forgot,       \* bootstrap tokens whose mark in Redis lapsed or was lost
  accused,      \* families told REFRESH_REUSE_DETECTED
  presented     \* codes that verified an address

mailVars == <<email, verified, code, codes, mailed, presented>>
bootVars == <<consumed, exchanging, forgot>>
vars == <<account, mailVars, created, session, revoked, issued, used, grant,
          bootVars, unpublished, origin, accused>>

NoGrant == [source |-> 0, target |-> 0]
Grants  == {NoGrant} \cup {g \in [source : Sids, target : Sids] : g.source # g.target}

TypeOK ==
  /\ account \in {"none", "active", "deleted"}
  /\ email \in Addresses /\ verified \in BOOLEAN
  /\ codes \in 0..MaxCodes /\ code \in 0..codes
  /\ mailed \subseteq Codes \X Addresses
  /\ presented \subseteq Codes
  /\ created \in 0..MaxSessions
  /\ session \in [Sids -> {"absent", "valid", "expired"}]
  /\ revoked \subseteq Sids
  /\ issued \in [Sids -> 0..MaxTokens]
  /\ used \subseteq Tokens
  /\ grant \in Grants
  /\ consumed \subseteq Bootstraps /\ exchanging \subseteq Bootstraps
  /\ forgot \subseteq Bootstraps
  /\ unpublished \subseteq Sids
  /\ origin \in [Sids -> Bootstraps \cup {"none", "register", "recover"}]
  /\ accused \subseteq Sids

Init ==
  /\ account = "none" /\ email \in Addresses /\ verified = FALSE
  /\ code = 0 /\ codes = 0 /\ mailed = {} /\ presented = {}
  /\ created = 0 /\ session = [s \in Sids |-> "absent"] /\ revoked = {}
  /\ issued = [s \in Sids |-> 0] /\ used = {} /\ grant = NoGrant
  /\ consumed = {} /\ exchanging = {} /\ forgot = {}
  /\ unpublished = {}
  /\ origin = [s \in Sids |-> "none"] /\ accused = {}

-----------------------------------------------------------------------------
(* What the handlers read *)

Rows == {s \in Sids : session[s] # "absent"}

Live(s) == s \in Sids \ revoked /\ session[s] = "valid"

Authenticated(s) == account = "active" /\ Live(s)

(* The residual permission of a replaced device: PUT of a key transfer only. *)
MayUpload(s) ==
  /\ account = "active"
  /\ Live(s) \/ (grant.source = s /\ Live(grant.target))

(* mutant: forgets that the newest session may have ended *)
PredecessorMayHaveEnded == created

(* The newest live session, 0 if there is none. *)
TransferPredecessor ==
  IF \E s \in Sids : Live(s)
  THEN CHOOSE s \in Sids : Live(s) /\ \A r \in Sids : Live(r) => r <= s
  ELSE 0

-----------------------------------------------------------------------------
(* What the handlers write *)

Revoke(family) ==
  /\ revoked' = revoked \cup family
  /\ unpublished' = unpublished \cup family

CreateSession(from) ==
  /\ created < MaxSessions
  /\ created' = created + 1
  /\ session' = [session EXCEPT ![created + 1] = "valid"]
  /\ issued' = [issued EXCEPT ![created + 1] = 1]
  /\ origin' = [origin EXCEPT ![created + 1] = from]

TransferGrant(source, target) ==
  grant' = IF source = 0 THEN NoGrant ELSE [source |-> source, target |-> target]

(* The provider takes the message before the commit: after a rollback it was  *)
(* sent all the same, with a code that is in no row.                          *)
SendCode(address, committed) ==
  /\ codes < MaxCodes
  /\ codes' = codes + 1
  /\ mailed' = mailed \cup {<<codes + 1, address>>}
  /\ code' = IF committed THEN codes + 1 ELSE code

-----------------------------------------------------------------------------
(* Handlers *)

Register(committed) ==
  /\ account = "none"
  /\ SendCode(email, committed)
  /\ IF committed
     THEN account' = "active" /\ CreateSession("register")
     ELSE UNCHANGED <<account, created, session, issued, origin>>
  /\ UNCHANGED <<email, verified, presented, revoked, used, grant, bootVars,
                 unpublished, accused>>

(* mutant: the earlier sessions stay *)
RecoverAdds ==
  /\ account = "active"
  /\ CreateSession("recover")
  /\ UNCHANGED <<account, mailVars, used, grant, bootVars, accused, revoked, unpublished>>

Recover ==
  /\ account = "active"
  /\ Revoke(Rows)
  /\ CreateSession("recover")
  /\ UNCHANGED <<account, mailVars, used, grant, bootVars, accused>>

(* mutant: SET without NX *)
ConsumeUnchecked(j) ==
  /\ consumed' = consumed \cup {j}
  /\ exchanging' = exchanging \cup {j}
  /\ UNCHANGED <<account, mailVars, created, session, revoked, issued, used, grant,
                 forgot, unpublished, origin, accused>>

(* SET NX of the mark, once the clock said the token is not expired.  The     *)
(* mark lapses with the token, and a request that passed the clock before may *)
(* come after.                                                                *)
ConsumeBootstrap(j) ==
  /\ j \notin consumed
  /\ consumed' = consumed \cup {j}
  /\ exchanging' = exchanging \cup {j}
  /\ UNCHANGED <<account, mailVars, created, session, revoked, issued, used, grant,
                 forgot, unpublished, origin, accused>>

Exchange(j) ==
  /\ j \in exchanging /\ account = "active"
  /\ exchanging' = exchanging \ {j}
  /\ Revoke(Rows)
  /\ CreateSession(j)
  /\ TransferGrant(TransferPredecessor, created + 1)
  /\ UNCHANGED <<account, mailVars, used, consumed, forgot, accused>>

(* No account, a rollback or a crash: the bootstrap token is spent. *)
ExchangeFails(j) ==
  /\ j \in exchanging
  /\ exchanging' = exchanging \ {j}
  /\ UNCHANGED <<account, mailVars, created, session, revoked, issued, used, grant,
                 consumed, forgot, unpublished, origin, accused>>

(* A token without a row, or not reusable and not usable, changes nothing. *)
Known(t) == account = "active" /\ t[1] \in Rows /\ t[2] <= issued[t[1]]

(* mutant: the session of the token is not checked *)
RotateRevoked(t) ==
  /\ Known(t) /\ t \notin used
  /\ issued[t[1]] < MaxTokens
  /\ used' = used \cup {t}
  /\ issued' = [issued EXCEPT ![t[1]] = @ + 1]
  /\ UNCHANGED <<account, mailVars, created, session, revoked, grant, bootVars,
                 unpublished, origin, accused>>

Rotate(t) ==
  /\ Known(t) /\ t \notin used /\ Live(t[1])
  /\ issued[t[1]] < MaxTokens
  /\ used' = used \cup {t}
  /\ issued' = [issued EXCEPT ![t[1]] = @ + 1]
  /\ UNCHANGED <<account, mailVars, created, session, revoked, grant, bootVars,
                 unpublished, origin, accused>>

(* The revocation commits before the error is raised. *)
RevokeFamily(s) == Revoke({s})

Reuse(t) ==
  /\ Known(t) /\ t \in used
  /\ RevokeFamily(t[1])
  /\ accused' = accused \cup {t[1]}
  /\ UNCHANGED <<account, mailVars, created, session, issued, used, grant, bootVars, origin>>

Logout(s) ==
  /\ Authenticated(s)
  /\ Revoke({s})
  /\ UNCHANGED <<account, mailVars, created, session, issued, used, grant, bootVars,
                 origin, accused>>

ResendVerification(s, committed) ==
  /\ Authenticated(s)
  /\ SendCode(email, committed)
  /\ UNCHANGED <<account, email, verified, presented, created, session, revoked, issued,
                 used, grant, bootVars, unpublished, origin, accused>>

(* mutant: the new address gets no code *)
UpdateKeepsCode(s, address, committed) ==
  /\ Authenticated(s) /\ address # email
  /\ email' = address /\ verified' = FALSE
  /\ UNCHANGED <<account, code, codes, mailed, presented, created, session, revoked, issued,
                 used, grant, bootVars, unpublished, origin, accused>>

(* A change of address; the nick and the letter case change nothing here. *)
UpdateEmail(s, address, committed) ==
  /\ Authenticated(s) /\ address # email
  /\ SendCode(address, committed)
  /\ email' = IF committed THEN address ELSE email
  /\ verified' = IF committed THEN FALSE ELSE verified
  /\ UNCHANGED <<account, presented, created, session, revoked, issued,
                 used, grant, bootVars, unpublished, origin, accused>>

(* IdentityStore.verify_email: DELETE ... RETURNING decides, and marks the    *)
(* address of the moment, whichever the code was mailed to.                   *)
Spend(k) ==
  /\ k = code /\ code' = 0
  /\ verified' = TRUE

VerifyEmail(k) ==
  /\ account = "active"
  /\ Spend(k)
  /\ presented' = presented \cup {k}
  /\ UNCHANGED <<account, email, codes, mailed, created, session, revoked, issued,
                 used, grant, bootVars, unpublished, origin, accused>>

(* Everything of the account goes with its row. *)
Delete(s) ==
  /\ Authenticated(s)
  /\ Revoke(Rows)
  /\ account' = "deleted"
  /\ session' = [r \in Sids |-> "absent"]
  /\ grant' = NoGrant
  /\ code' = 0
  /\ UNCHANGED <<email, verified, codes, mailed, presented, created, issued, used,
                 bootVars, origin, accused>>

-----------------------------------------------------------------------------
(* Time, the worker, and Redis *)

(* 30 days since the last rotation; the unused token expires at the same instant. *)
SessionExpires(s) ==
  /\ session[s] = "valid"
  /\ session' = [session EXCEPT ![s] = "expired"]
  /\ UNCHANGED <<account, mailVars, created, revoked, issued, used, grant, bootVars,
                 unpublished, origin, accused>>

(* The purge, 30 days later; grants on the session go with it. *)
Purge(s) ==
  /\ session[s] = "expired"
  /\ session' = [session EXCEPT ![s] = "absent"]
  /\ grant' = IF s \in {grant.source, grant.target} THEN NoGrant ELSE grant
  /\ UNCHANGED <<account, mailVars, created, revoked, issued, used, bootVars,
                 unpublished, origin, accused>>

GrantExpires ==
  /\ grant # NoGrant
  /\ grant' = NoGrant
  /\ UNCHANGED <<account, mailVars, created, session, revoked, issued, used, bootVars,
                 unpublished, origin, accused>>

CodeExpires ==
  /\ code # 0
  /\ code' = 0
  /\ UNCHANGED <<account, email, verified, codes, mailed, presented, created, session,
                 revoked, issued, used, grant, bootVars, unpublished, origin, accused>>

MarkLapses(j) ==
  /\ j \in consumed
  /\ consumed' = consumed \ {j}
  /\ forgot' = forgot \cup {j}
  /\ UNCHANGED <<account, mailVars, created, session, revoked, issued, used, grant,
                 exchanging, unpublished, origin, accused>>

(* One revocation leaves the handler: published, or lost with Redis or the process. *)
Publish(s) ==
  /\ s \in unpublished
  /\ unpublished' = unpublished \ {s}
  /\ UNCHANGED <<account, mailVars, created, session, revoked, issued, used, grant,
                 bootVars, origin, accused>>

RedisLoss ==
  /\ consumed' = {}
  /\ forgot' = forgot \cup consumed
  /\ UNCHANGED <<account, mailVars, created, session, revoked, issued, used, grant,
                 exchanging, unpublished, origin, accused>>

-----------------------------------------------------------------------------
(* One user asks, the other parts of the server go on.  The modules that add  *)
(* sockets and transfers compose these with their own steps.                  *)

MailStep ==
  \/ \E s \in Sids, committed \in BOOLEAN :
       \/ ResendVerification(s, committed)
       \/ \E a \in Addresses : UpdateEmail(s, a, committed)
  \/ \E k \in Codes : VerifyEmail(k)
  \/ CodeExpires

AccountStep ==
  \/ \E committed \in BOOLEAN : Register(committed)
  \/ Recover
  \/ \E j \in Bootstraps : ConsumeBootstrap(j) \/ Exchange(j) \/ ExchangeFails(j) \/ MarkLapses(j)
  \/ \E t \in Tokens : Rotate(t) \/ Reuse(t)
  \/ \E s \in Sids : Logout(s) \/ Delete(s) \/ SessionExpires(s) \/ Purge(s)
  \/ GrantExpires

Next ==
  \/ MailStep
  \/ AccountStep
  \/ \E s \in Sids : Publish(s)
  \/ RedisLoss

Spec == Init /\ [][Next]_vars

-----------------------------------------------------------------------------
(* Properties *)

(* Only the newest session is ever usable: recovery and exchange end every     *)
(* earlier one, whichever order the requests of two devices are served in.     *)
OnlyNewestSessionLives == \A s \in Rows : s # created => s \in revoked

(* At most one refresh token of a family can still be exchanged, the last one  *)
(* issued, so that a token cannot be spent twice without being noticed.        *)
OneUsableToken ==
  \A t \in Tokens : Known(t) /\ Live(t[1]) /\ t \notin used => t[2] = issued[t[1]]

(* Once a session is revoked, or its family was told that a token was reused,  *)
(* no refresh of it ever succeeds: the revocation outlives the error that      *)
(* reported it.                                                                *)
NoRefreshAfterRevocation ==
  [][\A s \in revoked \cup accused : issued'[s] = issued[s]]_vars

(* A bootstrap token opens one session, unless Redis forgot that it was used.  *)
BootstrapOpensOneSession ==
  \A s, r \in Sids :
    origin[s] = origin[r] /\ origin[s] \in Bootstraps \ forgot => s = r

(* Upload permission is given only to the device whose live session the same   *)
(* exchange ends, for the session it creates: never to a device that had       *)
(* logged out, expired or been replaced before.                                *)
GrantOnlyToReplaced ==
  [][grant' \notin {grant, NoGrant} =>
       /\ Live(grant'.source)
       /\ grant'.source \in revoked'
       /\ grant'.target = created']_vars

(* An address is verified only by a code that was mailed to that address: not  *)
(* by one mailed before the address changed, nor by one of a rolled back       *)
(* change.                                                                     *)
VerifiedMeansMailed ==
  verified => \E k \in presented : <<k, email>> \in mailed
=============================================================================
