---------------------------- MODULE KeyTransfers ----------------------------
(***************************************************************************)
(* The transfer of the encryption key from a replaced device to the        *)
(* session that replaced it: the new session creates a transfer in Redis,  *)
(* one device uploads one encrypted blob, the new session downloads it and *)
(* deletes it, and with it the residual permission of the old one.         *)
(*                                                                         *)
(* Each request locks the row of the user, authenticates under the lock,   *)
(* and runs one script in Redis before the commit.                         *)
(***************************************************************************)
EXTENDS Sessions

CONSTANTS
  Transfers,  \* transfer UUIDs
  Blobs       \* encrypted blobs a device may upload

VARIABLES
  meta,   \* key_transfer_meta:*: the target session; 0 before and after
  blob,   \* key_transfer:*: the blob and the session that uploaded it
  spent,  \* UUIDs already given to a transfer
  read    \* history: what each session downloaded from each transfer

transferVars == <<meta, blob, spent, read>>
tVars == <<vars, transferVars>>

NoBlob == [by |-> 0, blob |-> "none"]
Blob == [by : Sids, blob : Blobs]

TransfersTypeOK ==
  /\ TypeOK
  /\ meta \in [Transfers -> 0..MaxSessions]
  /\ blob \in [Transfers -> Blob \cup {NoBlob}]
  /\ \A t \in Transfers : blob[t] # NoBlob => meta[t] # 0
  /\ spent \subseteq Transfers
  /\ read \subseteq [id : Transfers, session : Sids, content : Blob]

TransfersInit ==
  /\ Init
  /\ meta = [t \in Transfers |-> 0]
  /\ blob = [t \in Transfers |-> NoBlob]
  /\ spent = {} /\ read = {}

(* The script answers only the target, or the device that uploads for it. *)
AddressedAny(t, target) == meta[t] # 0  \* mutant: the identifier is enough
Addressed(t, target) == meta[t] = target

(* The session a device uploads for: the one that replaced it, or itself. *)
UploadTarget(s) == IF grant.source = s THEN grant.target ELSE s

-----------------------------------------------------------------------------

CreateTransfer(t, s) ==
  /\ Authenticated(s) /\ t \notin spent
  /\ spent' = spent \cup {t}
  /\ meta' = [meta EXCEPT ![t] = s]
  /\ UNCHANGED <<vars, blob, read>>

UnloadedOrNot(t) == meta[t] # 0  \* mutant: the last upload wins
Unloaded(t) == blob[t] = NoBlob

Put(t, s, b) ==
  /\ MayUpload(s) /\ meta[t] # 0
  /\ Addressed(t, UploadTarget(s))
  /\ Unloaded(t)
  /\ blob' = [blob EXCEPT ![t] = [by |-> s, blob |-> b]]
  /\ UNCHANGED <<vars, meta, spent, read>>

Get(t, s) ==
  /\ Authenticated(s) /\ meta[t] # 0
  /\ Addressed(t, s) /\ blob[t] # NoBlob
  /\ read' = read \cup {[id |-> t, session |-> s, content |-> blob[t]]}
  /\ UNCHANGED <<vars, meta, blob, spent>>

Erase(t) ==
  /\ meta' = [meta EXCEPT ![t] = 0]
  /\ blob' = [blob EXCEPT ![t] = NoBlob]

(* Redis deletes before PostgreSQL commits: after a rollback the transfer is  *)
(* gone and the permission is not.                                            *)
DeleteTransfer(t, s, committed) ==
  /\ Authenticated(s) /\ meta[t] # 0
  /\ Addressed(t, s)
  /\ Erase(t)
  /\ grant' = IF committed /\ grant.target = s THEN NoGrant ELSE grant
  /\ UNCHANGED <<account, mailVars, created, session, revoked, issued, used, bootVars,
                 unpublished, origin, accused, spent, read>>

(* 24 h after its creation; the blob was given the same deadline. *)
DeadlinePasses(t) ==
  /\ meta[t] # 0
  /\ Erase(t)
  /\ UNCHANGED <<vars, spent, read>>

TransfersRedisLoss ==
  /\ RedisLoss
  /\ meta' = [t \in Transfers |-> 0]
  /\ blob' = [t \in Transfers |-> NoBlob]
  /\ UNCHANGED <<spent, read>>

-----------------------------------------------------------------------------

(* Neither the address nor the publication of revocations matters here. *)
TransfersNext ==
  \/ AccountStep /\ UNCHANGED transferVars
  \/ \E t \in Transfers, s \in Sids :
       \/ CreateTransfer(t, s) \/ Get(t, s)
       \/ \E b \in Blobs : Put(t, s, b)
       \/ \E committed \in BOOLEAN : DeleteTransfer(t, s, committed)
  \/ \E t \in Transfers : DeadlinePasses(t)
  \/ TransfersRedisLoss

TransfersSpec == TransfersInit /\ [][TransfersNext]_tVars

-----------------------------------------------------------------------------
(* Properties *)

(* What a session downloads was uploaded by itself or by the device its own    *)
(* exchange replaced: never by an older device, however many exchanges there   *)
(* were in between, nor for another session.                                   *)
KeysComeFromReplaced ==
  \A r \in read : r.content.by \in {r.session, r.session - 1}

(* All downloads of a transfer agree: an upload whose answer was lost and that *)
(* is repeated cannot change the blob that the new device has checked.         *)
DownloadsAgree ==
  \A r, q \in read : r.id = q.id => r.content = q.content
=============================================================================
