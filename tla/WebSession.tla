----------------------------- MODULE WebSession -----------------------------
(***************************************************************************)
(* The session that one page of the web client keeps (api.js) against the  *)
(* sessions of the server (Sessions): signing in by registration, recovery *)
(* or exchange, the one shared refresh, authorised calls, permissions to   *)
(* upload kept past a replacement, and signing out.                        *)
(*                                                                         *)
(* A request is served by one handler of Sessions and answered later, in   *)
(* any order; it may be lost, and after 15 s the page gives it up while it *)
(* may still reach the server.  The other devices of the account go on.    *)
(*                                                                         *)
(* api.js numbers the generations of the page and compares the number it   *)
(* noted before a request with the present one.  All that the comparison   *)
(* tells is whether clear() ran in between, so a request carries that      *)
(* answer (current) in place of the number.                                *)
(***************************************************************************)
EXTENDS Sessions, FiniteSets

CONSTANT MaxRequests  \* bound: requests of the page in flight

NoTokens == <<0, 0>>

VARIABLES
  tokens,      \* #tokens: the refresh token held; its session is that of the access token
  fresh,       \* the access token does not expire within 30 s
  refreshing,  \* #refreshing: a refresh of this generation is under way
  entry,       \* #entry: how the page signed in
  uploaders,   \* sessions whose access token a live uploader keeps
  op,          \* the operation perform runs; the next one waits for its end
  net,         \* requests in flight
  (* history *)
  mine,        \* sessions opened by requests of this page
  opened,      \* the session the last sign-in of the page opened, 0 after clear()
  expelled     \* sessions the page left because a call was answered 401

pageVars == <<tokens, fresh, refreshing, entry, uploaders, op, opened, expelled>>
wVars    == <<vars, pageVars, net, mine>>

SignIns  == {"register", "recover", "exchange"}
Requests ==
  [kind    : SignIns \cup {"refresh", "call", "logout"},
   with    : Tokens \cup Bootstraps \cup {NoTokens},  \* the credential, if not the words
   answer  : {"none", "consumed", "tokens", "ok", "unauthorized", "failed"},
   gives   : Tokens \cup {NoTokens},
   current : BOOLEAN,   \* no clear() since it was sent
   awaited : BOOLEAN]   \* the page has not given it up

SignedIn == tokens # NoTokens

WebInit ==
  /\ Init
  /\ tokens = NoTokens /\ fresh = FALSE /\ refreshing = FALSE /\ entry = "none"
  /\ uploaders = {} /\ op = "none" /\ net = {}
  /\ mine = {} /\ opened = 0 /\ expelled = {}

-----------------------------------------------------------------------------
(* What the operations of the page share *)

(* clear(): the page forgets everything, and every answer still to come is of *)
(* an earlier generation.                                                     *)
Clear ==
  /\ tokens' = NoTokens /\ fresh' = FALSE /\ refreshing' = FALSE
  /\ entry' = "none" /\ uploaders' = {} /\ opened' = 0

OfEarlierGeneration(requests) == {[r EXCEPT !.current = FALSE] : r \in requests}

Install(t, how) ==
  /\ tokens' = t /\ fresh' = TRUE
  /\ entry' = how

(* One more request, besides those still in flight. *)
Ask(others, kind, with) ==
  /\ Cardinality(others) < MaxRequests
  /\ net' = others \cup {[kind |-> kind, with |-> with, answer |-> "none",
                          gives |-> NoTokens, current |-> TRUE, awaited |-> TRUE]}

-----------------------------------------------------------------------------
(* The page asks *)

(* The forms are shown to a page that is signed out, and perform admits one   *)
(* operation at a time.  register() is the only sign-in that does not begin   *)
(* with clear().                                                              *)
StartRegister ==
  /\ op = "none" /\ ~SignedIn
  /\ op' = "register"
  /\ Ask(net, "register", NoTokens)
  /\ UNCHANGED <<vars, tokens, fresh, refreshing, entry, uploaders, mine, opened, expelled>>

StartSignIn(kind, with) ==
  /\ op = "none" /\ ~SignedIn
  /\ op' = kind
  /\ Clear
  /\ Ask(OfEarlierGeneration(net), kind, with)
  /\ UNCHANGED <<vars, mine, expelled>>

(* The token about to expire is refreshed once, for whoever waits for it. *)
StartRefresh ==
  /\ SignedIn /\ ~fresh /\ ~refreshing
  /\ refreshing' = TRUE
  /\ Ask(net, "refresh", tokens)
  /\ UNCHANGED <<vars, tokens, fresh, entry, uploaders, op, mine, opened, expelled>>

(* Any authorised call: of the user, or of the chat in the background. *)
StartCall ==
  /\ SignedIn /\ fresh
  /\ Ask(net, "call", tokens)
  /\ UNCHANGED <<vars, pageVars, mine>>

StartLogout ==
  /\ op = "none" /\ SignedIn
  /\ op' = "logout"
  /\ UNCHANGED <<vars, tokens, fresh, refreshing, entry, uploaders, net, mine, opened, expelled>>

SendLogout ==
  /\ op = "logout" /\ SignedIn /\ fresh
  /\ \A r \in net : ~(r.kind = "logout" /\ r.awaited)
  /\ Ask(net, "logout", tokens)
  /\ UNCHANGED <<vars, pageVars, mine>>

(* The refresh it waited for failed, or the page was cleared: logout() clears *)
(* all the same.                                                              *)
LogoutUnsent ==
  /\ op = "logout" /\ ~SignedIn
  /\ \A r \in net : ~(r.kind = "logout" /\ r.awaited)
  /\ op' = "none"
  /\ Clear
  /\ net' = OfEarlierGeneration(net)
  /\ UNCHANGED <<vars, mine, expelled>>

PrepareUploader ==
  /\ SignedIn /\ fresh
  /\ uploaders' = uploaders \cup {tokens[1]}
  /\ UNCHANGED <<vars, tokens, fresh, refreshing, entry, op, net, mine, opened, expelled>>

(* At its expiry, when its panel goes, or when the server refuses an upload. *)
DisposeUploader(s) ==
  /\ s \in uploaders
  /\ uploaders' = uploaders \ {s}
  /\ UNCHANGED <<vars, tokens, fresh, refreshing, entry, op, net, mine, opened, expelled>>

(* pagehide, and the end of a handoff. *)
LeavePage ==
  /\ Clear
  /\ net' = OfEarlierGeneration(net)
  /\ UNCHANGED <<vars, op, mine, expelled>>

(* The socket of the chat is closed with 4401: a revocation reached it, or it *)
(* found its session dead when it authenticated again.                        *)
Kicked ==
  /\ SignedIn /\ ~Authenticated(tokens[1])
  /\ LeavePage

TokenAges ==
  /\ fresh /\ tokens[2] < MaxTokens
  /\ fresh' = FALSE
  /\ UNCHANGED <<vars, tokens, refreshing, entry, uploaders, op, net, mine, opened, expelled>>

-----------------------------------------------------------------------------
(* The server answers: a request the page gave up gets no answer *)

Answered(r, answer) ==
  net' = (net \ {r}) \cup (IF r.awaited \/ answer = "consumed"
                           THEN {[r EXCEPT !.answer = answer]} ELSE {})

Pending(r, kind) == r.kind = kind /\ r.answer = "none"

Gives(r, t) ==
  net' = (net \ {r}) \cup (IF r.awaited THEN {[r EXCEPT !.answer = "tokens", !.gives = t]}
                           ELSE {})

(* Sessions are numbered as they are created. *)
SignsIn(r) ==
  /\ Gives(r, <<created', 1>>)
  /\ mine' = mine \cup {created'}

ServeRegister(r) ==
  /\ Pending(r, "register")
  /\ Register(TRUE)
  /\ SignsIn(r)

ServeRecover(r) ==
  /\ Pending(r, "recover")
  /\ Recover
  /\ SignsIn(r)

ServeConsume(r) ==
  /\ Pending(r, "exchange")
  /\ ConsumeBootstrap(r.with)
  /\ Answered(r, "consumed")
  /\ UNCHANGED mine

ServeExchange(r) ==
  /\ r.answer = "consumed"
  /\ \/ Exchange(r.with) /\ SignsIn(r)
     \/ ExchangeFails(r.with) /\ Answered(r, "failed") /\ UNCHANGED mine

ServeRefresh(r) ==
  /\ Pending(r, "refresh")
  /\ \/ Rotate(r.with) /\ Gives(r, <<r.with[1], r.with[2] + 1>>)
     \/ Reuse(r.with) /\ Answered(r, "unauthorized")
     \/ /\ ~Known(r.with) \/ (r.with \notin used /\ ~Live(r.with[1]))
        /\ Answered(r, "unauthorized")
        /\ UNCHANGED vars
  /\ UNCHANGED mine

ServeCall(r) ==
  /\ Pending(r, "call")
  /\ Answered(r, IF Authenticated(r.with[1]) THEN "ok" ELSE "unauthorized")
  /\ UNCHANGED <<vars, mine>>

ServeLogout(r) ==
  /\ Pending(r, "logout")
  /\ \/ Logout(r.with[1]) /\ Answered(r, "ok")
     \/ ~Authenticated(r.with[1]) /\ Answered(r, "unauthorized") /\ UNCHANGED vars
  /\ UNCHANGED mine

Serve ==
  /\ \E r \in net :
       \/ ServeRegister(r) \/ ServeRecover(r) \/ ServeConsume(r) \/ ServeExchange(r)
       \/ ServeRefresh(r) \/ ServeCall(r) \/ ServeLogout(r)
  /\ UNCHANGED pageVars

-----------------------------------------------------------------------------
(* The page takes an answer, or gives the request up *)

SignInEnds(r, answer, rest) ==
  /\ r.kind \in SignIns
  /\ op' = "none" /\ net' = rest
  /\ IF answer = "tokens" /\ r.current
     THEN Install(r.gives, r.kind) /\ opened' = r.gives[1]
     ELSE UNCHANGED <<tokens, fresh, entry, opened>>
  /\ UNCHANGED <<refreshing, uploaders, expelled>>

(* mutant: the tokens are installed whatever the generation *)
RefreshEndsAlways(r, answer, rest) ==
  /\ r.kind = "refresh"
  /\ IF answer = "tokens"
     THEN Install(r.gives, entry) /\ refreshing' = FALSE /\ net' = rest
          /\ UNCHANGED <<uploaders, opened>>
     ELSE IF r.current THEN Clear /\ net' = OfEarlierGeneration(rest)
     ELSE net' = rest /\ UNCHANGED <<tokens, fresh, refreshing, entry, uploaders, opened>>
  /\ UNCHANGED <<op, expelled>>

(* mutant: after an error of the network the page tries again with the same token *)
RefreshRetries(r, answer, rest) ==
  /\ r.kind = "refresh"
  /\ net' = rest
  /\ IF ~r.current THEN UNCHANGED <<tokens, fresh, refreshing, entry, uploaders, opened>>
     ELSE IF answer = "tokens"
     THEN Install(r.gives, entry) /\ refreshing' = FALSE /\ UNCHANGED <<uploaders, opened>>
     ELSE refreshing' = FALSE /\ UNCHANGED <<tokens, fresh, entry, uploaders, opened>>
  /\ UNCHANGED <<op, expelled>>

(* Any failure signs the page out: the token may have been used. *)
RefreshEnds(r, answer, rest) ==
  /\ r.kind = "refresh"
  /\ IF ~r.current
     THEN net' = rest /\ UNCHANGED <<tokens, fresh, refreshing, entry, uploaders, opened>>
     ELSE IF answer = "tokens"
     THEN Install(r.gives, entry) /\ refreshing' = FALSE /\ net' = rest
          /\ UNCHANGED <<uploaders, opened>>
     ELSE Clear /\ net' = OfEarlierGeneration(rest)
  /\ UNCHANGED <<op, expelled>>

(* mutant: a 401 signs the page out whatever the generation *)
CallEndsAlways(r, answer, rest) ==
  /\ r.kind = "call"
  /\ IF answer = "unauthorized" /\ SignedIn
     THEN Clear /\ net' = OfEarlierGeneration(rest) /\ expelled' = expelled \cup {tokens[1]}
     ELSE net' = rest
          /\ UNCHANGED <<tokens, fresh, refreshing, entry, uploaders, opened, expelled>>
  /\ UNCHANGED op

CallEnds(r, answer, rest) ==
  /\ r.kind = "call"
  /\ IF answer = "unauthorized" /\ r.current
     THEN Clear /\ net' = OfEarlierGeneration(rest) /\ expelled' = expelled \cup {tokens[1]}
     ELSE net' = rest
          /\ UNCHANGED <<tokens, fresh, refreshing, entry, uploaders, opened, expelled>>
  /\ UNCHANGED op

LogoutEnds(r, rest) ==
  /\ r.kind = "logout"
  /\ op' = "none"
  /\ Clear
  /\ net' = OfEarlierGeneration(rest)
  /\ UNCHANGED expelled

Ends(r, answer, rest) ==
  \/ SignInEnds(r, answer, rest) \/ RefreshEnds(r, answer, rest)
  \/ CallEnds(r, answer, rest) \/ LogoutEnds(r, rest)

Answer(r) ==
  /\ r.awaited /\ r.answer \notin {"none", "consumed"}
  /\ Ends(r, r.answer, net \ {r})
  /\ UNCHANGED <<vars, mine>>

(* An error: the request or its answer is lost, the request reaches the       *)
(* server after the 15 s, or it is refused for a quota, a credential that     *)
(* does not hold, or a service that is down.                                  *)
Fails(r) ==
  /\ r.awaited
  /\ \E late \in BOOLEAN :
       /\ late => r.answer \in {"none", "consumed"}
       /\ r.answer = "consumed" => late
       /\ Ends(r, "failed",
               (net \ {r}) \cup (IF late THEN {[r EXCEPT !.awaited = FALSE]} ELSE {}))
  /\ UNCHANGED <<vars, mine>>

-----------------------------------------------------------------------------
(* Other devices of the account, and the worker.  The end of a grant and of   *)
(* the mark of a bootstrap token are left to Sessions: the page sees neither. *)

ByThePage(j) == \E r \in net : r.answer = "consumed" /\ r.with = j

Elsewhere ==
  /\ \/ Recover
     \/ \E j \in Bootstraps :
          \/ ConsumeBootstrap(j)
          \/ ~ByThePage(j) /\ (Exchange(j) \/ ExchangeFails(j))
     \/ \E s \in Sids \ mine : Logout(s) \/ Delete(s)
     \/ \E t \in Tokens : t[1] \notin mine /\ (Rotate(t) \/ Reuse(t))
     \/ \E s \in Sids : SessionExpires(s) \/ Purge(s)
  /\ UNCHANGED <<pageVars, net, mine>>

WebNext ==
  \/ StartRegister \/ StartSignIn("recover", NoTokens)
  \/ \E j \in Bootstraps : StartSignIn("exchange", j)
  \/ StartRefresh \/ StartCall
  \/ StartLogout \/ SendLogout \/ LogoutUnsent
  \/ PrepareUploader \/ \E s \in Sids : DisposeUploader(s)
  \/ LeavePage \/ Kicked \/ TokenAges
  \/ Serve
  \/ \E r \in net : Answer(r) \/ Fails(r)
  \/ Elsewhere

WebSpec == WebInit /\ [][WebNext]_wVars

-----------------------------------------------------------------------------
(* Properties *)

WebTypeOK ==
  /\ TypeOK
  /\ tokens \in Tokens \cup {NoTokens} /\ fresh \in BOOLEAN /\ refreshing \in BOOLEAN
  /\ entry \in SignIns \cup {"none"} /\ uploaders \subseteq Sids
  /\ op \in SignIns \cup {"none", "logout"}
  /\ net \subseteq Requests
  /\ mine \subseteq Sids /\ opened \in Sids \cup {0} /\ expelled \subseteq Sids

(* What the page holds, its tokens, the permissions to upload, and the right   *)
(* to receive keys that only an exchange gives, is of its last sign-in: no     *)
(* answer that comes after a sign-out or a new sign-in brings an earlier       *)
(* session back.                                                               *)
PageHoldsLastSignIn ==
  /\ SignedIn => tokens[1] = opened
  /\ uploaders \subseteq {opened}
  /\ entry = "exchange" => origin[opened] \in Bootstraps

(* The page never presents a refresh token twice, whatever answers are lost,   *)
(* so its own session is never taken for a stolen one.                         *)
PageNeverAccused == accused \cap mine = {}

(* A call answered 401 signs the page out only of a session that has ended:    *)
(* not of the one it opened while an earlier session's call was under way.     *)
ExpelledOnlyFromDead == \A s \in expelled : ~Authenticated(s)
=============================================================================
