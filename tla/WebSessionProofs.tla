-------------------------- MODULE WebSessionProofs --------------------------
(***************************************************************************)
(* Proofs about WebSession, for any number of sessions, tokens and requests *)
(* of the page.  Every step is a step of Sessions or leaves it alone, so    *)
(* the invariant of Sessions carries over.                                  *)
(***************************************************************************)
EXTENDS WebSession, SessionsProofs

Authorised == {"refresh", "call", "logout"}

-----------------------------------------------------------------------------
(* Types *)

(* What a request carries and what its answer gives go with its kind. *)
KindOK(r) ==
  /\ r.kind \in Authorised => r.with \in Tokens
  /\ r.kind = "exchange" => r.with \in Bootstraps
  /\ r.answer = "consumed" => r.kind = "exchange"
  /\ r.answer = "tokens" => r.gives \in Tokens

TypesInv == WebTypeOK /\ \A r \in net : KindOK(r)

(* An earlier generation is the same requests, none of them current. *)
LEMMA EarlierTypes ==
  ASSUME NEW S \in SUBSET Requests, \A r \in S : KindOK(r)
  PROVE  /\ OfEarlierGeneration(S) \subseteq Requests
         /\ \A r \in OfEarlierGeneration(S) : KindOK(r)
<1>. SUFFICES ASSUME NEW r \in S
              PROVE  [r EXCEPT !.current = FALSE] \in Requests /\ KindOK([r EXCEPT !.current = FALSE])
  BY DEF OfEarlierGeneration
<1>1. r \in Requests /\ KindOK(r)
  OBVIOUS
<1>2. [r EXCEPT !.current = FALSE] \in Requests
  BY <1>1 DEF Requests
<1>. QED BY <1>1, <1>2 DEF Requests, KindOK

(* Every step is a step of the sessions or leaves them alone. *)
LEMMA StepOfSessions ==
  ASSUME TypesInv, [WebNext]_wVars
  PROVE  [Next]_vars
<1>1. ASSUME Serve PROVE [Next]_vars
  <2>1. PICK r \in net : \/ ServeRegister(r) \/ ServeRecover(r) \/ ServeConsume(r) \/ ServeExchange(r)
                         \/ ServeRefresh(r) \/ ServeCall(r) \/ ServeLogout(r)
    BY <1>1 DEF Serve
  <2>2. KindOK(r)
    BY DEF TypesInv
  <2>3. r.kind = "logout" => r.with[1] \in Sids
    BY <2>2 DEF KindOK, Authorised, Tokens
  <2>4. CASE ServeRegister(r)
    BY <2>4 DEF ServeRegister, Next, AccountStep
  <2>5. CASE ServeRecover(r)
    BY <2>5 DEF ServeRecover, Next, AccountStep
  <2>6. CASE ServeConsume(r)
    BY <2>6, <2>2 DEF ServeConsume, Pending, KindOK, Next, AccountStep
  <2>7. CASE ServeExchange(r)
    BY <2>7, <2>2 DEF ServeExchange, KindOK, Next, AccountStep
  <2>8. CASE ServeRefresh(r)
    BY <2>8, <2>2 DEF ServeRefresh, Pending, KindOK, Authorised, Next, AccountStep
  <2>9. CASE ServeCall(r)
    BY <2>9 DEF ServeCall
  <2>10. CASE ServeLogout(r)
    BY <2>10, <2>3 DEF ServeLogout, Pending, Next, AccountStep
  <2>. QED BY <2>1, <2>4, <2>5, <2>6, <2>7, <2>8, <2>9, <2>10
<1>2. ASSUME Elsewhere PROVE [Next]_vars
  BY <1>2 DEF Elsewhere, Next, AccountStep
<1>3. ASSUME WebNext, ~Serve, ~Elsewhere PROVE UNCHANGED vars
  BY <1>3 DEF WebNext, StartRegister, StartSignIn, StartRefresh, StartCall, StartLogout, SendLogout, LogoutUnsent,
              PrepareUploader, DisposeUploader, LeavePage, Kicked, TokenAges, Answer, Fails
<1>. QED BY <1>1, <1>2, <1>3 DEF wVars

-----------------------------------------------------------------------------
(* The invariant of the page *)

(* The tokens, the permissions and the entry are of the last sign-in, and a    *)
(* page that is signed out has nothing.                                        *)
PageState ==
  /\ ~SignedIn => ~fresh /\ ~refreshing /\ entry = "none" /\ uploaders = {} /\ opened = 0
  /\ SignedIn => /\ tokens[1] = opened /\ opened <= created
                 /\ uploaders \subseteq {opened}
                 /\ entry = "exchange" => origin[opened] \in Bootstraps

(* A request of the present generation is of the present session, and a        *)
(* sign-in or a logout that is awaited is the operation under way.             *)
PageAsked(r) ==
  /\ r.kind \in Authorised /\ r.current => SignedIn /\ r.with[1] = tokens[1]
  /\ r.kind \in SignIns \cup {"logout"} /\ r.awaited => op = r.kind
  /\ r.kind \in SignIns /\ r.awaited => ~SignedIn

OneOperation ==
  \A q, r \in net : q.awaited /\ r.awaited /\ {q.kind, r.kind} \subseteq SignIns \cup {"logout"} => q = r

(* What a request and its answer say of the sessions stays true. *)
Truthful(r) ==
  /\ r.kind \in Authorised => r.with[1] <= created
  /\ r.answer = "tokens" =>
       /\ r.gives[1] <= created
       /\ r.kind = "refresh" => r.gives[1] = r.with[1]
       /\ r.kind = "exchange" => origin[r.gives[1]] \in Bootstraps
  /\ r.kind = "call" /\ r.answer = "unauthorized" => ~Authenticated(r.with[1])

ExpelledAreDead == \A s \in expelled : s <= created /\ ~Authenticated(s)

PageInv ==
  /\ PageState
  /\ \A r \in net : PageAsked(r)
  /\ OneOperation
  /\ \A r \in net : Truthful(r)
  /\ ExpelledAreDead

BaseInv == SessionInv /\ TypesInv /\ PageInv

(* A request that goes on, in this generation or an earlier one, awaited or    *)
(* given up.                                                                   *)
Descends(x, r) ==
  /\ x.kind = r.kind /\ x.with = r.with /\ x.answer = r.answer /\ x.gives = r.gives
  /\ x.current => r.current
  /\ x.awaited => r.awaited

LEMMA DescendsEarlier ==
  ASSUME NEW S \in SUBSET Requests, NEW x \in OfEarlierGeneration(S)
  PROVE  ~x.current /\ \E r \in S : Descends(x, r) /\ x = [r EXCEPT !.current = FALSE]
<1>1. PICK r \in S : x = [r EXCEPT !.current = FALSE]
  BY DEF OfEarlierGeneration
<1>2. r \in Requests
  OBVIOUS
<1>. QED BY <1>1, <1>2 DEF Requests, Descends

LEMMA DescendsTypes ==
  ASSUME NEW S \in SUBSET Requests, NEW x \in Requests, NEW r \in S, KindOK(r), Descends(x, r)
  PROVE  KindOK(x)
BY DEF Descends, KindOK

LEMMA DescendsTruthful ==
  ASSUME NEW x, NEW r, Truthful(r), Descends(x, r), UNCHANGED vars
  PROVE  Truthful(x)'
BY DEF Descends, Truthful, vars, Authenticated, Live

-----------------------------------------------------------------------------
(* Steps of the page: the sessions stay as they are *)

(* What a request in flight needs to be right after a step of the page, if it   *)
(* goes on from one that was.                                                  *)
LEMMA RequestsKept ==
  ASSUME TypesInv, \A r \in net : Truthful(r), UNCHANGED vars,
         NEW S \in SUBSET Requests,
         \A x \in S : \E r \in net : Descends(x, r)
  PROVE  \A x \in S : KindOK(x) /\ Truthful(x)'
<1>. SUFFICES ASSUME NEW x \in S PROVE KindOK(x) /\ Truthful(x)'
  OBVIOUS
<1>1. PICK r \in net : Descends(x, r)
  OBVIOUS
<1>2. KindOK(r) /\ net \in SUBSET Requests
  BY DEF TypesInv, WebTypeOK
<1>. QED BY <1>1, <1>2, DescendsTypes, DescendsTruthful

(* What one asks is right if the credential is. *)
LEMMA AskedOK ==
  ASSUME NEW kind \in SignIns \cup Authorised, NEW with,
         kind \in Authorised => with \in Tokens /\ with[1] <= created,
         kind = "exchange" => with \in Bootstraps,
         kind \in {"register", "recover"} => with = NoTokens,
         NEW q, q = [kind |-> kind, with |-> with, answer |-> "none", gives |-> NoTokens,
                     current |-> TRUE, awaited |-> TRUE],
         UNCHANGED vars
  PROVE  q \in Requests /\ KindOK(q) /\ Truthful(q)'
<1>1. kind \in SignIns \cup {"refresh", "call", "logout"} /\ with \in Tokens \cup Bootstraps \cup {NoTokens}
  BY DEF SignIns, Authorised
<1>2. q \in Requests
  BY <1>1 DEF Requests
<1>3. KindOK(q)
  BY DEF KindOK
<1>4. Truthful(q)'
  BY DEF Truthful, vars
<1>. QED BY <1>2, <1>3, <1>4

(* The types of the sessions stay when the sessions do. *)
LEMMA TypeStays == TypeOK /\ UNCHANGED vars => TypeOK'
BY OtherTypeStep

(* A page that is signed out after the step, with every request of an earlier  *)
(* generation but the one it asks.                                             *)
LEMMA ClearKeeps ==
  ASSUME BaseInv, Clear, UNCHANGED <<vars, mine>>,
         NEW S \in SUBSET Requests, \A x \in S : \E r \in net : Descends(x, r),
         NEW X, X \subseteq Requests, \A x \in X : KindOK(x) /\ Truthful(x)' /\ x.kind \in SignIns,
         net' = OfEarlierGeneration(S) \cup X,
         op' \in SignIns \cup {"none", "logout"},
         expelled' \subseteq Sids,
         ExpelledAreDead'
  PROVE  /\ WebTypeOK' /\ \A x \in net' : KindOK(x)
         /\ PageState' /\ \A x \in net' : Truthful(x)'
         /\ \A x \in OfEarlierGeneration(S) : ~x.current /\ \E r \in S : Descends(x, r) /\ x = [r EXCEPT !.current = FALSE]
<1>0. TypesInv /\ PageInv
  BY DEF BaseInv
<1>1. \A x \in S : KindOK(x) /\ Truthful(x)'
  BY <1>0, RequestsKept DEF PageInv
<1>2. OfEarlierGeneration(S) \subseteq Requests /\ \A x \in OfEarlierGeneration(S) : KindOK(x)
  BY <1>1, EarlierTypes
<1>3. \A x \in OfEarlierGeneration(S) : ~x.current /\ \E r \in S : Descends(x, r) /\ x = [r EXCEPT !.current = FALSE]
  BY DescendsEarlier
<1>4. \A x \in OfEarlierGeneration(S) : Truthful(x)'
  <2>. SUFFICES ASSUME NEW x \in OfEarlierGeneration(S) PROVE Truthful(x)'
    OBVIOUS
  <2>1. PICK r \in S : Descends(x, r)
    BY <1>3
  <2>. QED BY <1>1, <2>1 DEF Descends, Truthful
<1>5. WebTypeOK'
  BY <1>0, <1>2, TypeStays DEF TypesInv, WebTypeOK, Clear
<1>6. PageState'
  BY DEF Clear, PageState, SignedIn
<1>. QED BY <1>2, <1>3, <1>4, <1>5, <1>6

LEMMA StartRegisterKeeps == BaseInv /\ StartRegister => TypesInv' /\ PageInv'
<1>. SUFFICES ASSUME BaseInv, StartRegister PROVE TypesInv' /\ PageInv'
  OBVIOUS
<1>0. TypesInv /\ PageInv /\ UNCHANGED vars /\ UNCHANGED <<tokens, fresh, refreshing, entry, uploaders, mine, opened, expelled>>
  BY DEF BaseInv, StartRegister
<1>. DEFINE q == [kind |-> "register", with |-> NoTokens, answer |-> "none", gives |-> NoTokens,
                  current |-> TRUE, awaited |-> TRUE]
<1>1. net' = net \cup {q} /\ op = "none" /\ op' = "register" /\ ~SignedIn
  BY DEF StartRegister, Ask
<1>2. q \in Requests /\ KindOK(q) /\ Truthful(q)'
  BY <1>0, AskedOK DEF Authorised, SignIns
<1>3. net \subseteq Requests /\ \A x \in net : KindOK(x) /\ Truthful(x)'
  <2>1. net \in SUBSET Requests /\ \A x \in net : Descends(x, x)
    BY <1>0 DEF TypesInv, WebTypeOK, Descends
  <2>. QED BY <2>1, <1>0, RequestsKept DEF PageInv
<1>4. TypesInv'
  BY <1>0, <1>1, <1>2, <1>3, TypeStays DEF TypesInv, WebTypeOK, SignIns
<1>5. \A r \in net : r.kind \in SignIns \cup {"logout"} => ~r.awaited
  BY <1>0, <1>1 DEF PageInv, PageAsked, SignIns
<1>6. PageState'
  BY <1>0 DEF PageInv, PageState, SignedIn, vars
<1>7. \A x \in net' : PageAsked(x)'
  BY <1>0, <1>1, <1>5 DEF PageInv, PageAsked, SignedIn, Authorised, SignIns
<1>8. OneOperation'
  BY <1>1, <1>5 DEF OneOperation
<1>9. ExpelledAreDead'
  BY <1>0 DEF PageInv, ExpelledAreDead, Authenticated, Live, vars
<1>. QED BY <1>1, <1>2, <1>3, <1>4, <1>6, <1>7, <1>8, <1>9 DEF PageInv

LEMMA StartSignInKeeps ==
  ASSUME BaseInv, NEW kind, NEW with,
         \/ kind = "recover" /\ with = NoTokens
         \/ kind = "exchange" /\ with \in Bootstraps,
         StartSignIn(kind, with)
  PROVE  TypesInv' /\ PageInv'
<1>0. TypesInv /\ PageInv /\ UNCHANGED vars /\ UNCHANGED <<mine, expelled>> /\ Clear
  BY DEF BaseInv, StartSignIn
<1>. DEFINE q == [kind |-> kind, with |-> with, answer |-> "none", gives |-> NoTokens,
                  current |-> TRUE, awaited |-> TRUE]
<1>k. kind \in SignIns /\ kind \notin Authorised
  BY DEF SignIns, Authorised
<1>1. net' = OfEarlierGeneration(net) \cup {q} /\ op = "none" /\ op' = kind
  BY DEF StartSignIn, Ask
<1>2. q \in Requests /\ KindOK(q) /\ Truthful(q)'
  BY <1>0, <1>k, AskedOK
<1>3. net \in SUBSET Requests /\ \A x \in net : Descends(x, x)
  BY <1>0 DEF TypesInv, WebTypeOK, Descends
<1>4. \A r \in net : r.kind \in SignIns \cup {"logout"} => ~r.awaited
  BY <1>0, <1>1 DEF PageInv, PageAsked, SignIns
<1>5. ExpelledAreDead' /\ expelled' \subseteq Sids
  BY <1>0 DEF PageInv, ExpelledAreDead, Authenticated, Live, vars, TypesInv, WebTypeOK
<1>6. /\ WebTypeOK' /\ \A x \in net' : KindOK(x)
      /\ PageState' /\ \A x \in net' : Truthful(x)'
      /\ \A x \in OfEarlierGeneration(net) :
           ~x.current /\ \E r \in net : Descends(x, r) /\ x = [r EXCEPT !.current = FALSE]
  <2>. DEFINE X == {q}
  <2>1. X \subseteq Requests /\ \A x \in X : KindOK(x) /\ Truthful(x)' /\ x.kind \in SignIns
    BY <1>2, <1>k
  <2>2. net' = OfEarlierGeneration(net) \cup X
    BY <1>1
  <2>3. op' \in SignIns \cup {"none", "logout"}
    BY <1>1, <1>k
  <2>. HIDE DEF X
  <2>. QED BY <1>0, <1>3, <1>5, <2>1, <2>2, <2>3, ClearKeeps
<1>7. \A x \in OfEarlierGeneration(net) : x.kind \in SignIns \cup {"logout"} => ~x.awaited
  BY <1>4, <1>6 DEF Descends
<1>8. ~SignedIn'
  BY <1>0 DEF Clear, SignedIn
<1>9. \A x \in net' : PageAsked(x)'
  BY <1>1, <1>6, <1>7, <1>8, <1>k DEF PageAsked
<1>10. OneOperation'
  BY <1>1, <1>7 DEF OneOperation
<1>. QED BY <1>5, <1>6, <1>9, <1>10 DEF PageInv, TypesInv

LEMMA AskAuthorisedKeeps ==
  ASSUME BaseInv, NEW kind \in Authorised, SignedIn, Ask(net, kind, tokens), refreshing' \in BOOLEAN,
         kind = "logout" => op = "logout" /\ \A r \in net : ~(r.kind = "logout" /\ r.awaited),
         UNCHANGED <<vars, tokens, fresh, entry, uploaders, op, mine, opened, expelled>>
  PROVE  TypesInv' /\ PageInv'
<1>0. TypesInv /\ PageInv /\ UNCHANGED vars
  BY DEF BaseInv
<1>. DEFINE q == [kind |-> kind, with |-> tokens, answer |-> "none", gives |-> NoTokens,
                  current |-> TRUE, awaited |-> TRUE]
<1>1. net' = net \cup {q}
  BY DEF Ask
<1>2. q \in Requests /\ KindOK(q) /\ Truthful(q)'
  <2>1. tokens \in Tokens /\ tokens[1] <= created
    BY <1>0 DEF TypesInv, WebTypeOK, PageInv, PageState, SignedIn
  <2>. QED BY <2>1, <1>0, AskedOK DEF Authorised
<1>3. net \subseteq Requests /\ \A x \in net : KindOK(x) /\ Truthful(x)'
  <2>1. net \in SUBSET Requests /\ \A x \in net : Descends(x, x)
    BY <1>0 DEF TypesInv, WebTypeOK, Descends
  <2>. QED BY <2>1, <1>0, RequestsKept DEF PageInv
<1>4. TypesInv'
  BY <1>0, <1>1, <1>2, <1>3, TypeStays DEF TypesInv, WebTypeOK
<1>5. PageState'
  BY <1>0 DEF PageInv, PageState, SignedIn, vars
<1>6. \A x \in net' : PageAsked(x)'
  BY <1>0, <1>1 DEF PageInv, PageAsked, SignedIn, Authorised, SignIns
<1>7. OneOperation'
  <2>1. \A r \in net : r.kind \in SignIns => ~r.awaited
    BY <1>0 DEF PageInv, PageAsked
  <2>2. ASSUME NEW x \in net, NEW y \in net, x.awaited, y.awaited, {x.kind, y.kind} \subseteq SignIns \cup {"logout"}
        PROVE  x = y
    BY <1>0, <2>2 DEF PageInv, OneOperation
  <2>3. ASSUME NEW x \in net, x.awaited, {x.kind, q.kind} \subseteq SignIns \cup {"logout"}
        PROVE  FALSE
    <3>1. q.kind = kind /\ kind \notin SignIns
      BY DEF Authorised, SignIns
    <3>2. x.kind = "logout" /\ kind = "logout"
      BY <2>1, <2>3, <3>1
    <3>. QED BY <2>3, <3>2
  <2>. HIDE DEF q
  <2>. QED BY <1>1, <2>2, <2>3 DEF OneOperation
<1>8. ExpelledAreDead'
  BY <1>0 DEF PageInv, ExpelledAreDead, Authenticated, Live, vars
<1>. QED BY <1>1, <1>2, <1>3, <1>4, <1>5, <1>6, <1>7, <1>8 DEF PageInv

(* A step of the page that sends nothing and keeps its session. *)
LEMMA QuietKeeps ==
  ASSUME BaseInv, UNCHANGED <<vars, tokens, entry, net, mine, opened, expelled, refreshing>>,
         fresh' \in BOOLEAN, SignedIn \/ fresh' = FALSE,
         uploaders' \subseteq Sids,
         SignedIn => uploaders' \subseteq {opened},
         SignedIn \/ uploaders' = {},
         op' = op \/ (op = "none" /\ op' = "logout")
  PROVE  TypesInv' /\ PageInv'
<1>0. TypesInv /\ PageInv /\ UNCHANGED vars /\ net' = net
  BY DEF BaseInv
<1>1. \A x \in net : Truthful(x)'
  <2>1. net \in SUBSET Requests /\ \A x \in net : Descends(x, x)
    BY <1>0 DEF TypesInv, WebTypeOK, Descends
  <2>. QED BY <2>1, <1>0, RequestsKept DEF PageInv
<1>2. TypesInv'
  BY <1>0, TypeStays DEF TypesInv, WebTypeOK
<1>3. PageState'
  BY <1>0 DEF PageInv, PageState, SignedIn, vars
<1>4. \A x \in net' : PageAsked(x)'
  BY <1>0 DEF PageInv, PageAsked, SignedIn, SignIns
<1>5. OneOperation'
  BY <1>0 DEF PageInv, OneOperation
<1>6. ExpelledAreDead'
  BY <1>0 DEF PageInv, ExpelledAreDead, Authenticated, Live, vars
<1>. QED BY <1>0, <1>1, <1>2, <1>3, <1>4, <1>5, <1>6 DEF PageInv

(* The page signs out, by whatever way: what is still awaited of the operation  *)
(* under way goes on.                                                          *)
LEMMA SignOutKeeps ==
  ASSUME BaseInv, Clear, UNCHANGED <<vars, mine>>,
         NEW S \in SUBSET Requests, \A x \in S : \E r \in net : Descends(x, r),
         \A x, y \in S : x.awaited /\ y.awaited /\ {x.kind, y.kind} \subseteq SignIns \cup {"logout"} => x = y,
         net' = OfEarlierGeneration(S),
         op' = op \/ (op' = "none" /\ \A x \in S : x.kind \in SignIns \cup {"logout"} => ~x.awaited),
         expelled' \subseteq Sids,
         ExpelledAreDead'
  PROVE  TypesInv' /\ PageInv'
<1>0. TypesInv /\ PageInv /\ UNCHANGED vars
  BY DEF BaseInv
<1>1. /\ WebTypeOK' /\ \A x \in net' : KindOK(x)
      /\ PageState' /\ \A x \in net' : Truthful(x)'
      /\ \A x \in OfEarlierGeneration(S) : ~x.current /\ \E r \in S : Descends(x, r) /\ x = [r EXCEPT !.current = FALSE]
  <2>. DEFINE X == {}
  <2>1. X \subseteq Requests /\ \A x \in X : KindOK(x) /\ Truthful(x)' /\ x.kind \in SignIns
    OBVIOUS
  <2>2. net' = OfEarlierGeneration(S) \cup X
    OBVIOUS
  <2>3. op' \in SignIns \cup {"none", "logout"}
    BY <1>0 DEF TypesInv, WebTypeOK
  <2>. HIDE DEF X
  <2>. QED BY <1>0, <2>1, <2>2, <2>3, ClearKeeps
<1>2. ~SignedIn'
  BY DEF Clear, SignedIn
<1>3. \A x \in S : x.kind \in SignIns \cup {"logout"} /\ x.awaited => op' = x.kind
  BY <1>0 DEF PageInv, PageAsked, Descends
<1>4. \A x \in net' : PageAsked(x)'
  BY <1>1, <1>2, <1>3 DEF PageAsked, Descends
<1>5. OneOperation'
  <2>. SUFFICES ASSUME NEW x \in OfEarlierGeneration(S), NEW y \in OfEarlierGeneration(S), x.awaited, y.awaited,
                       {x.kind, y.kind} \subseteq SignIns \cup {"logout"}
                PROVE  x = y
    BY DEF OneOperation
  <2>1. PICK q \in S : Descends(x, q) /\ x = [q EXCEPT !.current = FALSE]
    BY <1>1
  <2>2. PICK r \in S : Descends(y, r) /\ y = [r EXCEPT !.current = FALSE]
    BY <1>1
  <2>3. q.awaited /\ r.awaited /\ {q.kind, r.kind} \subseteq SignIns \cup {"logout"}
    BY <2>1, <2>2 DEF Descends
  <2>4. q = r
    BY <2>3
  <2>. QED BY <2>1, <2>2, <2>4
<1>. QED BY <1>1, <1>4, <1>5 DEF PageInv, TypesInv

(* An answer that leaves the page as it is, or installs tokens: those of its    *)
(* own session, or of a new one when it has none.                              *)
LEMMA TakeKeeps ==
  ASSUME BaseInv, UNCHANGED <<vars, uploaders, mine, expelled>>,
         NEW S \in SUBSET Requests, \A x \in S : \E r \in net : Descends(x, r),
         \A x, y \in S : x.awaited /\ y.awaited /\ {x.kind, y.kind} \subseteq SignIns \cup {"logout"} => x = y,
         net' = S,
         op' = op \/ (op' = "none" /\ \A x \in S : x.kind \in SignIns \cup {"logout"} => ~x.awaited),
         \/ UNCHANGED <<tokens, fresh, refreshing, entry, opened>>
         \/ /\ SignedIn /\ tokens' \in Tokens /\ tokens'[1] = tokens[1]
            /\ fresh' \in BOOLEAN /\ refreshing' \in BOOLEAN
            /\ UNCHANGED <<entry, opened>>
         \/ /\ ~SignedIn /\ op' = "none" /\ tokens' \in Tokens /\ opened' = tokens'[1] /\ opened' <= created
            /\ fresh' \in BOOLEAN /\ refreshing' \in BOOLEAN
            /\ entry' \in SignIns /\ (entry' = "exchange" => origin[opened'] \in Bootstraps)
  PROVE  TypesInv' /\ PageInv'
<1>0. TypesInv /\ PageInv /\ UNCHANGED vars
  BY DEF BaseInv
<1>1. \A x \in S : KindOK(x) /\ Truthful(x)'
  BY <1>0, RequestsKept DEF PageInv
<1>s. \A t \in Tokens : t[1] \in Sids /\ t # NoTokens
  BY DEF Tokens, NoTokens, Sids
<1>2. TypesInv'
  BY <1>0, <1>1, <1>s, TypeStays DEF TypesInv, WebTypeOK
<1>3. PageState'
  BY <1>0, <1>s DEF PageInv, PageState, SignedIn, vars
<1>4. ASSUME NEW x \in S PROVE PageAsked(x)'
  <2>1. PICK r \in net : Descends(x, r)
    OBVIOUS
  <2>2. PageAsked(r)
    BY <1>0 DEF PageInv
  <2>3. x.kind \in SignIns \cup {"logout"} /\ x.awaited => op' = x.kind /\ op' # "none"
    BY <2>1, <2>2, <1>4 DEF PageAsked, Descends, SignIns
  <2>4. x.kind \in SignIns /\ x.awaited => ~SignedIn
    BY <2>1, <2>2 DEF PageAsked, Descends
  <2>5. x.kind \in Authorised /\ x.current => SignedIn /\ x.with[1] = tokens[1]
    BY <2>1, <2>2 DEF PageAsked, Descends
  <2>6. CASE UNCHANGED tokens
    BY <2>3, <2>4, <2>5, <2>6 DEF PageAsked, SignedIn
  <2>7. CASE SignedIn /\ tokens' \in Tokens /\ tokens'[1] = tokens[1]
    BY <2>3, <2>4, <2>5, <2>7, <1>s DEF PageAsked, SignedIn
  <2>8. CASE ~SignedIn /\ op' = "none"
    BY <2>3, <2>5, <2>8 DEF PageAsked
  <2>. QED BY <2>6, <2>7, <2>8
<1>5. OneOperation'
  BY DEF OneOperation
<1>6. ExpelledAreDead'
  BY <1>0 DEF PageInv, ExpelledAreDead, Authenticated, Live, vars
<1>. QED BY <1>1, <1>2, <1>3, <1>4, <1>5, <1>6 DEF PageInv

(* A request ends for the page, with its answer or given up. *)
LEMMA EndsKeeps ==
  ASSUME BaseInv, NEW r \in net, r.awaited, NEW answer, answer \in {r.answer, "failed"},
         NEW rest, rest \subseteq (net \ {r}) \cup {[r EXCEPT !.awaited = FALSE]},
         Ends(r, answer, rest), UNCHANGED <<vars, mine>>
  PROVE  TypesInv' /\ PageInv'
<1>0. TypesInv /\ PageInv /\ net \subseteq Requests /\ UNCHANGED vars
  BY DEF BaseInv, TypesInv, WebTypeOK
<1>. DEFINE late == [r EXCEPT !.awaited = FALSE]
<1>1. late \in Requests /\ Descends(late, r) /\ ~late.awaited
  BY <1>0 DEF Requests, Descends
<1>r. KindOK(r) /\ Truthful(r) /\ PageAsked(r) /\ r \in Requests
  BY <1>0 DEF TypesInv, PageInv
<1>. HIDE DEF late
<1>2. rest \in SUBSET Requests /\ \A x \in rest : \E q \in net : Descends(x, q)
  BY <1>0, <1>1 DEF late, Descends
<1>3. \A x, y \in rest : x.awaited /\ y.awaited /\ {x.kind, y.kind} \subseteq SignIns \cup {"logout"} => x = y
  BY <1>0, <1>1 DEF late, PageInv, OneOperation
<1>4. r.kind \in SignIns \cup {"logout"} =>
        \A x \in rest : x.kind \in SignIns \cup {"logout"} => ~x.awaited
  BY <1>0, <1>1 DEF late, PageInv, OneOperation
<1>e. UNCHANGED expelled => expelled' \subseteq Sids /\ ExpelledAreDead'
  BY <1>0 DEF PageInv, ExpelledAreDead, Authenticated, Live, vars, TypesInv, WebTypeOK
<1>5. CASE SignInEnds(r, answer, rest)
  <2>1. /\ r.kind \in SignIns /\ op' = "none" /\ net' = rest
        /\ UNCHANGED <<refreshing, uploaders, expelled>>
    BY <1>5 DEF SignInEnds
  <2>2. CASE answer = "tokens" /\ r.current
    <3>1. tokens' = r.gives /\ fresh' = TRUE /\ entry' = r.kind /\ opened' = r.gives[1]
      BY <1>5, <2>2 DEF SignInEnds, Install
    <3>2. r.gives \in Tokens /\ r.gives[1] <= created /\ (r.kind = "exchange" => origin[r.gives[1]] \in Bootstraps)
      BY <1>r, <2>2 DEF KindOK, Truthful
    <3>3. ~SignedIn /\ refreshing' \in BOOLEAN
      BY <1>r, <1>0, <2>1 DEF PageAsked, TypesInv, WebTypeOK
    <3>. QED BY <1>0, <1>2, <1>3, <1>4, <2>1, <3>1, <3>2, <3>3, TakeKeeps DEF vars
  <2>3. CASE ~(answer = "tokens" /\ r.current)
    <3>1. UNCHANGED <<tokens, fresh, entry, opened>>
      BY <1>5, <2>3 DEF SignInEnds
    <3>. QED BY <1>0, <1>2, <1>3, <1>4, <2>1, <3>1, TakeKeeps
  <2>. QED BY <2>2, <2>3
<1>6. CASE RefreshEnds(r, answer, rest)
  <2>1. r.kind = "refresh" /\ UNCHANGED <<op, expelled>>
    BY <1>6 DEF RefreshEnds
  <2>2. CASE ~r.current
    BY <1>0, <1>2, <1>3, <1>6, <2>1, <2>2, TakeKeeps DEF RefreshEnds
  <2>3. CASE r.current /\ answer = "tokens"
    <3>1. /\ tokens' = r.gives /\ fresh' = TRUE /\ entry' = entry /\ refreshing' = FALSE /\ net' = rest
          /\ UNCHANGED <<uploaders, opened>>
      BY <1>6, <2>3 DEF RefreshEnds, Install
    <3>2. r.gives \in Tokens /\ r.gives[1] = tokens[1] /\ SignedIn
      BY <1>r, <2>1, <2>3 DEF KindOK, Truthful, PageAsked, Authorised
    <3>. QED BY <1>0, <1>2, <1>3, <2>1, <3>1, <3>2, TakeKeeps
  <2>4. CASE r.current /\ answer # "tokens"
    <3>1. Clear /\ net' = OfEarlierGeneration(rest)
      BY <1>6, <2>4 DEF RefreshEnds
    <3>. QED BY <1>0, <1>2, <1>3, <1>e, <2>1, <3>1, SignOutKeeps
  <2>. QED BY <2>2, <2>3, <2>4
<1>7. CASE CallEnds(r, answer, rest)
  <2>1. r.kind = "call" /\ UNCHANGED op
    BY <1>7 DEF CallEnds
  <2>2. CASE answer = "unauthorized" /\ r.current
    <3>1. Clear /\ net' = OfEarlierGeneration(rest) /\ expelled' = expelled \cup {tokens[1]}
      BY <1>7, <2>2 DEF CallEnds
    <3>2. SignedIn /\ ~Authenticated(tokens[1]) /\ tokens[1] <= created
      BY <1>r, <1>0, <2>1, <2>2 DEF PageAsked, Truthful, Authorised
    <3>3. tokens[1] \in Sids
      BY <1>0, <3>2 DEF TypesInv, WebTypeOK, SignedIn, Tokens
    <3>4. expelled' \subseteq Sids /\ ExpelledAreDead'
      <4>1. ExpelledAreDead /\ expelled \subseteq Sids
        BY <1>0 DEF PageInv, TypesInv, WebTypeOK
      <4>. QED BY <1>0, <3>1, <3>2, <3>3, <4>1 DEF ExpelledAreDead, Authenticated, Live, vars
    <3>. QED BY <1>0, <1>2, <1>3, <2>1, <3>1, <3>4, SignOutKeeps
  <2>3. CASE ~(answer = "unauthorized" /\ r.current)
    BY <1>0, <1>2, <1>3, <1>7, <2>1, <2>3, TakeKeeps DEF CallEnds
  <2>. QED BY <2>2, <2>3
<1>8. CASE LogoutEnds(r, rest)
  <2>1. r.kind = "logout" /\ op' = "none" /\ Clear /\ net' = OfEarlierGeneration(rest) /\ UNCHANGED expelled
    BY <1>8 DEF LogoutEnds
  <2>. QED BY <1>0, <1>2, <1>3, <1>4, <1>e, <2>1, SignOutKeeps
<1>. QED BY <1>5, <1>6, <1>7, <1>8 DEF Ends

LEMMA PageStep ==
  ASSUME BaseInv, WebNext, ~Serve, ~Elsewhere
  PROVE  TypesInv' /\ PageInv'
<1>0. TypesInv /\ PageInv /\ net \subseteq Requests /\ refreshing \in BOOLEAN /\ fresh \in BOOLEAN
      /\ uploaders \subseteq Sids /\ op \in SignIns \cup {"none", "logout"}
  BY DEF BaseInv, TypesInv, WebTypeOK
<1>1. CASE StartRegister
  BY <1>1, StartRegisterKeeps
<1>2. CASE StartSignIn("recover", NoTokens)
  BY <1>2, StartSignInKeeps
<1>3. ASSUME NEW j \in Bootstraps, StartSignIn("exchange", j) PROVE TypesInv' /\ PageInv'
  BY <1>3, StartSignInKeeps
<1>4. CASE StartRefresh
  BY <1>4, AskAuthorisedKeeps DEF StartRefresh, Authorised
<1>5. CASE StartCall
  BY <1>0, <1>5, AskAuthorisedKeeps DEF StartCall, Authorised, pageVars
<1>6. CASE SendLogout
  BY <1>0, <1>6, AskAuthorisedKeeps DEF SendLogout, Authorised, pageVars
<1>7. CASE StartLogout
  BY <1>0, <1>7, QuietKeeps DEF StartLogout, PageInv, PageState
<1>8. CASE PrepareUploader
  <2>1. tokens[1] \in Sids /\ tokens[1] = opened /\ uploaders \subseteq {opened} /\ SignedIn
    BY <1>0, <1>8 DEF PrepareUploader, PageInv, PageState, TypesInv, WebTypeOK, SignedIn, Tokens
  <2>. QED BY <1>0, <1>8, <2>1, QuietKeeps DEF PrepareUploader
<1>9. ASSUME NEW s \in Sids, DisposeUploader(s) PROVE TypesInv' /\ PageInv'
  <2>1. ~SignedIn => uploaders = {} /\ fresh = FALSE
    BY <1>0 DEF PageInv, PageState
  <2>2. SignedIn => uploaders \subseteq {opened}
    BY <1>0 DEF PageInv, PageState
  <2>. QED BY <1>0, <1>9, <2>1, <2>2, QuietKeeps DEF DisposeUploader
<1>10. CASE TokenAges
  BY <1>0, <1>10, QuietKeeps DEF TokenAges, PageInv, PageState
<1>s. /\ net \in SUBSET Requests /\ \A x \in net : \E r \in net : Descends(x, r)
      /\ \A x, y \in net : x.awaited /\ y.awaited /\ {x.kind, y.kind} \subseteq SignIns \cup {"logout"} => x = y
  BY <1>0 DEF Descends, PageInv, OneOperation
<1>e. UNCHANGED <<vars, expelled>> => expelled' \subseteq Sids /\ ExpelledAreDead'
  BY <1>0 DEF PageInv, ExpelledAreDead, Authenticated, Live, vars, TypesInv, WebTypeOK
<1>11. CASE LogoutUnsent
  <2>1. \A x \in net : x.kind \in SignIns \cup {"logout"} => ~x.awaited
    BY <1>0, <1>11 DEF LogoutUnsent, PageInv, PageAsked, SignIns
  <2>. QED BY <1>11, <1>s, <1>e, <2>1, SignOutKeeps DEF LogoutUnsent
<1>12. CASE LeavePage
  BY <1>12, <1>s, <1>e, SignOutKeeps DEF LeavePage
<1>13. ASSUME NEW r \in net, Answer(r) PROVE TypesInv' /\ PageInv'
  BY <1>13, EndsKeeps DEF Answer
<1>14. ASSUME NEW r \in net, Fails(r) PROVE TypesInv' /\ PageInv'
  <2>1. PICK late \in BOOLEAN :
          Ends(r, "failed", (net \ {r}) \cup (IF late THEN {[r EXCEPT !.awaited = FALSE]} ELSE {}))
    BY <1>14 DEF Fails
  <2>. QED BY <1>14, <2>1, EndsKeeps DEF Fails
<1>. QED BY <1>1, <1>2, <1>3, <1>4, <1>5, <1>6, <1>7, <1>8, <1>9, <1>10, <1>11, <1>12, <1>13, <1>14
         DEF WebNext, Kicked

-----------------------------------------------------------------------------
(* Steps of the sessions: the page stays as it is *)

(* Sessions are added, and what ended does not come back. *)
LEMMA SessionsGrow ==
  ASSUME SessionInv, [Next]_vars
  PROVE  /\ created <= created'
         /\ \A s \in Sids : s <= created =>
              /\ origin'[s] = origin[s]
              /\ ~Authenticated(s) => ~Authenticated(s)'
<1>0. TypeOK /\ TypeOK' /\ created \in Nat
  BY TypeStep, SessionConstants DEF SessionInv, RowsInv, TypeOK
<1>1. created <= created'
  BY <1>0, SessionStep
<1>2. \A s \in Sids : s <= created => origin'[s] = origin[s]
  <2>1. ASSUME NEW from, CreateSession(from) PROVE \A s \in Sids : s <= created => origin'[s] = origin[s]
    BY <1>0, <2>1 DEF CreateSession, Sids, TypeOK
  <2>2. (\E from : CreateSession(from)) \/ UNCHANGED origin
    BY DEF Next, MailStep, AccountStep, ResendVerification, UpdateEmail, VerifyEmail, Spend, CodeExpires, Publish, RedisLoss,
           Register, Recover, ConsumeBootstrap, Exchange, ExchangeFails, MarkLapses, Rotate, Reuse, Logout, Delete,
           SessionExpires, Purge, GrantExpires, vars
  <2>. QED BY <2>1, <2>2
<1>3. account' = account \/ account = "none" \/ account' = "deleted"
  BY DEF Next, MailStep, AccountStep, ResendVerification, UpdateEmail, VerifyEmail, Spend, CodeExpires, Publish, RedisLoss,
         Register, Recover, ConsumeBootstrap, Exchange, ExchangeFails, MarkLapses, Rotate, Reuse, Logout, Delete,
         SessionExpires, Purge, GrantExpires, vars
<1>4. ASSUME NEW s \in Sids, s <= created, ~Authenticated(s) PROVE ~Authenticated(s)'
  <2>1. account # "none"
    BY <1>0, <1>4, SessionConstants DEF SessionInv, NoAccountNoSession, Sids
  <2>2. CASE account' # "active"
    BY <2>2 DEF Authenticated
  <2>3. CASE account = "active" /\ account' = "active"
    <3>1. ~Live(s)
      BY <1>4, <2>3 DEF Authenticated
    <3>2. revoked \subseteq revoked'
      BY SessionStep
    <3>3. session'[s] = "valid" => session[s] = "valid"
      <4>1. s # created + 1
        BY <1>0, <1>4 DEF Sids
      <4>. QED BY <1>0, <4>1, SessionStep DEF TypeOK
    <3>. QED BY <3>1, <3>2, <3>3 DEF Authenticated, Live
  <2>. QED BY <1>3, <2>1, <2>2, <2>3
<1>. QED BY <1>1, <1>2, <1>4

LEMMA TruthStays ==
  ASSUME BaseInv, [Next]_vars, NEW r \in net
  PROVE  Truthful(r)'
<1>1. KindOK(r) /\ Truthful(r) /\ SessionInv
  BY DEF BaseInv, TypesInv, PageInv
<1>2. \A t \in Tokens : t[1] \in Sids
  BY DEF Tokens
<1>3. created \in Nat /\ created' \in Nat /\ Sids \subseteq Nat
  BY <1>1, TypeStep, SessionConstants DEF SessionInv, RowsInv, TypeOK, Sids
<1>4. \A s \in Sids : s <= created => s <= created' /\ origin'[s] = origin[s] /\ (~Authenticated(s) => ~Authenticated(s)')
  BY <1>1, <1>3, SessionsGrow
<1>5. r.kind \in Authorised => r.with[1] \in Sids /\ r.with[1] <= created
  BY <1>1, <1>2 DEF KindOK, Truthful
<1>6. r.answer = "tokens" => r.gives[1] \in Sids /\ r.gives[1] <= created
  BY <1>1, <1>2 DEF KindOK, Truthful
<1>7. r.kind = "call" /\ r.answer = "unauthorized" => ~Authenticated(r.with[1])'
  BY <1>1, <1>4, <1>5 DEF Truthful, Authorised
<1>. QED BY <1>1, <1>4, <1>5, <1>6, <1>7 DEF Truthful

(* The page stays as it is, and one request at most was served. *)
LEMMA ServedKeeps ==
  ASSUME BaseInv, [Next]_vars, UNCHANGED pageVars, mine' \subseteq Sids,
         NEW r \in net, NEW x \in Requests,
         x.kind = r.kind, x.with = r.with, x.current = r.current, x.awaited = r.awaited,
         KindOK(x), Truthful(x)',
         net' \subseteq (net \ {r}) \cup {x}
  PROVE  TypesInv' /\ PageInv'
<1>0. TypesInv /\ PageInv /\ SessionInv /\ net \subseteq Requests
  BY DEF BaseInv, TypesInv, WebTypeOK
<1>1. TypesInv'
  BY <1>0, TypeStep DEF TypesInv, WebTypeOK, pageVars
<1>2. created \in Nat /\ created' \in Nat /\ Sids \subseteq Nat
  BY <1>0, TypeStep, SessionConstants DEF SessionInv, RowsInv, TypeOK, Sids
<1>3. \A s \in Sids : s <= created => s <= created' /\ origin'[s] = origin[s] /\ (~Authenticated(s) => ~Authenticated(s)')
  BY <1>0, <1>2, SessionsGrow
<1>4. PageState'
  <2>1. SignedIn => opened \in Sids
    BY <1>0 DEF TypesInv, WebTypeOK, PageInv, PageState, SignedIn, Tokens
  <2>. QED BY <1>0, <1>3, <2>1 DEF PageInv, PageState, SignedIn, pageVars
<1>5. \A q \in net' : PageAsked(q)'
  <2>1. \A q \in net \cup {x} : PageAsked(q)
    BY <1>0 DEF PageInv, PageAsked
  <2>. QED BY <2>1 DEF PageAsked, SignedIn, pageVars
<1>6. OneOperation'
  <2>1. \A p, q \in net : p.awaited /\ q.awaited /\ {p.kind, q.kind} \subseteq SignIns \cup {"logout"} => p = q
    BY <1>0 DEF PageInv, OneOperation
  <2>2. ASSUME NEW q \in net \ {r}, q.awaited /\ x.awaited /\ {q.kind, x.kind} \subseteq SignIns \cup {"logout"} PROVE FALSE
    BY <2>1, <2>2
  <2>. QED BY <2>1, <2>2 DEF OneOperation
<1>7. \A q \in net' : Truthful(q)'
  BY TruthStays
<1>8. ExpelledAreDead'
  BY <1>0, <1>3 DEF PageInv, ExpelledAreDead, pageVars, TypesInv, WebTypeOK
<1>. QED BY <1>1, <1>4, <1>5, <1>6, <1>7, <1>8 DEF PageInv

(* The session of a sign-in. *)
LEMMA NewSession ==
  ASSUME SessionInv, NEW from \in Bootstraps \cup {"register", "recover"}, CreateSession(from)
  PROVE  /\ <<created', 1>> \in Tokens /\ created' \in Sids /\ created' = created + 1
         /\ origin'[created'] = from
         /\ issued' = [issued EXCEPT ![created'] = 1]
<1>1. created + 1 \in Sids /\ created' = created + 1
  BY CreateSessionType DEF SessionInv, RowsInv, CreateSession
<1>2. 1 \in 1..MaxTokens
  BY SessionConstants
<1>. QED BY <1>1, <1>2 DEF CreateSession, SessionInv, RowsInv, TypeOK, Tokens

LEMMA SignsInKeeps ==
  ASSUME BaseInv, [Next]_vars, UNCHANGED pageVars, NEW r \in net, r.kind \in SignIns,
         NEW from \in Bootstraps \cup {"register", "recover"}, CreateSession(from),
         r.kind = "exchange" => from \in Bootstraps,
         SignsIn(r)
  PROVE  TypesInv' /\ PageInv'
<1>0. TypesInv /\ SessionInv /\ r \in Requests /\ KindOK(r)
  BY DEF BaseInv, TypesInv, WebTypeOK
<1>1. <<created', 1>> \in Tokens /\ created' \in Sids /\ origin'[created'] = from
  BY <1>0, NewSession
<1>p. PICK x \in Requests : x = [r EXCEPT !.answer = "tokens", !.gives = <<created', 1>>]
  BY <1>0, <1>1 DEF Requests
<1>2. /\ x \in Requests /\ x.answer = "tokens" /\ x.gives = <<created', 1>>
      /\ x.kind = r.kind /\ x.with = r.with /\ x.current = r.current /\ x.awaited = r.awaited
  BY <1>0, <1>p DEF Requests
<1>3. net' \subseteq (net \ {r}) \cup {x} /\ mine' = mine \cup {created'}
  BY <1>p DEF SignsIn, Gives
<1>4. r.kind \notin Authorised /\ r.kind # "refresh" /\ r.kind # "call"
  BY DEF SignIns, Authorised
<1>5. KindOK(x)
  BY <1>0, <1>1, <1>2, <1>4 DEF KindOK
<1>6. created' <= created'
  BY <1>1, SessionConstants DEF Sids
<1>7. Truthful(x)'
  BY <1>1, <1>2, <1>4, <1>6 DEF Truthful
<1>8. mine' \subseteq Sids
  BY <1>0, <1>1, <1>3 DEF TypesInv, WebTypeOK
<1>. QED BY <1>2, <1>3, <1>5, <1>7, <1>8, ServedKeeps

(* An answer without tokens. *)
LEMMA AnsweredKeeps ==
  ASSUME BaseInv, [Next]_vars, UNCHANGED <<pageVars, mine>>, NEW r \in net, r.answer \in {"none", "consumed"},
         NEW answer \in {"consumed", "ok", "unauthorized", "failed"},
         answer = "consumed" => r.kind = "exchange",
         answer = "unauthorized" /\ r.kind = "call" => ~Authenticated(r.with[1]),
         Answered(r, answer)
  PROVE  TypesInv' /\ PageInv'
<1>. DEFINE x == [r EXCEPT !.answer = answer]
<1>0. TypesInv /\ SessionInv /\ r \in Requests /\ KindOK(r) /\ Truthful(r)
  BY DEF BaseInv, TypesInv, WebTypeOK, PageInv
<1>2. /\ x \in Requests /\ x.answer = answer /\ x.gives = r.gives
      /\ x.kind = r.kind /\ x.with = r.with /\ x.current = r.current /\ x.awaited = r.awaited
  BY <1>0 DEF Requests
<1>3. net' \subseteq (net \ {r}) \cup {x} /\ mine' \subseteq Sids
  BY <1>0 DEF Answered, TypesInv, WebTypeOK
<1>. HIDE DEF x
<1>5. KindOK(x)
  BY <1>0, <1>2 DEF KindOK
<1>6. Truthful(r)'
  BY TruthStays
<1>7. r.kind = "call" => r.with[1] \in Sids /\ r.with[1] <= created
  BY <1>0 DEF KindOK, Truthful, Authorised, Tokens
<1>8. r.kind = "call" /\ answer = "unauthorized" => ~Authenticated(r.with[1])'
  BY <1>0, <1>7, SessionsGrow
<1>9. Truthful(x)'
  BY <1>2, <1>6, <1>8 DEF Truthful
<1>. QED BY <1>2, <1>3, <1>5, <1>9, ServedKeeps

LEMMA ServeStep ==
  ASSUME BaseInv, Serve, [Next]_vars
  PROVE  TypesInv' /\ PageInv'
<1>1. PICK r \in net : \/ ServeRegister(r) \/ ServeRecover(r) \/ ServeConsume(r) \/ ServeExchange(r)
                       \/ ServeRefresh(r) \/ ServeCall(r) \/ ServeLogout(r)
  BY DEF Serve
<1>2. UNCHANGED pageVars
  BY DEF Serve
<1>3. TypesInv /\ SessionInv /\ r \in Requests /\ KindOK(r) /\ Truthful(r)
  BY DEF BaseInv, TypesInv, WebTypeOK, PageInv
<1>4. CASE ServeRegister(r)
  <2>1. CreateSession("register") /\ SignsIn(r) /\ r.kind = "register"
    BY <1>4 DEF ServeRegister, Register, Pending
  <2>2. "register" \in Bootstraps \cup {"register", "recover"} /\ r.kind \in SignIns /\ r.kind # "exchange"
    BY <2>1 DEF SignIns
  <2>. QED BY <1>2, <2>1, <2>2, SignsInKeeps
<1>5. CASE ServeRecover(r)
  <2>1. CreateSession("recover") /\ SignsIn(r) /\ r.kind = "recover"
    BY <1>5 DEF ServeRecover, Recover, Pending
  <2>2. "recover" \in Bootstraps \cup {"register", "recover"} /\ r.kind \in SignIns /\ r.kind # "exchange"
    BY <2>1 DEF SignIns
  <2>. QED BY <1>2, <2>1, <2>2, SignsInKeeps
<1>6. CASE ServeConsume(r)
  BY <1>2, <1>6, AnsweredKeeps DEF ServeConsume, Pending
<1>7. CASE ServeExchange(r)
  <2>0. r.kind = "exchange" /\ r.with \in Bootstraps /\ r.answer = "consumed"
    BY <1>3, <1>7 DEF ServeExchange, KindOK
  <2>1. CASE Exchange(r.with) /\ SignsIn(r)
    <3>1. CreateSession(r.with) /\ r.with \in Bootstraps \cup {"register", "recover"} /\ r.kind \in SignIns
      BY <2>0, <2>1 DEF Exchange, SignIns
    <3>. QED BY <1>2, <2>0, <2>1, <3>1, SignsInKeeps
  <2>2. CASE Answered(r, "failed") /\ UNCHANGED mine
    BY <1>2, <2>0, <2>2, AnsweredKeeps
  <2>. QED BY <1>7, <2>1, <2>2 DEF ServeExchange
<1>8. CASE ServeRefresh(r)
  <2>0. r.kind = "refresh" /\ r.with \in Tokens /\ r.answer = "none" /\ mine' = mine
    BY <1>3, <1>8 DEF ServeRefresh, Pending, KindOK, Authorised
  <2>1. CASE Rotate(r.with) /\ Gives(r, <<r.with[1], r.with[2] + 1>>)
    <3>. DEFINE x == [r EXCEPT !.answer = "tokens", !.gives = <<r.with[1], r.with[2] + 1>>]
    <3>1. <<r.with[1], r.with[2] + 1>> \in Tokens
      <4>1. r.with[1] \in Sids /\ r.with[2] \in 1..MaxTokens
        BY <2>0 DEF Tokens
      <4>2. r.with[2] <= issued[r.with[1]] /\ issued[r.with[1]] < MaxTokens /\ issued[r.with[1]] \in 0..MaxTokens
        BY <1>3, <2>1, <4>1 DEF Rotate, Known, SessionInv, RowsInv, TypeOK
      <4>3. r.with[2] + 1 \in 1..MaxTokens
        BY <4>1, <4>2, SessionConstants
      <4>. QED BY <4>1, <4>3 DEF Tokens
    <3>2. /\ x \in Requests /\ x.answer = "tokens" /\ x.gives = <<r.with[1], r.with[2] + 1>>
          /\ x.kind = r.kind /\ x.with = r.with /\ x.current = r.current /\ x.awaited = r.awaited
      BY <1>3, <3>1 DEF Requests
    <3>3. net' \subseteq (net \ {r}) \cup {x}
      BY <2>1 DEF Gives
    <3>. HIDE DEF x
    <3>4. KindOK(x)
      BY <1>3, <3>1, <3>2 DEF KindOK
    <3>5. Truthful(r)'
      BY TruthStays
    <3>6. Truthful(x)'
      BY <2>0, <3>2, <3>5 DEF Truthful, Authorised
    <3>7. mine' \subseteq Sids
      BY <1>3, <2>0 DEF TypesInv, WebTypeOK
    <3>. QED BY <1>2, <3>2, <3>3, <3>4, <3>6, <3>7, ServedKeeps
  <2>2. CASE Answered(r, "unauthorized")
    BY <1>2, <2>0, <2>2, AnsweredKeeps
  <2>. QED BY <1>8, <2>1, <2>2 DEF ServeRefresh
<1>9. CASE ServeCall(r)
  BY <1>2, <1>9, AnsweredKeeps DEF ServeCall, Pending
<1>10. CASE ServeLogout(r)
  BY <1>2, <1>10, AnsweredKeeps DEF ServeLogout, Pending
<1>. QED BY <1>1, <1>4, <1>5, <1>6, <1>7, <1>8, <1>9, <1>10

LEMMA BaseStep == BaseInv /\ [WebNext]_wVars => BaseInv'
<1>. SUFFICES ASSUME BaseInv, [WebNext]_wVars PROVE BaseInv'
  OBVIOUS
<1>0. TypesInv /\ SessionInv /\ PageInv
  BY DEF BaseInv
<1>1. [Next]_vars
  BY <1>0, StepOfSessions
<1>2. SessionInv'
  BY <1>0, <1>1, InvariantStep
<1>3. CASE Serve
  BY <1>1, <1>2, <1>3, ServeStep DEF BaseInv
<1>4. CASE Elsewhere \/ UNCHANGED wVars
  <2>0. UNCHANGED <<pageVars, net, mine>>
    BY <1>4 DEF Elsewhere, wVars
  <2>1. TypesInv'
    BY <1>0, <1>1, <2>0, TypeStep DEF TypesInv, WebTypeOK, pageVars
  <2>2. created \in Nat /\ created' \in Nat /\ Sids \subseteq Nat
    BY <1>0, <1>2, SessionConstants DEF SessionInv, RowsInv, TypeOK, Sids
  <2>3. \A s \in Sids : s <= created => s <= created' /\ origin'[s] = origin[s] /\ (~Authenticated(s) => ~Authenticated(s)')
    <3>1. created <= created'
      BY <1>0, <1>1, SessionsGrow
    <3>2. \A s \in Sids : s <= created => s <= created'
      BY <2>2, <3>1
    <3>. QED BY <1>0, <1>1, <3>2, SessionsGrow
  <2>4. PageState'
    <3>1. SignedIn => opened \in Sids
      BY <1>0 DEF TypesInv, WebTypeOK, PageInv, PageState, SignedIn, Tokens
    <3>. QED BY <1>0, <2>0, <2>3, <3>1 DEF PageInv, PageState, SignedIn, pageVars
  <2>5. \A q \in net' : PageAsked(q)'
    BY <1>0, <2>0 DEF PageInv, PageAsked, SignedIn, pageVars
  <2>6. OneOperation'
    BY <1>0, <2>0 DEF PageInv, OneOperation
  <2>7. \A q \in net' : Truthful(q)'
    BY <1>1, <2>0, TruthStays
  <2>8. ExpelledAreDead'
    BY <1>0, <2>0, <2>3 DEF PageInv, ExpelledAreDead, pageVars, TypesInv, WebTypeOK
  <2>. QED BY <1>2, <2>1, <2>4, <2>5, <2>6, <2>7, <2>8 DEF BaseInv, PageInv
<1>5. CASE WebNext /\ ~Serve /\ ~Elsewhere
  BY <1>2, <1>5, PageStep DEF BaseInv
<1>. QED BY <1>3, <1>4, <1>5

-----------------------------------------------------------------------------
(* Refresh tokens of the page are spent once *)

UsedWereIssued == \A t \in used : t[1] <= created /\ t[2] <= issued[t[1]]

MineWereCreated == \A s \in mine : s <= created

Spendable(t) == t \notin used /\ t[1] \in mine /\ t[2] <= issued[t[1]]

(* A request has a token to spend, or its answer brings one. *)
Carries(r, t) ==
  \/ r.kind = "refresh" /\ r.answer = "none" /\ r.with = t
  \/ r.answer = "tokens" /\ r.gives = t

AllSpendable(S) == \A r \in S, t \in Tokens : Carries(r, t) => Spendable(t)
NoSharing(S)    == \A q, r \in S, t \in Tokens : Carries(q, t) /\ Carries(r, t) => q = r

PageHoldsAlone ==
  SignedIn /\ ~refreshing => Spendable(tokens) /\ \A r \in net : ~Carries(r, tokens)

SpendInv ==
  /\ UsedWereIssued /\ MineWereCreated
  /\ AllSpendable(net) /\ NoSharing(net)
  /\ PageHoldsAlone
  /\ PageNeverAccused

WebInv == BaseInv /\ SpendInv

LEMMA SpendableStays ==
  ASSUME UNCHANGED <<vars, mine>>
  PROVE  \A t : Spendable(t) => Spendable(t)'
BY DEF Spendable, vars

LEMMA EarlierSpends ==
  ASSUME NEW S \in SUBSET Requests, NoSharing(S), AllSpendable(S)
  PROVE  /\ NoSharing(OfEarlierGeneration(S)) /\ AllSpendable(OfEarlierGeneration(S))
<1>1. AllSpendable(OfEarlierGeneration(S))
  <2>. SUFFICES ASSUME NEW x \in OfEarlierGeneration(S), NEW t \in Tokens, Carries(x, t) PROVE Spendable(t)
    BY DEF AllSpendable
  <2>1. PICK r \in S : Descends(x, r)
    BY DescendsEarlier
  <2>. QED BY <2>1 DEF AllSpendable, Carries, Descends
<1>2. NoSharing(OfEarlierGeneration(S))
  <2>. SUFFICES ASSUME NEW x \in OfEarlierGeneration(S), NEW y \in OfEarlierGeneration(S), NEW t \in Tokens,
                       Carries(x, t), Carries(y, t)
                PROVE  x = y
    BY DEF NoSharing
  <2>1. PICK q \in S : Descends(x, q) /\ x = [q EXCEPT !.current = FALSE]
    BY DescendsEarlier
  <2>2. PICK r \in S : Descends(y, r) /\ y = [r EXCEPT !.current = FALSE]
    BY DescendsEarlier
  <2>3. Carries(q, t) /\ Carries(r, t)
    BY <2>1, <2>2 DEF Carries, Descends
  <2>. QED BY <2>1, <2>2, <2>3 DEF NoSharing
<1>. QED BY <1>1, <1>2

(* The page leaves the sessions alone: it is enough to look at its requests.   *)
LEMMA SpendPage ==
  ASSUME SpendInv, UNCHANGED <<vars, mine>>, AllSpendable(net'), NoSharing(net'),
         SignedIn' /\ ~refreshing' => Spendable(tokens') /\ \A r \in net' : ~Carries(r, tokens')
  PROVE  SpendInv'
<1>1. UsedWereIssued' /\ MineWereCreated' /\ PageNeverAccused'
  BY DEF SpendInv, UsedWereIssued, MineWereCreated, PageNeverAccused, vars
<1>2. AllSpendable(net)' /\ NoSharing(net)'
  BY SpendableStays DEF AllSpendable, NoSharing, Carries
<1>3. PageHoldsAlone'
  BY DEF PageHoldsAlone, Carries, SignedIn, Spendable, vars
<1>. QED BY <1>1, <1>2, <1>3 DEF SpendInv

(* What else the page asks for spends no refresh token. *)
LEMMA AskSpends ==
  ASSUME NEW S, NoSharing(S), AllSpendable(S), NEW kind, kind # "refresh", NEW with, Ask(S, kind, with)
  PROVE  /\ NoSharing(net') /\ AllSpendable(net')
         /\ \A x \in net' : x \in S \/ \A t : ~Carries(x, t)
<1>. DEFINE q == [kind |-> kind, with |-> with, answer |-> "none", gives |-> NoTokens,
                  current |-> TRUE, awaited |-> TRUE]
<1>1. net' = S \cup {q} /\ \A t : ~Carries(q, t)
  BY DEF Ask, Carries
<1>. HIDE DEF q
<1>. QED BY <1>1 DEF NoSharing, AllSpendable

(* A request less, or one given up, shares no token either. *)
LEMMA RestSpends ==
  ASSUME net \subseteq Requests, NoSharing(net), AllSpendable(net), NEW r \in net, NEW rest,
         rest \subseteq (net \ {r}) \cup {[r EXCEPT !.awaited = FALSE]}
  PROVE  /\ rest \in SUBSET Requests /\ NoSharing(rest) /\ AllSpendable(rest)
         /\ \A x \in rest : \E q \in net : Descends(x, q)
         /\ \A t \in Tokens : Carries(r, t) => \A x \in rest : Carries(x, t) => x = [r EXCEPT !.awaited = FALSE]
<1>. DEFINE late == [r EXCEPT !.awaited = FALSE]
<1>1. r \in Requests /\ late \in Requests /\ Descends(late, r)
  BY DEF Requests, Descends
<1>2. \A x \in net : Descends(x, x)
  BY DEF Descends
<1>. HIDE DEF late
<1>3. \A t \in Tokens : Carries(late, t) => Carries(r, t)
  BY <1>1 DEF Carries, Descends
<1>4. rest \subseteq (net \ {r}) \cup {late}
  BY DEF late
<1>5. NoSharing(rest)
  BY <1>3, <1>4 DEF NoSharing
<1>6. AllSpendable(rest)
  BY <1>3, <1>4 DEF AllSpendable
<1>7. \A t \in Tokens : Carries(r, t) => \A x \in rest : Carries(x, t) => x = late
  BY <1>4 DEF NoSharing
<1>8. rest \in SUBSET Requests /\ \A x \in rest : \E q \in net : Descends(x, q)
  BY <1>1, <1>2, <1>4
<1>. QED BY <1>5, <1>6, <1>7, <1>8 DEF late

LEMMA EndsSpends ==
  ASSUME WebInv, NEW r \in net, r.awaited, NEW answer, answer \in {r.answer, "failed"},
         NEW rest,
         \/ rest = net \ {r}
         \/ answer = "failed" /\ rest \subseteq (net \ {r}) \cup {[r EXCEPT !.awaited = FALSE]},
         Ends(r, answer, rest), UNCHANGED <<vars, mine>>
  PROVE  SpendInv'
<1>0. /\ SpendInv /\ PageState /\ NoSharing(net) /\ AllSpendable(net) /\ PageHoldsAlone
      /\ net \subseteq Requests /\ KindOK(r) /\ PageAsked(r) /\ tokens \in Tokens \cup {NoTokens}
  BY DEF WebInv, BaseInv, TypesInv, WebTypeOK, SpendInv, PageInv
<1>1. /\ rest \in SUBSET Requests /\ NoSharing(rest) /\ AllSpendable(rest)
      /\ \A x \in rest : \E q \in net : Descends(x, q)
  <2>1. rest \subseteq (net \ {r}) \cup {[r EXCEPT !.awaited = FALSE]}
    OBVIOUS
  <2>. QED BY <1>0, <2>1, RestSpends
<1>2. NoSharing(OfEarlierGeneration(rest)) /\ AllSpendable(OfEarlierGeneration(rest))
  BY <1>1, EarlierSpends
<1>3. ASSUME Clear, net' = OfEarlierGeneration(rest) PROVE SpendInv'
  <2>1. ~SignedIn'
    BY <1>3 DEF Clear, SignedIn
  <2>. QED BY <1>0, <1>2, <1>3, <2>1, SpendPage
<1>4. ASSUME UNCHANGED <<tokens, refreshing>>, net' = rest PROVE SpendInv'
  <2>1. SignedIn /\ ~refreshing => \A x \in rest : ~Carries(x, tokens)
    <3>. SUFFICES ASSUME SignedIn, ~refreshing, NEW x \in rest, Carries(x, tokens) PROVE FALSE
      OBVIOUS
    <3>1. PICK q \in net : Descends(x, q)
      BY <1>1
    <3>2. Carries(q, tokens)
      BY <3>1 DEF Carries, Descends
    <3>. QED BY <1>0, <3>2 DEF PageHoldsAlone
  <2>2. SignedIn /\ ~refreshing => Spendable(tokens)
    BY <1>0 DEF PageHoldsAlone
  <2>3. tokens' = tokens /\ refreshing' = refreshing /\ (SignedIn' <=> SignedIn)
    BY <1>4 DEF SignedIn
  <2>. QED BY <1>0, <1>1, <1>4, <2>1, <2>2, <2>3, SpendPage
<1>5. ASSUME answer = "tokens", tokens' = r.gives, net' = rest PROVE SpendInv'
  <2>1. r.answer = "tokens" /\ r.gives \in Tokens /\ Carries(r, r.gives) /\ rest = net \ {r}
    BY <1>0, <1>5 DEF KindOK, Carries
  <2>2. Spendable(r.gives)
    BY <1>0, <2>1 DEF AllSpendable
  <2>3. \A x \in rest : ~Carries(x, r.gives)
    BY <1>0, <2>1 DEF NoSharing
  <2>. QED BY <1>0, <1>1, <1>5, <2>2, <2>3, SpendPage
<1>6. CASE SignInEnds(r, answer, rest)
  BY <1>4, <1>5, <1>6 DEF SignInEnds, Install
<1>7. CASE RefreshEnds(r, answer, rest)
  BY <1>3, <1>4, <1>5, <1>7 DEF RefreshEnds, Install
<1>8. CASE CallEnds(r, answer, rest)
  BY <1>3, <1>4, <1>8 DEF CallEnds
<1>9. CASE LogoutEnds(r, rest)
  BY <1>3, <1>9 DEF LogoutEnds
<1>. QED BY <1>6, <1>7, <1>8, <1>9 DEF Ends

LEMMA PageSpends ==
  ASSUME WebInv, WebNext, ~Serve, ~Elsewhere
  PROVE  SpendInv'
<1>0. /\ SpendInv /\ PageState /\ NoSharing(net) /\ AllSpendable(net) /\ PageHoldsAlone
      /\ net \in SUBSET Requests /\ tokens \in Tokens \cup {NoTokens}
  BY DEF WebInv, BaseInv, TypesInv, WebTypeOK, SpendInv, PageInv
<1>1. NoSharing(OfEarlierGeneration(net)) /\ AllSpendable(OfEarlierGeneration(net))
  BY <1>0, EarlierSpends
<1>2. ASSUME Clear, NoSharing(net'), AllSpendable(net'), UNCHANGED <<vars, mine>> PROVE SpendInv'
  <2>1. ~SignedIn'
    BY <1>2 DEF Clear, SignedIn
  <2>. QED BY <1>0, <1>2, <2>1, SpendPage
<1>3. ASSUME UNCHANGED <<vars, mine, tokens, refreshing>>, NoSharing(net'), AllSpendable(net'),
             \A x \in net' : x \in net \/ \A t : ~Carries(x, t)
      PROVE  SpendInv'
  <2>1. SignedIn' /\ ~refreshing' => Spendable(tokens') /\ \A x \in net' : ~Carries(x, tokens')
    BY <1>0, <1>3 DEF PageHoldsAlone, SignedIn
  <2>. QED BY <1>0, <1>3, <2>1, SpendPage
<1>4. CASE StartRegister
  <2>1. Ask(net, "register", NoTokens)
    BY <1>4 DEF StartRegister
  <2>. QED BY <1>0, <1>3, <1>4, <2>1, AskSpends DEF StartRegister
<1>5. ASSUME NEW kind \in SignIns, NEW with, StartSignIn(kind, with) PROVE SpendInv'
  <2>1. kind # "refresh" /\ Ask(OfEarlierGeneration(net), kind, with)
    BY <1>5 DEF StartSignIn, SignIns
  <2>2. NoSharing(net') /\ AllSpendable(net')
    BY <1>1, <2>1, AskSpends
  <2>. QED BY <1>2, <1>5, <2>2 DEF StartSignIn
<1>6. CASE StartRefresh
  <2>. DEFINE q == [kind |-> "refresh", with |-> tokens, answer |-> "none", gives |-> NoTokens,
                    current |-> TRUE, awaited |-> TRUE]
  <2>1. net' = net \cup {q} /\ SignedIn /\ ~refreshing /\ refreshing' = TRUE /\ UNCHANGED <<vars, mine>>
    BY <1>6 DEF StartRefresh, Ask
  <2>2. \A t \in Tokens : Carries(q, t) => t = tokens
    BY DEF Carries
  <2>3. Spendable(tokens) /\ \A x \in net : ~Carries(x, tokens)
    BY <1>0, <2>1 DEF PageHoldsAlone
  <2>. HIDE DEF q
  <2>4. NoSharing(net')
    BY <1>0, <2>1, <2>2, <2>3 DEF NoSharing
  <2>5. AllSpendable(net')
    BY <1>0, <2>1, <2>2, <2>3 DEF AllSpendable
  <2>. QED BY <1>0, <2>1, <2>4, <2>5, SpendPage
<1>7. CASE StartCall
  <2>1. Ask(net, "call", tokens)
    BY <1>7 DEF StartCall
  <2>2. UNCHANGED <<vars, mine, tokens, refreshing>>
    BY <1>7 DEF StartCall, pageVars
  <2>. QED BY <1>0, <1>3, <2>1, <2>2, AskSpends
<1>8. CASE SendLogout
  <2>1. Ask(net, "logout", tokens)
    BY <1>8 DEF SendLogout
  <2>2. UNCHANGED <<vars, mine, tokens, refreshing>>
    BY <1>8 DEF SendLogout, pageVars
  <2>. QED BY <1>0, <1>3, <2>1, <2>2, AskSpends
<1>9. ASSUME NEW s \in Sids, StartLogout \/ PrepareUploader \/ DisposeUploader(s) PROVE SpendInv'
  BY <1>0, <1>3, <1>9 DEF StartLogout, PrepareUploader, DisposeUploader
<1>14. CASE StartLogout \/ PrepareUploader \/ TokenAges
  BY <1>0, <1>3, <1>14 DEF StartLogout, PrepareUploader, TokenAges
<1>10. CASE LogoutUnsent
  BY <1>1, <1>2, <1>10 DEF LogoutUnsent
<1>11. CASE LeavePage
  BY <1>1, <1>2, <1>11 DEF LeavePage
<1>12. ASSUME NEW r \in net, Answer(r) PROVE SpendInv'
  BY <1>12, EndsSpends DEF Answer
<1>13. ASSUME NEW r \in net, Fails(r) PROVE SpendInv'
  <2>1. PICK late \in BOOLEAN :
          Ends(r, "failed", (net \ {r}) \cup (IF late THEN {[r EXCEPT !.awaited = FALSE]} ELSE {}))
    BY <1>13 DEF Fails
  <2>. QED BY <1>13, <2>1, EndsSpends DEF Fails
<1>. QED BY <1>4, <1>5, <1>6, <1>7, <1>8, <1>9, <1>14, <1>10, <1>11, <1>12, <1>13 DEF WebNext, Kicked, SignIns

-----------------------------------------------------------------------------
(* The sessions spend a token only when it is rotated, and issue only new ones. *)
LEMMA TokensStep ==
  ASSUME SessionInv, [Next]_vars
  PROVE  \/ \E t \in Tokens : Rotate(t)
         \/ /\ used' = used
            /\ \/ issued' = issued
               \/ \E from \in Bootstraps \cup {"register", "recover"} : CreateSession(from)
<1>1. CASE UNCHANGED vars
  BY <1>1 DEF vars
<1>2. CASE MailStep
  BY <1>2 DEF MailStep, ResendVerification, UpdateEmail, VerifyEmail, Spend, CodeExpires
<1>3. CASE (\E s \in Sids : Publish(s)) \/ RedisLoss
  BY <1>3 DEF Publish, RedisLoss
<1>4. CASE AccountStep
  <2>1. ASSUME NEW committed \in BOOLEAN, Register(committed)
        PROVE  used' = used /\ (issued' = issued \/ CreateSession("register"))
    BY <2>1 DEF Register
  <2>2. ASSUME Recover PROVE used' = used /\ CreateSession("recover")
    BY <2>2 DEF Recover
  <2>3. ASSUME NEW j \in Bootstraps, Exchange(j) PROVE used' = used /\ CreateSession(j)
    BY <2>3 DEF Exchange
  <2>4. ASSUME NEW j \in Bootstraps, ConsumeBootstrap(j) \/ ExchangeFails(j) \/ MarkLapses(j)
        PROVE  used' = used /\ issued' = issued
    BY <2>4 DEF ConsumeBootstrap, ExchangeFails, MarkLapses
  <2>5. ASSUME NEW t \in Tokens, Reuse(t) PROVE used' = used /\ issued' = issued
    BY <2>5 DEF Reuse
  <2>6. ASSUME NEW s \in Sids, Logout(s) \/ Delete(s) \/ SessionExpires(s) \/ Purge(s)
        PROVE  used' = used /\ issued' = issued
    BY <2>6 DEF Logout, Delete, SessionExpires, Purge
  <2>7. ASSUME GrantExpires PROVE used' = used /\ issued' = issued
    BY <2>7 DEF GrantExpires
  <2>. QED BY <1>4, <2>1, <2>2, <2>3, <2>4, <2>5, <2>6, <2>7 DEF AccountStep
<1>. QED BY <1>1, <1>2, <1>3, <1>4 DEF Next

(* A rotation spends the last token of its family and issues the next. *)
LEMMA RotateIssues ==
  ASSUME SessionInv, NEW t \in Tokens, Rotate(t)
  PROVE  /\ t[1] \in Sids /\ t[1] <= created /\ t[2] = issued[t[1]] /\ t \notin used
         /\ used' = used \cup {t} /\ issued' = [issued EXCEPT ![t[1]] = @ + 1]
         /\ UNCHANGED <<created, accused>>
         /\ <<t[1], t[2] + 1>> \in Tokens /\ issued'[t[1]] = t[2] + 1
<1>1. t[1] \in Sids /\ t[2] \in 1..MaxTokens /\ issued[t[1]] \in 0..MaxTokens
  BY DEF Tokens, SessionInv, RowsInv, TypeOK
<1>2. t[1] \in Rows /\ t[2] <= issued[t[1]] /\ t \notin used /\ issued[t[1]] < MaxTokens
  BY DEF Rotate, Known
<1>3. t[1] <= created
  BY <1>2 DEF SessionInv, RowsInv, RowsAreCreated, Rows
<1>4. ~(t[2] < issued[t[1]])
  BY <1>2 DEF SessionInv, EarlierTokensAreUsed
<1>5. t[2] = issued[t[1]] /\ t[2] + 1 \in 1..MaxTokens
  BY <1>1, <1>2, <1>4, SessionConstants
<1>6. issued' = [issued EXCEPT ![t[1]] = @ + 1] /\ used' = used \cup {t} /\ UNCHANGED <<created, accused>>
  BY DEF Rotate
<1>7. issued'[t[1]] = t[2] + 1
  BY <1>1, <1>5, <1>6 DEF SessionInv, RowsInv, TypeOK
<1>8. <<t[1], t[2] + 1>> \in Tokens
  BY <1>1, <1>5 DEF Tokens
<1>. QED BY <1>1, <1>2, <1>3, <1>5, <1>6, <1>7, <1>8

(* What is issued is not taken back, and what is spent had been issued. *)
LEMMA IssuedGrows ==
  ASSUME SessionInv, [Next]_vars, UsedWereIssued
  PROVE  /\ UsedWereIssued'
         /\ \A s \in Sids : s <= created => issued[s] <= issued'[s]
<1>0. /\ TypeOK /\ created \in Nat /\ Sids \subseteq Nat /\ created <= created' /\ created' \in Nat
      /\ \A s \in Sids : issued[s] \in Nat /\ issued'[s] \in Nat
      /\ \A t \in Tokens : t[1] \in Sids /\ t[2] \in Nat
  <2>1. TypeOK /\ TypeOK' /\ created <= created'
    BY TypeStep, SessionsGrow DEF SessionInv, RowsInv
  <2>2. created \in Nat /\ created' \in Nat /\ Sids \subseteq Nat
    BY <2>1, SessionConstants DEF TypeOK, Sids
  <2>3. \A s \in Sids : issued[s] \in Nat /\ issued'[s] \in Nat
    <3>1. 0..MaxTokens \subseteq Nat
      BY SessionConstants
    <3>. QED BY <2>1, <3>1 DEF TypeOK
  <2>4. \A t \in Tokens : t[1] \in Sids /\ t[2] \in Nat
    BY SessionConstants DEF Tokens
  <2>. QED BY <2>1, <2>2, <2>3, <2>4
<1>1. ASSUME used' = used, \A s \in Sids : s <= created => issued[s] <= issued'[s]
      PROVE  UsedWereIssued'
  <2>. SUFFICES ASSUME NEW t \in used PROVE t[1] <= created' /\ t[2] <= issued'[t[1]]
    BY <1>1 DEF UsedWereIssued
  <2>1. t \in Tokens /\ t[1] <= created /\ t[2] <= issued[t[1]]
    BY <1>0 DEF UsedWereIssued, TypeOK
  <2>2. issued[t[1]] <= issued'[t[1]]
    BY <1>0, <1>1, <2>1
  <2>3. t[1] \in Nat /\ t[2] \in Nat /\ issued[t[1]] \in Nat /\ issued'[t[1]] \in Nat
    BY <1>0, <2>1
  <2>4. t[2] <= issued'[t[1]]
    BY <2>1, <2>2, <2>3
  <2>5. t[1] <= created'
    BY <1>0, <2>1, <2>3
  <2>. QED BY <2>4, <2>5
<1>2. ASSUME NEW t \in Tokens, Rotate(t)
      PROVE  UsedWereIssued' /\ \A s \in Sids : s <= created => issued[s] <= issued'[s]
  <2>1. /\ t[1] \in Sids /\ t[1] <= created /\ t[2] = issued[t[1]] /\ used' = used \cup {t}
        /\ issued' = [issued EXCEPT ![t[1]] = @ + 1] /\ created' = created
    BY <1>2, RotateIssues
  <2>2. \A s \in Sids : issued'[s] = IF s = t[1] THEN issued[s] + 1 ELSE issued[s]
    BY <1>0, <2>1 DEF TypeOK
  <2>. QED BY <1>0, <2>1, <2>2 DEF UsedWereIssued, TypeOK
<1>3. ASSUME NEW from \in Bootstraps \cup {"register", "recover"}, CreateSession(from)
      PROVE  \A s \in Sids : s <= created => issued[s] <= issued'[s]
  <2>1. created' = created + 1 /\ issued' = [issued EXCEPT ![created'] = 1]
    BY <1>3, NewSession
  <2>2. \A s \in Sids : s <= created => issued'[s] = issued[s]
    BY <1>0, <2>1 DEF TypeOK
  <2>. QED BY <1>0, <2>2
<1>4. CASE used' = used /\ issued' = issued
  BY <1>0, <1>1, <1>4
<1>5. CASE used' = used /\ \E from \in Bootstraps \cup {"register", "recover"} : CreateSession(from)
  BY <1>1, <1>3, <1>5
<1>. QED BY <1>2, <1>4, <1>5, TokensStep

(* The sessions move, the page stays: every request not served carries what it *)
(* did, which is still to be spent, and one that was served carries something  *)
(* new or nothing.                                                             *)
LEMMA ServedSpends ==
  ASSUME WebInv, [Next]_vars, UNCHANGED pageVars, mine \subseteq mine',
         MineWereCreated', PageNeverAccused',
         NEW S \in SUBSET net, NEW X, net' \subseteq S \cup X, \A x, y \in X : x = y,
         \A t \in Tokens : Spendable(t) /\ (\A r \in net \ S : ~Carries(r, t)) => Spendable(t)',
         \A x \in X, t \in Tokens : Carries(x, t) => Spendable(t)' /\ ~Spendable(t)
  PROVE  SpendInv'
<1>0. /\ SessionInv /\ UsedWereIssued /\ AllSpendable(net) /\ NoSharing(net) /\ PageHoldsAlone
      /\ tokens \in Tokens \cup {NoTokens} /\ tokens' = tokens /\ refreshing' = refreshing
  BY DEF WebInv, BaseInv, SpendInv, TypesInv, WebTypeOK, pageVars
<1>1. UsedWereIssued'
  BY <1>0, IssuedGrows
<1>2. \A q \in S, t \in Tokens : Carries(q, t) => Spendable(t) /\ Spendable(t)'
  <2>. SUFFICES ASSUME NEW q \in S, NEW t \in Tokens, Carries(q, t) PROVE Spendable(t) /\ Spendable(t)'
    OBVIOUS
  <2>1. Spendable(t)
    BY <1>0 DEF AllSpendable
  <2>2. \A r \in net \ S : ~Carries(r, t)
    BY <1>0 DEF NoSharing
  <2>. QED BY <2>1, <2>2
<1>3. \A x \in net', t \in Tokens : Carries(x, t) => Spendable(t)'
  BY <1>2
<1>4. \A x, y \in net', t \in Tokens : Carries(x, t) /\ Carries(y, t) => x = y
  <2>. SUFFICES ASSUME NEW x \in net', NEW y \in net', NEW t \in Tokens, Carries(x, t), Carries(y, t)
                PROVE  x = y
    OBVIOUS
  <2>1. CASE x \in S /\ y \in S
    BY <1>0, <2>1 DEF NoSharing
  <2>2. CASE x \in X /\ y \in X
    BY <2>2
  <2>3. CASE (x \in S /\ y \in X) \/ (x \in X /\ y \in S)
    BY <1>2, <2>3
  <2>. QED BY <2>1, <2>2, <2>3
<1>5. SignedIn /\ ~refreshing => Spendable(tokens)' /\ \A x \in net' : ~Carries(x, tokens)
  <2>. SUFFICES ASSUME SignedIn, ~refreshing PROVE Spendable(tokens)' /\ \A x \in net' : ~Carries(x, tokens)
    OBVIOUS
  <2>1. PICK t \in Tokens : t = tokens
    BY <1>0 DEF SignedIn
  <2>2. Spendable(t) /\ \A r \in net : ~Carries(r, t)
    BY <1>0, <2>1 DEF PageHoldsAlone
  <2>3. Spendable(t)'
    BY <2>2
  <2>4. \A x \in net' : ~Carries(x, t)
    BY <2>2
  <2>5. Spendable(tokens)'
    BY <1>0, <2>1, <2>3 DEF Spendable
  <2>. QED BY <2>1, <2>4, <2>5
<1>6. AllSpendable(net)' /\ NoSharing(net)'
  BY <1>3, <1>4 DEF AllSpendable, NoSharing, Carries
<1>7. PageHoldsAlone'
  BY <1>0, <1>5 DEF PageHoldsAlone, SignedIn, Carries, Spendable
<1>. QED BY <1>1, <1>6, <1>7 DEF SpendInv

(* A token of the page stays to be spent until it is spent. *)
LEMMA UnspentStays ==
  ASSUME WebInv, [Next]_vars, mine \subseteq mine', NEW t \in Tokens, Spendable(t), t \notin used'
  PROVE  Spendable(t)'
<1>1. /\ SessionInv /\ UsedWereIssued /\ t[1] \in mine /\ t[1] \in Sids /\ t[1] <= created
      /\ t[2] <= issued[t[1]] /\ t[2] \in Nat
  BY SessionConstants DEF WebInv, BaseInv, SpendInv, MineWereCreated, Spendable, Tokens
<1>2. issued[t[1]] <= issued'[t[1]]
  BY <1>1, IssuedGrows
<1>3. issued[t[1]] \in Nat /\ issued'[t[1]] \in Nat
  <2>1. 0..MaxTokens \subseteq Nat /\ TypeOK /\ TypeOK'
    BY <1>1, TypeStep, SessionConstants DEF SessionInv, RowsInv
  <2>. QED BY <1>1, <2>1 DEF TypeOK
<1>4. t[2] <= issued'[t[1]]
  BY <1>1, <1>2, <1>3
<1>. QED BY <1>1, <1>4 DEF Spendable

LEMMA SignsInSpends ==
  ASSUME WebInv, [Next]_vars, UNCHANGED pageVars, NEW r \in net,
         NEW from \in Bootstraps \cup {"register", "recover"}, CreateSession(from),
         UNCHANGED <<used, accused>>, SignsIn(r)
  PROVE  SpendInv'
<1>0. /\ SessionInv /\ SpendInv /\ r \in Requests /\ mine \subseteq Sids
      /\ used \subseteq Tokens /\ accused \subseteq Sids /\ created \in Nat
  BY SessionConstants DEF WebInv, BaseInv, SpendInv, TypesInv, WebTypeOK, SessionInv, RowsInv, TypeOK
<1>1. /\ <<created', 1>> \in Tokens /\ created' \in Sids /\ created' = created + 1
      /\ issued'[created'] = 1 /\ mine' = mine \cup {created'}
  BY <1>0, NewSession DEF SignsIn, SessionInv, RowsInv, TypeOK
<1>2. Sids \subseteq Nat /\ \A t \in Tokens : t[1] \in Nat
  BY DEF Sids, Tokens
<1>3. \A s \in mine \cup accused : s # created'
  <2>1. \A s \in mine \cup accused : s <= created /\ s \in Nat
    BY <1>0, <1>2 DEF SpendInv, MineWereCreated, SessionInv, AccusedAreRevoked, RevokedWereCreated
  <2>. QED BY <1>0, <1>1, <2>1
<1>4. MineWereCreated'
  <2>1. \A s \in mine : s <= created /\ s \in Nat
    BY <1>0, <1>2 DEF SpendInv, MineWereCreated
  <2>. QED BY <1>0, <1>1, <2>1 DEF MineWereCreated
<1>5. PageNeverAccused'
  BY <1>0, <1>1, <1>3 DEF SpendInv, PageNeverAccused
<1>p. PICK x : x = [r EXCEPT !.answer = "tokens", !.gives = <<created', 1>>]
  OBVIOUS
<1>6. \A t \in Tokens : Carries(x, t) => t = <<created', 1>>
  BY <1>0, <1>p DEF Requests, Carries
<1>7. \A t \in Tokens : Carries(x, t) => Spendable(t)' /\ ~Spendable(t)
  <2>. SUFFICES ASSUME NEW t \in Tokens, t = <<created', 1>> PROVE Spendable(t)' /\ ~Spendable(t)
    BY <1>6
  <2>1. t[1] = created' /\ t[2] = 1
    OBVIOUS
  <2>2. t \notin used
    <3>1. \A u \in used : u[1] <= created /\ u[1] \in Nat
      BY <1>0, <1>2 DEF SpendInv, UsedWereIssued
    <3>. QED BY <1>0, <1>1, <2>1, <3>1
  <2>3. Spendable(t)'
    BY <1>1, <2>1, <2>2 DEF Spendable
  <2>. QED BY <1>3, <2>1, <2>3 DEF Spendable
<1>8. \A t \in Tokens : Spendable(t) => Spendable(t)'
  BY <1>1, UnspentStays DEF Spendable
<1>. DEFINE S == net \ {r}
            X == {x}
<1>9. net' \subseteq S \cup X /\ S \in SUBSET net /\ mine \subseteq mine'
  BY <1>1, <1>p DEF SignsIn, Gives
<1>10. (\A y, z \in X : y = z) /\ \A y \in X, t \in Tokens : Carries(y, t) => Spendable(t)' /\ ~Spendable(t)
  BY <1>7
<1>. HIDE DEF S, X
<1>. QED BY <1>4, <1>5, <1>8, <1>9, <1>10, ServedSpends

(* An answer without tokens brings nothing to spend. *)
LEMMA AnsweredSpends ==
  ASSUME WebInv, [Next]_vars, UNCHANGED <<pageVars, mine, used, accused>>, NEW r \in net,
         NEW answer \in {"consumed", "ok", "unauthorized", "failed"},
         Answered(r, answer)
  PROVE  SpendInv'
<1>0. /\ SessionInv /\ SpendInv /\ r \in Requests /\ mine \subseteq Sids
  BY DEF WebInv, BaseInv, TypesInv, WebTypeOK
<1>1. MineWereCreated' /\ PageNeverAccused'
  <2>1. created <= created' /\ created \in Nat /\ created' \in Nat /\ Sids \subseteq Nat
    <3>1. TypeOK /\ TypeOK' /\ created <= created'
      BY <1>0, TypeStep, SessionsGrow DEF SessionInv, RowsInv
    <3>. QED BY <3>1, SessionConstants DEF TypeOK, Sids
  <2>2. \A s \in mine : s <= created /\ s \in Nat
    BY <1>0, <2>1 DEF SpendInv, MineWereCreated
  <2>3. \A s \in mine : s <= created'
    BY <2>1, <2>2
  <2>. QED BY <1>0, <2>3 DEF SpendInv, MineWereCreated, PageNeverAccused
<1>p. PICK x : x = [r EXCEPT !.answer = answer]
  OBVIOUS
<1>2. \A t \in Tokens : ~Carries(x, t)
  BY <1>0, <1>p DEF Requests, Carries
<1>3. \A t \in Tokens : Spendable(t) => Spendable(t)'
  BY UnspentStays DEF Spendable
<1>. DEFINE S == net \ {r}
            X == {x}
<1>4. net' \subseteq S \cup X /\ S \in SUBSET net /\ mine \subseteq mine'
  BY <1>p DEF Answered
<1>5. (\A y, z \in X : y = z) /\ \A y \in X, t \in Tokens : Carries(y, t) => Spendable(t)' /\ ~Spendable(t)
  BY <1>2
<1>. HIDE DEF S, X
<1>. QED BY <1>1, <1>3, <1>4, <1>5, ServedSpends

(* A refresh spends the token it carried, which nobody else carries, and its   *)
(* answer brings the next one, which nobody can have.                          *)
LEMMA RefreshSpends ==
  ASSUME WebInv, [Next]_vars, UNCHANGED <<pageVars, mine>>, NEW r \in net,
         r.kind = "refresh", r.answer = "none", r.with \in Tokens,
         Rotate(r.with), Gives(r, <<r.with[1], r.with[2] + 1>>)
  PROVE  SpendInv'
<1>0. /\ SessionInv /\ SpendInv /\ NoSharing(net) /\ r \in Requests
  BY DEF WebInv, BaseInv, SpendInv, TypesInv, WebTypeOK
<1>1. PICK t \in Tokens : t = r.with
  OBVIOUS
<1>2. PICK u \in Tokens : u = <<t[1], t[2] + 1>>
  BY <1>0, <1>1, RotateIssues
<1>3. /\ t[2] = issued[t[1]] /\ used' = used \cup {t} /\ issued'[t[1]] = t[2] + 1
      /\ UNCHANGED <<created, accused>> /\ u[1] = t[1] /\ u[2] = t[2] + 1 /\ t[2] \in Nat
  BY <1>0, <1>1, <1>2, RotateIssues, SessionConstants DEF Tokens
<1>4. Carries(r, t) /\ Spendable(t)
  BY <1>0, <1>1 DEF Carries, SpendInv, AllSpendable
<1>5. MineWereCreated' /\ PageNeverAccused'
  BY <1>0, <1>3 DEF SpendInv, MineWereCreated, PageNeverAccused
<1>6. Spendable(u)' /\ ~Spendable(u)
  <2>1. ~(u[2] <= issued[u[1]]) /\ u[2] <= issued'[u[1]] /\ u # t
    BY <1>3
  <2>2. u \notin used
    BY <1>0, <2>1 DEF SpendInv, UsedWereIssued
  <2>. QED BY <1>3, <1>4, <2>1, <2>2 DEF Spendable
<1>p. PICK x : x = [r EXCEPT !.answer = "tokens", !.gives = u]
  OBVIOUS
<1>7. \A v \in Tokens : Carries(x, v) => v = u
  BY <1>0, <1>p DEF Requests, Carries
<1>. DEFINE S == net \ {r}
            X == {x}
<1>8. net' \subseteq S \cup X /\ S \in SUBSET net /\ mine \subseteq mine'
  BY <1>1, <1>2, <1>p DEF Gives
<1>9. (\A y, z \in X : y = z) /\ \A y \in X, v \in Tokens : Carries(y, v) => Spendable(v)' /\ ~Spendable(v)
  BY <1>6, <1>7
<1>10. \A v \in Tokens : Spendable(v) /\ (\A q \in net \ S : ~Carries(q, v)) => Spendable(v)'
  <2>. SUFFICES ASSUME NEW v \in Tokens, Spendable(v), ~Carries(r, v) PROVE Spendable(v)'
    OBVIOUS
  <2>1. v # t /\ v \notin used
    BY <1>4 DEF Spendable
  <2>. QED BY <1>3, <2>1, UnspentStays
<1>. HIDE DEF S, X
<1>. QED BY <1>5, <1>8, <1>9, <1>10, ServedSpends

LEMMA ServeSpends ==
  ASSUME WebInv, Serve, [Next]_vars
  PROVE  SpendInv'
<1>1. PICK r \in net : \/ ServeRegister(r) \/ ServeRecover(r) \/ ServeConsume(r) \/ ServeExchange(r)
                       \/ ServeRefresh(r) \/ ServeCall(r) \/ ServeLogout(r)
  BY DEF Serve
<1>2. UNCHANGED pageVars
  BY DEF Serve
<1>3. SpendInv /\ KindOK(r)
  BY DEF WebInv, BaseInv, TypesInv
<1>4. CASE ServeRegister(r)
  <2>1. CreateSession("register") /\ SignsIn(r) /\ UNCHANGED <<used, accused>>
    BY <1>4 DEF ServeRegister, Register
  <2>2. "register" \in Bootstraps \cup {"register", "recover"}
    OBVIOUS
  <2>. QED BY <1>2, <2>1, <2>2, SignsInSpends
<1>5. CASE ServeRecover(r)
  <2>1. CreateSession("recover") /\ SignsIn(r) /\ UNCHANGED <<used, accused>>
    BY <1>5 DEF ServeRecover, Recover
  <2>2. "recover" \in Bootstraps \cup {"register", "recover"}
    OBVIOUS
  <2>. QED BY <1>2, <2>1, <2>2, SignsInSpends
<1>6. CASE ServeConsume(r)
  BY <1>2, <1>6, AnsweredSpends DEF ServeConsume, ConsumeBootstrap
<1>7. CASE ServeExchange(r)
  <2>1. CASE Exchange(r.with) /\ SignsIn(r)
    <3>1. r.with \in Bootstraps
      BY <1>3, <1>7 DEF ServeExchange, KindOK
    <3>2. CreateSession(r.with) /\ UNCHANGED <<used, accused>>
      BY <2>1 DEF Exchange
    <3>. QED BY <1>2, <2>1, <3>1, <3>2, SignsInSpends
  <2>2. CASE ExchangeFails(r.with) /\ Answered(r, "failed") /\ UNCHANGED mine
    BY <1>2, <2>2, AnsweredSpends DEF ExchangeFails
  <2>. QED BY <1>7, <2>1, <2>2 DEF ServeExchange
<1>8. CASE ServeRefresh(r)
  <2>0. r.kind = "refresh" /\ r.with \in Tokens /\ r.answer = "none" /\ mine' = mine
    BY <1>3, <1>8 DEF ServeRefresh, Pending, KindOK, Authorised
  <2>1. CASE Rotate(r.with) /\ Gives(r, <<r.with[1], r.with[2] + 1>>)
    BY <1>2, <2>0, <2>1, RefreshSpends
  <2>2. ~Reuse(r.with)
    <3>1. Carries(r, r.with)
      BY <2>0 DEF Carries
    <3>2. Spendable(r.with)
      BY <1>3, <2>0, <3>1 DEF SpendInv, AllSpendable
    <3>. QED BY <3>2 DEF Spendable, Reuse
  <2>3. CASE Answered(r, "unauthorized") /\ UNCHANGED vars
    BY <1>2, <2>0, <2>3, AnsweredSpends DEF vars
  <2>. QED BY <1>8, <2>1, <2>2, <2>3 DEF ServeRefresh
<1>9. CASE ServeCall(r)
  BY <1>2, <1>9, AnsweredSpends DEF ServeCall, vars
<1>10. CASE ServeLogout(r)
  <2>1. UNCHANGED <<used, accused, mine>> /\ (Answered(r, "ok") \/ Answered(r, "unauthorized"))
    BY <1>10 DEF ServeLogout, Logout, vars
  <2>. QED BY <1>2, <2>1, AnsweredSpends
<1>. QED BY <1>1, <1>4, <1>5, <1>6, <1>7, <1>8, <1>9, <1>10

(* The other devices have no token of the page. *)
LEMMA ElsewhereSpends ==
  ASSUME WebInv, Elsewhere, [Next]_vars
  PROVE  SpendInv'
<1>0. SessionInv /\ SpendInv /\ mine \subseteq Sids /\ UNCHANGED <<pageVars, net, mine>>
  BY DEF WebInv, BaseInv, TypesInv, WebTypeOK, Elsewhere
<1>1. /\ used' = used \/ \E t \in Tokens : t[1] \notin mine /\ used' = used \cup {t}
      /\ accused' = accused \/ \E t \in Tokens : t[1] \notin mine /\ accused' = accused \cup {t[1]}
  <2>1. ASSUME NEW t \in Tokens, t[1] \notin mine, Rotate(t) \/ Reuse(t)
        PROVE  /\ used' = used \/ used' = used \cup {t}
               /\ accused' = accused \/ accused' = accused \cup {t[1]}
    BY <2>1 DEF Rotate, Reuse
  <2>2. CASE Recover
    BY <2>2 DEF Recover
  <2>3. ASSUME NEW j \in Bootstraps, ConsumeBootstrap(j) \/ Exchange(j) \/ ExchangeFails(j)
        PROVE  used' = used /\ accused' = accused
    BY <2>3 DEF ConsumeBootstrap, Exchange, ExchangeFails
  <2>4. ASSUME NEW s \in Sids, Logout(s) \/ Delete(s) \/ SessionExpires(s) \/ Purge(s)
        PROVE  used' = used /\ accused' = accused
    BY <2>4 DEF Logout, Delete, SessionExpires, Purge
  <2>. QED BY <2>1, <2>2, <2>3, <2>4 DEF Elsewhere
<1>2. MineWereCreated' /\ PageNeverAccused'
  <2>1. created <= created' /\ created \in Nat /\ created' \in Nat /\ Sids \subseteq Nat
    <3>1. TypeOK /\ TypeOK' /\ created <= created'
      BY <1>0, TypeStep, SessionsGrow DEF SessionInv, RowsInv
    <3>. QED BY <3>1, SessionConstants DEF TypeOK, Sids
  <2>2. \A s \in mine : s <= created /\ s \in Nat
    BY <1>0, <2>1 DEF SpendInv, MineWereCreated
  <2>3. \A s \in mine : s <= created'
    BY <2>1, <2>2
  <2>. QED BY <1>0, <1>1, <2>3 DEF SpendInv, MineWereCreated, PageNeverAccused
<1>3. \A t \in Tokens : Spendable(t) => Spendable(t)'
  <2>. SUFFICES ASSUME NEW t \in Tokens, Spendable(t) PROVE Spendable(t)'
    OBVIOUS
  <2>1. t \notin used'
    BY <1>1 DEF Spendable
  <2>. QED BY <1>0, <2>1, UnspentStays
<1>. DEFINE S == net
            X == {}
<1>4. /\ net' \subseteq S \cup X /\ S \in SUBSET net /\ mine \subseteq mine' /\ UNCHANGED pageVars
      /\ \A x, y \in X : x = y
      /\ \A x \in X, t \in Tokens : Carries(x, t) => Spendable(t)' /\ ~Spendable(t)
  BY <1>0
<1>. HIDE DEF S, X
<1>. QED BY <1>2, <1>3, <1>4, ServedSpends

-----------------------------------------------------------------------------
(* The invariant, and what it gives *)

LEMMA WebStarts == WebInit => WebInv
<1>. SUFFICES ASSUME WebInit PROVE WebInv
  OBVIOUS
<1>0. /\ Init /\ net = {} /\ mine = {} /\ expelled = {} /\ uploaders = {} /\ op = "none" /\ opened = 0
      /\ tokens = NoTokens /\ fresh = FALSE /\ refreshing = FALSE /\ entry = "none"
      /\ used = {} /\ accused = {}
  BY DEF WebInit, Init
<1>1. SessionInv /\ TypeOK
  BY <1>0, SessionInit DEF SessionInv, RowsInv
<1>2. TypesInv
  BY <1>0, <1>1 DEF TypesInv, WebTypeOK
<1>3. PageInv
  BY <1>0 DEF PageInv, PageState, OneOperation, ExpelledAreDead, SignedIn
<1>4. SpendInv
  BY <1>0 DEF SpendInv, UsedWereIssued, MineWereCreated, AllSpendable, NoSharing, PageHoldsAlone, SignedIn,
              PageNeverAccused
<1>. QED BY <1>1, <1>2, <1>3, <1>4 DEF WebInv, BaseInv

LEMMA WebStep == WebInv /\ [WebNext]_wVars => WebInv'
<1>. SUFFICES ASSUME WebInv, [WebNext]_wVars PROVE WebInv'
  OBVIOUS
<1>0. BaseInv /\ TypesInv /\ SpendInv
  BY DEF WebInv, BaseInv
<1>1. BaseInv' /\ [Next]_vars
  BY <1>0, BaseStep, StepOfSessions
<1>2. CASE Serve
  BY <1>1, <1>2, ServeSpends DEF WebInv
<1>3. CASE Elsewhere
  BY <1>1, <1>3, ElsewhereSpends DEF WebInv
<1>4. CASE WebNext /\ ~Serve /\ ~Elsewhere
  BY <1>1, <1>4, PageSpends DEF WebInv
<1>5. CASE UNCHANGED wVars
  <2>1. UNCHANGED <<vars, mine, net, tokens, refreshing>>
    BY <1>5 DEF wVars, pageVars
  <2>2. AllSpendable(net') /\ NoSharing(net')
    BY <1>0, <2>1 DEF SpendInv
  <2>3. SignedIn' /\ ~refreshing' => Spendable(tokens') /\ \A r \in net' : ~Carries(r, tokens')
    BY <1>0, <2>1 DEF SpendInv, PageHoldsAlone, SignedIn
  <2>. QED BY <1>0, <1>1, <2>1, <2>2, <2>3, SpendPage DEF WebInv
<1>. QED BY <1>2, <1>3, <1>4, <1>5

(* What holds of the page, of its requests and of the sessions together. *)
THEOREM WebInvariant == WebSpec => []WebInv
BY WebStarts, WebStep, PTL DEF WebSpec

(* The state of the page and its requests have their types. *)
THEOREM WebTypeCorrect == WebSpec => []WebTypeOK
<1>1. WebInv => WebTypeOK
  BY DEF WebInv, BaseInv, TypesInv
<1>. QED BY <1>1, WebInvariant, PTL

(* With a page in front of it the server runs as Sessions does: what is proved *)
(* of Sessions holds here too.                                                 *)
THEOREM WebImplementsSessions == WebSpec => Spec
<1>1. WebInit => Init
  BY DEF WebInit
<1>2. WebInv => TypesInv
  BY DEF WebInv, BaseInv
<1>3. TypesInv /\ [WebNext]_wVars => [Next]_vars
  BY StepOfSessions
<1>. QED BY <1>1, <1>2, <1>3, WebInvariant, PTL DEF WebSpec, Spec

(* No answer that comes late brings an earlier session back: tokens,           *)
(* permissions to upload and the entry are of the last sign-in (api.js,        *)
(* generation).                                                                *)
THEOREM LastSignInHeld == WebSpec => []PageHoldsLastSignIn
<1>1. WebInv => PageHoldsLastSignIn
  BY DEF WebInv, BaseInv, PageInv, PageState, PageHoldsLastSignIn
<1>. QED BY <1>1, WebInvariant, PTL

(* The page spends every refresh token once, so the server never takes a       *)
(* session of the page for a stolen one (api.js, refresh; identity.py,         *)
(* REFRESH_REUSE_DETECTED).                                                    *)
THEOREM NeverAccused == WebSpec => []PageNeverAccused
<1>1. WebInv => PageNeverAccused
  BY DEF WebInv, SpendInv
<1>. QED BY <1>1, WebInvariant, PTL

(* A 401 of a call signs the page out only of a session that has ended.        *)
THEOREM ExpelledFromDead == WebSpec => []ExpelledOnlyFromDead
<1>1. WebInv => ExpelledOnlyFromDead
  BY DEF WebInv, BaseInv, PageInv, ExpelledAreDead, ExpelledOnlyFromDead
<1>. QED BY <1>1, WebInvariant, PTL
=============================================================================
