------------------------------ MODULE ApiAccess ------------------------------
(***************************************************************************)
(* Access to the public API: OAuth apps, authorization codes, access        *)
(* tokens, personal API keys, and the calls made with them.                 *)
(*                                                                         *)
(* A user consents to an app and gets a code; the app exchanges the code    *)
(* for a token (routers/oauth.py).  The exchange reads the code, checks it, *)
(* and marks it used when it commits the token, with no lock in between.    *)
(* A call to /public reads its token or key, then the owner, and answers    *)
(* (services/api_keys.py, services/oauth.py, routers/public_api.py).  All   *)
(* rows belong to a user or an app and go with it (ON DELETE CASCADE).      *)
(*                                                                         *)
(* That the client proves itself, by the PKCE verifier or its secret, is    *)
(* taken as given; failing proofs change nothing.                           *)
(***************************************************************************)
EXTENDS Integers, FiniteSets

CONSTANTS
    Users,      \* accounts
    Grantors,   \* those that consent to apps and create keys
    Apps,       \* registered third-party apps
    OwnerOf,    \* the developer of each app
    Scopes,     \* what a credential may allow
    Exchanges,  \* calls of /oauth/token open at the same time
    Calls,      \* calls of the public API open at the same time
    None,       \* Python's None
    CodeTTL,    \* lifetime of a code (600 s in the code)
    TokenTTL,   \* lifetime of a token (30 days in the code)
    MaxCodes,   \* bound on the codes ever issued
    MaxTokens,  \* bound on the tokens ever issued
    MaxKeys,    \* bound on the keys ever created
    MaxTime     \* bound on the clock

ASSUME ConstantsAssumption ==
    /\ OwnerOf \in [Apps -> Users]
    /\ Grantors \subseteq Users
    /\ None \notin Users \cup Apps
    /\ None \notin Nat
    /\ {CodeTTL, TokenTTL} \subseteq Nat \ {0}
    /\ {MaxCodes, MaxTokens, MaxKeys, MaxTime} \subseteq Nat

VARIABLES
    user,       \* existing accounts
    app,        \* life of each app
    now,        \* the clock
    codes,      \* rows of oauth_authorization_codes
    tokens,     \* rows of oauth_access_tokens
    keys,       \* rows of api_keys
    issued,     \* number of codes, tokens and keys ever issued
    exchange,   \* what each open exchange is doing
    call,       \* what each open call is doing
    shared,     \* codes two open exchanges had loaded together
    ended,      \* credentials revoked, expired or deleted
    withdrawn,  \* apps a user has taken the last token from
    leftover    \* codes not used up at that moment
vars == <<user, app, now, codes, tokens, keys, issued, exchange, call, shared,
          ended, withdrawn, leftover>>

rowVars   == <<codes, tokens, keys>>
ghostVars == <<shared, ended, withdrawn, leftover>>

Times == 0..(MaxTime + CodeTTL + TokenTTL)
Code  == [id: 1..MaxCodes, app: Apps, user: Users, scopes: SUBSET Scopes,
          expires: Times, used: BOOLEAN]
\* code: history, the code the token was exchanged for.
Token == [id: 1..MaxTokens, app: Apps, user: Users, scopes: SUBSET Scopes,
          expires: Times, revoked: BOOLEAN, code: 1..MaxCodes]
\* A key expires when its owner said so, or never.
Key   == [id: 1..MaxKeys, user: Users, scopes: SUBSET Scopes,
          expires: Times \cup {None}, revoked: BOOLEAN]
Credential == Token \cup Key

Exchange == [pc: {"idle", "code"}, code: Code \cup {None}]
NoExchange == [pc |-> "idle", code |-> None]

Endpoints == {"me", "data"}
\* cred: the row as loaded; dead: history, it had ended before the call came;
\* cut: history, it ended while the call was open.
Call == [pc: {"idle", "loaded", "owner", "allowed", "done"}, kind: {"none", "token", "key"},
         id: Nat, endpoint: Endpoints \cup {None}, cred: Credential \cup {None},
         dead: BOOLEAN, cut: BOOLEAN, result: {"none", "ok", "refused", "error"}]
NoCall == [pc |-> "idle", kind |-> "none", id |-> 0, endpoint |-> None,
           cred |-> None, dead |-> FALSE, cut |-> FALSE, result |-> "none"]

Expiry(ttl) == now + ttl

IsActive_NotRevoked(c) == c.expires = None \/ c.expires > now
IsActive(c) == ~c.revoked /\ (c.expires = None \/ c.expires > now)
RowsById(kind, id) == {r \in IF kind = "token" THEN tokens ELSE keys : r.id = id}
RowById(kind, id) == CHOOSE r \in RowsById(kind, id) : TRUE
Active(kind, id) == \E r \in RowsById(kind, id) : IsActive(r)
\* The UPDATE of last_used_at locks the key until the call's commit.
Locked(k) == \E c \in Calls : call[c].kind = "key" /\ call[c].id = k
                                /\ call[c].pc = "allowed"

\* History: what ends with this step; calls open with it are cut.
End(es) ==
    /\ ended' = ended \cup es
    /\ call' = [c \in Calls |->
         IF call[c].pc # "idle" /\ <<call[c].kind, call[c].id>> \in es
         THEN [call[c] EXCEPT !.cut = TRUE] ELSE call[c]]
AllOf(kind, rs) == {<<kind, r.id>> : r \in rs}

-----------------------------------------------------------------------------
Init ==
    /\ user = Users
    /\ app = [a \in Apps |-> "none"]
    /\ now = 0
    /\ codes = {}
    /\ tokens = {}
    /\ keys = {}
    /\ issued = [codes |-> 0, tokens |-> 0, keys |-> 0]
    /\ exchange = [x \in Exchanges |-> NoExchange]
    /\ call = [c \in Calls |-> NoCall]
    /\ shared = {}
    /\ ended = {}
    /\ withdrawn = {}
    /\ leftover = {}

(* Apps and consent *)
CreateApp(a) ==
    /\ app[a] = "none"
    /\ OwnerOf[a] \in user
    /\ app' = [app EXCEPT ![a] = "live"]
    /\ UNCHANGED <<user, now, issued, exchange, call>>
    /\ UNCHANGED <<rowVars, ghostVars>>

\* The rows that go when the apps as and the users us are deleted.
Cascade(as, us) ==
    /\ codes' = {r \in codes : r.app \notin as /\ r.user \notin us}
    /\ tokens' = {r \in tokens : r.app \notin as /\ r.user \notin us}
    /\ keys' = {r \in keys : r.user \notin us}
    /\ End(AllOf("token", tokens \ tokens') \cup AllOf("key", keys \ keys'))

DeleteApp(a) ==
    /\ app[a] = "live"
    /\ app' = [app EXCEPT ![a] = "gone"]
    /\ Cascade({a}, {})
    /\ UNCHANGED <<user, now, issued, exchange, shared, withdrawn, leftover>>

\* delete_my_account, or Clerk's user.deleted; it waits for locked keys.
DeleteUser(u) ==
    LET as == {a \in Apps : app[a] = "live" /\ OwnerOf[a] = u} IN
    /\ u \in user
    /\ \A k \in keys : k.user = u => ~Locked(k.id)
    /\ user' = user \ {u}
    /\ app' = [a \in Apps |-> IF a \in as THEN "gone" ELSE app[a]]
    /\ Cascade(as, {u})
    /\ UNCHANGED <<now, issued, exchange, shared, withdrawn, leftover>>

\* grant_consent.  The app is read before the code is inserted; if it goes in
\* between, the foreign key refuses the code.
GrantConsent(u, a, ss) ==
    /\ u \in user
    /\ app[a] = "live"
    /\ issued.codes < MaxCodes
    /\ issued' = [issued EXCEPT !.codes = @ + 1]
    /\ codes' = codes \cup
         {[id |-> issued.codes + 1, app |-> a, user |-> u, scopes |-> ss,
           expires |-> Expiry(CodeTTL), used |-> FALSE]}
    /\ withdrawn' = withdrawn \ {<<u, a>>}
    /\ UNCHANGED <<user, app, now, tokens, keys, exchange, call, shared, ended,
                   leftover>>

-----------------------------------------------------------------------------
(* token_exchange.  The app's row is read just before the code's: an app that
   goes in between takes its codes along, and either way the answer is a refusal,
   which changes nothing. *)
\* used_at and expires_at are checked on the row as loaded.
Redeemable_Again(r) == r.expires > now
Redeemable(r) == ~r.used /\ r.expires > now
HoldsCode(x, id) == exchange[x].pc = "code" /\ exchange[x].code.id = id

LoadCode(x, r) ==
    /\ exchange[x].pc = "idle"
    /\ app[r.app] = "live"
    /\ Redeemable(r)
    /\ exchange' = [exchange EXCEPT ![x] = [pc |-> "code", code |-> r]]
    /\ shared' = IF \E y \in Exchanges \ {x} : HoldsCode(y, r.id)
                 THEN shared \cup {r.id} ELSE shared
    /\ UNCHANGED <<user, app, now, issued, call, ended, withdrawn, leftover>>
    /\ UNCHANGED rowVars

MarkUsed_Forgotten(id) == codes' = codes
MarkUsed(id) ==
    codes' = {IF r.id = id THEN [r EXCEPT !.used = TRUE] ELSE r : r \in codes}

\* The UPDATE of used_at finds the code's row.  Mutated: nobody looks.
StillThere_Unchecked(id) == TRUE
StillThere(id) == \E r \in codes : r.id = id

\* row.used_at = now; db.add(token); commit.
CommitExchange(x) ==
    LET code == exchange[x].code IN
    /\ exchange[x].pc = "code"
    /\ StillThere(code.id)
    /\ issued.tokens < MaxTokens
    /\ MarkUsed(code.id)
    /\ issued' = [issued EXCEPT !.tokens = @ + 1]
    /\ tokens' = tokens \cup
         {[id |-> issued.tokens + 1, app |-> code.app, user |-> code.user,
           scopes |-> code.scopes, expires |-> Expiry(TokenTTL), revoked |-> FALSE,
           code |-> code.id]}
    /\ exchange' = [exchange EXCEPT ![x] = NoExchange]
    /\ UNCHANGED <<user, app, now, keys, call>>
    /\ UNCHANGED ghostVars

\* The code has gone with its app or user: StaleDataError, nothing is issued.
ExchangeFails(x) ==
    /\ exchange[x].pc = "code"
    /\ ~StillThere(exchange[x].code.id)
    /\ exchange' = [exchange EXCEPT ![x] = NoExchange]
    /\ UNCHANGED <<user, app, now, issued, call>>
    /\ UNCHANGED <<rowVars, ghostVars>>

-----------------------------------------------------------------------------
(* Revocation, keys and time *)
\* list_grants: the tokens a user is shown, and can revoke.
Grants(u) == {t \in tokens : t.user = u /\ IsActive(t)}
GrantsTo(u, a) == {t \in Grants(u) : t.app = a}

\* Codes of u for a that can still become a token.
Open(u, a) == {r.id : r \in {c \in codes : c.user = u /\ c.app = a /\ ~c.used}}

RevokeGrant(u, t) ==
    /\ t \in tokens
    /\ t.user = u
    /\ ~t.revoked
    /\ tokens' = (tokens \ {t}) \cup {[t EXCEPT !.revoked = TRUE]}
    /\ End({<<"token", t.id>>})
    /\ IF GrantsTo(u, t.app) \subseteq {t}
       THEN /\ withdrawn' = withdrawn \cup {<<u, t.app>>}
            /\ leftover' = leftover \cup Open(u, t.app)
                 \cup {exchange[x].code.id : x \in {y \in Exchanges :
                         /\ exchange[y].pc = "code" /\ exchange[y].code.user = u
                         /\ exchange[y].code.app = t.app}}
       ELSE UNCHANGED <<withdrawn, leftover>>
    /\ UNCHANGED <<user, app, now, codes, keys, issued, exchange, shared>>

CreateKey(u, ss, e) ==
    /\ u \in user
    /\ issued.keys < MaxKeys
    /\ issued' = [issued EXCEPT !.keys = @ + 1]
    /\ keys' = keys \cup {[id |-> issued.keys + 1, user |-> u, scopes |-> ss,
                           expires |-> e, revoked |-> FALSE]}
    /\ UNCHANGED <<user, app, now, codes, tokens, exchange, call>>
    /\ UNCHANGED ghostVars

RevokeKey(k) ==
    /\ k \in keys
    /\ ~k.revoked
    /\ ~Locked(k.id)
    /\ keys' = (keys \ {k}) \cup {[k EXCEPT !.revoked = TRUE]}
    /\ End({<<"key", k.id>>})
    /\ UNCHANGED <<user, app, now, codes, tokens, issued, exchange, shared,
                   withdrawn, leftover>>

Tick ==
    /\ now < MaxTime
    /\ now' = now + 1
    /\ End(AllOf("token", {t \in tokens : t.expires = now + 1})
           \cup AllOf("key", {k \in keys : k.expires = now + 1}))
    /\ UNCHANGED <<user, app, issued, exchange, shared, withdrawn, leftover>>
    /\ UNCHANGED rowVars

-----------------------------------------------------------------------------
(* Calls *)
\* The credential is looked up by the hash of what the caller presents.
LoadCredential(c, kind, id, e) ==
    /\ call[c].pc = "idle"
    /\ id \in 1..(IF kind = "token" THEN issued.tokens ELSE issued.keys)
    /\ LET start == [NoCall EXCEPT !.kind = kind, !.id = id, !.endpoint = e,
                                   !.dead = <<kind, id>> \in ended]
       IN call' = [call EXCEPT ![c] =
            IF Active(kind, id)
            THEN [start EXCEPT !.pc = "loaded", !.cred = RowById(kind, id)]
            ELSE [start EXCEPT !.pc = "done", !.result = "refused"]]
    /\ UNCHANGED <<user, app, now, issued, exchange>>
    /\ UNCHANGED <<rowVars, ghostVars>>

Outcome(c, r) == call' = [call EXCEPT ![c] =
    [@ EXCEPT !.pc = "done", !.cred = None, !.result = r]]

ReadOwner(c) ==
    /\ call[c].pc = "loaded"
    /\ IF call[c].cred.user \in user
       THEN call' = [call EXCEPT ![c] = [@ EXCEPT !.pc = "owner"]]
       ELSE Outcome(c, "refused")
    /\ UNCHANGED <<user, app, now, issued, exchange>>
    /\ UNCHANGED <<rowVars, ghostVars>>

\* For a key last_used_at is written: StaleDataError if the key has gone since.
\* Then require_scope.
Authorize(c, s) ==
    /\ call[c].pc = "owner"
    /\ CASE call[c].kind = "key" /\ RowsById("key", call[c].id) = {} ->
              Outcome(c, "error")
         [] OTHER ->
              IF s \in call[c].cred.scopes
              THEN call' = [call EXCEPT ![c] = [@ EXCEPT !.pc = "allowed"]]
              ELSE Outcome(c, "refused")
    /\ UNCHANGED <<user, app, now, issued, exchange>>
    /\ UNCHANGED <<rowVars, ghostVars>>

\* whoami reads auth.key.prefix: a key has one, an access token has not.
HasPrefix(kind) == kind = "key"
Respond(c) ==
    /\ call[c].pc = "allowed"
    /\ Outcome(c, IF call[c].endpoint = "me" /\ ~HasPrefix(call[c].kind)
                  THEN "error" ELSE "ok")
    /\ UNCHANGED <<user, app, now, issued, exchange>>
    /\ UNCHANGED <<rowVars, ghostVars>>

\* The caller has its answer.
Hangup(c) ==
    /\ call[c].pc = "done"
    /\ call' = [call EXCEPT ![c] = NoCall]
    /\ UNCHANGED <<user, app, now, issued, exchange>>
    /\ UNCHANGED <<rowVars, ghostVars>>

-----------------------------------------------------------------------------
Next ==
    \/ \E a \in Apps : CreateApp(a) \/ DeleteApp(a)
    \/ \E u \in Grantors, a \in Apps, ss \in SUBSET Scopes : GrantConsent(u, a, ss)
    \/ \E u \in Users : \/ DeleteUser(u)
                        \/ \E t \in tokens : RevokeGrant(u, t)
    \/ \E u \in Grantors, ss \in SUBSET Scopes, e \in {None, now + 1} : CreateKey(u, ss, e)
    \/ \E k \in keys : RevokeKey(k)
    \/ Tick
    \/ \E x \in Exchanges :
         \/ \E r \in codes : LoadCode(x, r)
         \/ CommitExchange(x) \/ ExchangeFails(x)
    \/ \E c \in Calls :
         \/ \E e \in Endpoints, id \in 1..(MaxTokens + MaxKeys), kind \in {"token", "key"} :
              LoadCredential(c, kind, id, e)
         \/ ReadOwner(c)
         \/ \E s \in Scopes : Authorize(c, s)
         \/ Respond(c) \/ Hangup(c)

Spec == Init /\ [][Next]_vars

-----------------------------------------------------------------------------
(* Properties                                                              *)

\* The type invariant.
TypeOK ==
    /\ user \subseteq Users
    /\ app \in [Apps -> {"none", "live", "gone"}]
    /\ now \in 0..MaxTime
    /\ codes \subseteq Code
    /\ tokens \subseteq Token
    /\ keys \subseteq Key
    /\ issued \in [codes: 0..MaxCodes, tokens: 0..MaxTokens, keys: 0..MaxKeys]
    /\ exchange \in [Exchanges -> Exchange]
    /\ call \in [Calls -> Call]
    /\ shared \subseteq 1..MaxCodes
    /\ ended \subseteq ({"token"} \X (1..MaxTokens)) \cup ({"key"} \X (1..MaxKeys))
    /\ withdrawn \subseteq Users \X Apps
    /\ leftover \subseteq 1..MaxCodes

\* A code is good for one token, however often and by however many calls it is
\* presented -- unless two exchanges had loaded it before either committed.
CodesAreOneTime ==
    \A t, s \in tokens : t.code = s.code /\ t.code \notin shared => t = s

\* No credential outlives what it rests on: codes and tokens their app and user,
\* keys their user, also when the deletion comes in the middle of an exchange.
NothingOutlivesItsOwner ==
    /\ \A r \in codes \cup tokens : app[r.app] = "live" /\ r.user \in user
    /\ \A k \in keys : k.user \in user

\* A call that begins after its credential was revoked, has expired, or went
\* with its app or user is not answered with data.
EndedIsRefused ==
    \A c \in Calls : call[c].dead => call[c].result \in {"none", "refused"}
                                      /\ call[c].pc # "allowed"

\* When a user has revoked the last token of an app and not consented again, the
\* app gets no further one -- except with a code that was open at that moment.
WithdrawnIsOut ==
    \A u \in Users, a \in Apps : <<u, a>> \in withdrawn =>
        \A t \in GrantsTo(u, a) : t.code \in leftover

\* "Downstream routes don't have to care which credential type was used": a call
\* whose credential lives until the end fails with a server error only at
\* /public/me with an access token.
ErrorsNeedARace ==
    \A c \in Calls : call[c].result = "error" =>
        call[c].cut \/ (call[c].kind = "token" /\ call[c].endpoint = "me")

\* What the rows grant, by id: the row's user and scopes while it is good.
TokenIds == {"token"} \X (1..MaxTokens)
KeyIds   == {"key"} \X (1..MaxKeys)
GrantOf(phase, r, a) == [phase |-> phase, user |-> r.user, app |-> a, scopes |-> r.scopes]
NoGrant(phase) == [phase |-> phase, user |-> None, app |-> None, scopes |-> {}]
CodeGrant(i) ==
    IF i > issued.codes THEN NoGrant("none")
    ELSE IF \A c \in codes : c.id # i THEN NoGrant("gone")
    ELSE LET r == CHOOSE c \in codes : c.id = i
         IN  GrantOf(IF r.used THEN "spent" ELSE "open", r, r.app)
CredGrant(kind, i) ==
    IF i > (IF kind = "token" THEN issued.tokens ELSE issued.keys) THEN NoGrant("none")
    ELSE IF ~Active(kind, i) THEN NoGrant("ended")
    ELSE GrantOf("active", RowById(kind, i),
                 IF kind = "token" THEN RowById(kind, i).app ELSE None)

\* The rows, the exchanges and the clock implement the grants: a code not shared is
\* redeemed once, a token allows what its code did, no step changes what a
\* credential allows or whose it is, and none brings back one that has ended.
Granted == INSTANCE AccessGrants
             WITH Codes <- 1..MaxCodes, Tokens <- TokenIds, Keys <- KeyIds,
                  code <- [i \in 1..MaxCodes |-> CodeGrant(i)],
                  cred <- [x \in TokenIds \cup KeyIds |-> CredGrant(x[1], x[2])]
ImplementsGrants == Granted!Spec

=============================================================================
