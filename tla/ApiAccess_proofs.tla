--------------------------- MODULE ApiAccess_proofs ---------------------------
(***************************************************************************)
(* Proofs about ApiAccess, for any number of users, apps, codes, tokens,    *)
(* keys, overlapping exchanges and overlapping calls.                       *)
(***************************************************************************)
EXTENDS ApiAccess, TLAPS

-----------------------------------------------------------------------------
(* The inductive invariant                                                 *)

\* Ids are given once; an unused code has no token.
CodesOK ==
    \A r \in codes :
        /\ r.id \in 1..issued.codes
        /\ \A s \in codes : s.id = r.id => s = r
        /\ ~r.used => \A t \in tokens : t.code # r.id

TokensOK ==
    \A t \in tokens :
        /\ t.id \in 1..issued.tokens
        /\ t.code \in 1..issued.codes
        /\ \A s \in tokens : s.id = t.id => s = t

KeysOK ==
    \A k \in keys :
        /\ k.id \in 1..issued.keys
        /\ \A s \in keys : s.id = k.id => s = k

\* What an exchange has loaded is still of the same app and user and for the same
\* scopes; while the code is not shared, this exchange alone holds it, it is not
\* used and has no token yet.
ExchangeOK(x) ==
    exchange[x].pc = "code" =>
        /\ exchange[x].code \in Code
        /\ exchange[x].code.id \in 1..issued.codes
        /\ \A r \in codes : r.id = exchange[x].code.id =>
               /\ r.app = exchange[x].code.app /\ r.user = exchange[x].code.user
               /\ r.scopes = exchange[x].code.scopes
        /\ exchange[x].code.id \notin shared =>
               /\ \A r \in codes : r.id = exchange[x].code.id => ~r.used
               /\ \A t \in tokens : t.code # exchange[x].code.id
               /\ \A y \in Exchanges \ {x} : ~HoldsCode(y, exchange[x].code.id)

\* What has ended is not active, and was issued.
EndedOK ==
    \A i : /\ <<"token", i>> \in ended =>
                 i \in 1..issued.tokens /\ \A t \in tokens : t.id = i => ~IsActive(t)
           /\ <<"key", i>> \in ended =>
                 i \in 1..issued.keys /\ \A k \in keys : k.id = i => ~IsActive(k)

Underway(v) == v.pc \in {"loaded", "owner", "allowed"}
CallOK(v) ==
    /\ v.pc # "idle" => v.kind \in {"token", "key"}
    /\ Underway(v) => v.cred \in Credential /\ ~v.dead /\ v.result = "none"
    /\ Underway(v) /\ v.kind = "key" /\ ~v.cut => \E k \in keys : k.id = v.id
    /\ v.dead => v.result \in {"none", "refused"}
    /\ v.result = "error" => v.cut \/ (v.kind = "token" /\ v.endpoint = "me")
CallsOK == \A c \in Calls : CallOK(call[c])

\* Whatever an app can still do for a user who withdrew, it does with a code that
\* was open then.
WithdrawnOK ==
    \A u \in Users, a \in Apps : <<u, a>> \in withdrawn =>
        /\ \A r \in codes : r.user = u /\ r.app = a /\ ~r.used => r.id \in leftover
        /\ \A x \in Exchanges :
             exchange[x].pc = "code" /\ exchange[x].code.user = u /\ exchange[x].code.app = a
               => exchange[x].code.id \in leftover
        /\ \A t \in tokens : t.user = u /\ t.app = a /\ IsActive(t) => t.code \in leftover

AccessInv ==
    /\ TypeOK /\ CodesOK /\ TokensOK /\ KeysOK
    /\ \A x \in Exchanges : ExchangeOK(x)
    /\ EndedOK /\ CallsOK /\ WithdrawnOK
    /\ CodesAreOneTime /\ NothingOutlivesItsOwner

LEMMA BoundsAreNumbers ==
  /\ MaxCodes \in Nat /\ MaxTokens \in Nat /\ MaxKeys \in Nat /\ MaxTime \in Nat
  /\ CodeTTL \in Nat \ {0} /\ TokenTTL \in Nat \ {0}
  /\ Times \subseteq Nat /\ None \notin Times
  /\ \A n \in 0..MaxTime : n + CodeTTL \in Times /\ n + TokenTTL \in Times
  /\ \A n \in 0..MaxTime : n < MaxTime => n + 1 \in Times
  BY ConstantsAssumption DEF Times

-----------------------------------------------------------------------------
(* Calls                                                                   *)

\* A call's own step touches no row and no other call.
LEMMA CallFrame ==
  ASSUME AccessInv, NEW c \in Calls, NEW v \in Call, CallOK(v),
         call' = [call EXCEPT ![c] = v],
         UNCHANGED <<user, app, now, issued, exchange, rowVars, ghostVars>>
  PROVE  AccessInv'
<1>1. UNCHANGED <<user, app, now, codes, tokens, keys, issued, exchange, shared, ended,
                  withdrawn, leftover>>
  BY DEF rowVars, ghostVars
<1>2. /\ call' \in [Calls -> Call] /\ call'[c] = v
      /\ \A d \in Calls \ {c} : call'[d] = call[d]
  BY DEF AccessInv, TypeOK
<1>3. TypeOK'
  BY <1>1, <1>2 DEF AccessInv, TypeOK
<1>4. CallsOK'
  BY <1>1, <1>2 DEF AccessInv, CallsOK, CallOK
<1>5. CodesOK' /\ TokensOK' /\ KeysOK' /\ EndedOK' /\ CodesAreOneTime'
        /\ NothingOutlivesItsOwner'
  BY <1>1 DEF AccessInv, CodesOK, TokensOK, KeysOK, EndedOK, IsActive, CodesAreOneTime,
              NothingOutlivesItsOwner
<1>6. \A x \in Exchanges : ExchangeOK(x)'
  BY <1>1 DEF AccessInv, ExchangeOK, HoldsCode
<1>7. WithdrawnOK'
  BY <1>1 DEF AccessInv, WithdrawnOK, IsActive
<1> QED
  BY <1>3, <1>4, <1>5, <1>6, <1>7 DEF AccessInv

LEMMA NoCallOK == NoCall \in Call /\ CallOK(NoCall)
  BY DEF NoCall, Call, CallOK, Underway

LEMMA LoadCredentialStep ==
  ASSUME AccessInv, NEW c \in Calls, NEW kind \in {"token", "key"}, NEW id,
         NEW e \in Endpoints, LoadCredential(c, kind, id, e)
  PROVE  AccessInv'
<1>0. TypeOK /\ issued.tokens \in Nat /\ issued.keys \in Nat
  BY BoundsAreNumbers DEF AccessInv, TypeOK
<1>1. id \in Nat
  BY <1>0 DEF LoadCredential
<1> DEFINE start == [NoCall EXCEPT !.kind = kind, !.id = id, !.endpoint = e,
                                   !.dead = <<kind, id>> \in ended]
           row == RowById(kind, id)
           on == [start EXCEPT !.pc = "loaded", !.cred = row]
           off == [start EXCEPT !.pc = "done", !.result = "refused"]
<1>2. start \in Call
  <2>1. \A b \in BOOLEAN :
           [NoCall EXCEPT !.kind = kind, !.id = id, !.endpoint = e, !.dead = b] \in Call
    BY <1>1 DEF NoCall, Call
  <2>2. (<<kind, id>> \in ended) \in BOOLEAN
    OBVIOUS
  <2> QED
    BY <2>1, <2>2
<1>2a. /\ start.kind = kind /\ start.id = id
       /\ start.dead = (<<kind, id>> \in ended) /\ start.result = "none"
  BY DEF NoCall
<1>3. CASE Active(kind, id)
  <2>1. row \in RowsById(kind, id)
    BY <1>3 DEF Active, RowById
  <2>2. row \in Credential /\ (kind = "key" => \E k \in keys : k.id = id)
    BY <1>0, <2>1 DEF RowsById, Credential, TypeOK
  <2>3. <<kind, id>> \notin ended
    <3>1. CASE kind = "token"
      BY <1>3, <3>1 DEF Active, RowsById, AccessInv, EndedOK
    <3>2. CASE kind = "key"
      BY <1>3, <3>2 DEF Active, RowsById, AccessInv, EndedOK
    <3> QED
      BY <3>1, <3>2
  <2>4. call' = [call EXCEPT ![c] = on]
    BY <1>3 DEF LoadCredential
  <2> HIDE DEF row, start
  <2>5. on \in Call
    BY <1>2, <2>2 DEF Call
  <2>6. /\ on.pc = "loaded" /\ on.kind = kind /\ on.id = id /\ on.cred = row
        /\ on.dead = start.dead /\ on.result = "none"
    BY <1>2, <1>2a DEF Call
  <2>7. CallOK(on)
    BY <1>2a, <2>2, <2>3, <2>6 DEF CallOK, Underway
  <2> HIDE DEF on
  <2> QED
    BY <2>4, <2>5, <2>7, CallFrame DEF LoadCredential
<1>4. CASE ~Active(kind, id)
  <2>1. call' = [call EXCEPT ![c] = off]
    BY <1>4 DEF LoadCredential
  <2> HIDE DEF start
  <2>2. off \in Call
    BY <1>2 DEF Call
  <2>3. /\ off.pc = "done" /\ off.kind = kind /\ off.result = "refused"
    BY <1>2, <1>2a DEF Call
  <2>4. CallOK(off)
    BY <2>3 DEF CallOK, Underway
  <2> HIDE DEF off
  <2> QED
    BY <2>1, <2>2, <2>4, CallFrame DEF LoadCredential
<1> QED
  BY <1>3, <1>4

\* A call under way gets its answer.
LEMMA OutcomeStep ==
  ASSUME AccessInv, NEW c \in Calls, Underway(call[c]),
         NEW r \in {"ok", "refused", "error"}, Outcome(c, r),
         r = "error" => call[c].cut \/ (call[c].kind = "token" /\ call[c].endpoint = "me"),
         UNCHANGED <<user, app, now, issued, exchange, rowVars, ghostVars>>
  PROVE  AccessInv'
<1>0. call[c] \in Call /\ CallOK(call[c])
  BY DEF AccessInv, TypeOK, CallsOK
<1> DEFINE v == [call[c] EXCEPT !.pc = "done", !.cred = None, !.result = r]
<1>1. call' = [call EXCEPT ![c] = v]
  BY DEF Outcome
<1>2. v \in Call
  BY <1>0 DEF Call
<1>3. /\ v.pc = "done" /\ v.kind = call[c].kind /\ v.dead = call[c].dead /\ v.result = r
      /\ v.cut = call[c].cut /\ v.endpoint = call[c].endpoint
  BY <1>0 DEF Call
<1>4. CallOK(v)
  BY <1>0, <1>3 DEF CallOK, Underway
<1> HIDE DEF v
<1> QED
  BY <1>1, <1>2, <1>4, CallFrame

\* A call under way goes on.
LEMMA OnwardStep ==
  ASSUME AccessInv, NEW c \in Calls, Underway(call[c]), NEW p \in {"owner", "allowed"},
         call' = [call EXCEPT ![c] = [@ EXCEPT !.pc = p]],
         UNCHANGED <<user, app, now, issued, exchange, rowVars, ghostVars>>
  PROVE  AccessInv'
<1>0. call[c] \in Call /\ CallOK(call[c])
  BY DEF AccessInv, TypeOK, CallsOK
<1> DEFINE v == [call[c] EXCEPT !.pc = p]
<1>1. call' = [call EXCEPT ![c] = v]
  OBVIOUS
<1>2. v \in Call
  BY <1>0 DEF Call
<1>3. /\ v.pc = p /\ v.kind = call[c].kind /\ v.dead = call[c].dead
      /\ v.cred = call[c].cred /\ v.id = call[c].id
      /\ v.cut = call[c].cut /\ v.endpoint = call[c].endpoint /\ v.result = call[c].result
  BY <1>0 DEF Call
<1>4. CallOK(v)
  BY <1>0, <1>3 DEF CallOK, Underway
<1> HIDE DEF v
<1> QED
  BY <1>1, <1>2, <1>4, CallFrame

LEMMA AnsweringStep ==
  ASSUME AccessInv, NEW c \in Calls,
         \/ ReadOwner(c) \/ Respond(c) \/ Hangup(c)
         \/ \E s \in Scopes : Authorize(c, s)
  PROVE  AccessInv'
<1>0. CallOK(call[c])
  BY DEF AccessInv, CallsOK
<1>1. CASE ReadOwner(c)
  <2>1. Underway(call[c])
    BY <1>1 DEF ReadOwner, Underway
  <2>2. \/ call' = [call EXCEPT ![c] = [@ EXCEPT !.pc = "owner"]]
        \/ Outcome(c, "refused")
    BY <1>1 DEF ReadOwner
  <2> QED
    BY <1>1, <2>1, <2>2, OnwardStep, OutcomeStep DEF ReadOwner
<1>2. CASE Respond(c)
  <2>1. Underway(call[c]) /\ call[c].kind \in {"token", "key"}
    BY <1>0, <1>2 DEF Respond, Underway, CallOK
  <2>2. \/ call[c].endpoint = "me" /\ call[c].kind # "key" /\ Outcome(c, "error")
        \/ Outcome(c, "ok")
    BY <1>2 DEF Respond, HasPrefix
  <2> QED
    BY <1>2, <2>1, <2>2, OutcomeStep DEF Respond
<1>3. CASE Hangup(c)
  BY <1>3, NoCallOK, CallFrame DEF Hangup
<1>4. ASSUME NEW s \in Scopes, Authorize(c, s) PROVE AccessInv'
  <2>1. Underway(call[c])
    BY <1>4 DEF Authorize, Underway
  <2>2. \/ call[c].kind = "key" /\ RowsById("key", call[c].id) = {} /\ Outcome(c, "error")
        \/ call' = [call EXCEPT ![c] = [@ EXCEPT !.pc = "allowed"]]
        \/ Outcome(c, "refused")
    BY <1>4 DEF Authorize
  <2>3. call[c].kind = "key" /\ RowsById("key", call[c].id) = {} => call[c].cut
    BY <1>0, <2>1 DEF CallOK, RowsById
  <2> QED
    BY <1>4, <2>1, <2>2, <2>3, OnwardStep, OutcomeStep DEF Authorize
<1> QED
  BY <1>1, <1>2, <1>3, <1>4

-----------------------------------------------------------------------------
(* Codes, tokens and keys                                                  *)

\* What ends cuts the open calls and changes nothing else about them.
LEMMA EndKeepsCalls ==
  ASSUME AccessInv, NEW es, End(es),
         \A k \in keys : <<"key", k.id>> \in es \/ \E j \in keys' : j.id = k.id
  PROVE  call' \in [Calls -> Call] /\ CallsOK'
<1>1. ASSUME NEW c \in Calls
      PROVE  call'[c] \in Call /\ CallOK(call[c])'
  <2>1. call[c] \in Call /\ CallOK(call[c])
    BY DEF AccessInv, TypeOK, CallsOK
  <2>2. CASE call[c].pc # "idle" /\ <<call[c].kind, call[c].id>> \in es
    <3>1. call'[c] = [call[c] EXCEPT !.cut = TRUE]
      BY <2>2 DEF End
    <3>2. /\ call'[c] \in Call /\ call'[c].pc = call[c].pc /\ call'[c].kind = call[c].kind
          /\ call'[c].cut /\ call'[c].cred = call[c].cred /\ call'[c].dead = call[c].dead
          /\ call'[c].result = call[c].result /\ call'[c].id = call[c].id
          /\ call'[c].endpoint = call[c].endpoint
      BY <2>1, <3>1 DEF Call
    <3> QED
      BY <2>1, <3>2 DEF CallOK, Underway
  <2>3. CASE ~(call[c].pc # "idle" /\ <<call[c].kind, call[c].id>> \in es)
    <3>1. call'[c] = call[c]
      BY <2>3 DEF End
    <3> QED
      BY <2>1, <2>3, <3>1 DEF CallOK, Underway
  <2> QED
    BY <2>2, <2>3
<1>2. call' = [c \in Calls |-> call'[c]]
  BY DEF End
<1> QED
  BY <1>1, <1>2 DEF CallsOK

\* A step that changes no row and ends nothing: only exchanges, apps, users move.
LEMMA KeysStay ==
  ASSUME AccessInv, UNCHANGED call, \A k \in keys : \E j \in keys' : j.id = k.id
  PROVE  call' \in [Calls -> Call] /\ CallsOK'
  BY DEF AccessInv, TypeOK, CallsOK, CallOK, Underway

LEMMA CreateAppStep ==
  ASSUME AccessInv, NEW a \in Apps, CreateApp(a)
  PROVE  AccessInv'
<1>1. UNCHANGED <<user, now, codes, tokens, keys, issued, exchange, call, shared, ended,
                  withdrawn, leftover>>
  BY DEF CreateApp, rowVars, ghostVars
<1>2. /\ app' \in [Apps -> {"none", "live", "gone"}]
      /\ \A b \in Apps : app[b] = "live" => app'[b] = "live"
  BY DEF CreateApp, AccessInv, TypeOK
<1>3. TypeOK'
  BY <1>1, <1>2 DEF AccessInv, TypeOK
<1>4. NothingOutlivesItsOwner'
  BY <1>1, <1>2 DEF AccessInv, NothingOutlivesItsOwner, TypeOK, Code, Token
<1>5. CodesOK' /\ TokensOK' /\ KeysOK' /\ EndedOK' /\ CodesAreOneTime' /\ CallsOK'
  BY <1>1 DEF AccessInv, CodesOK, TokensOK, KeysOK, EndedOK, IsActive, CodesAreOneTime,
              CallsOK, CallOK, Underway
<1>6. \A x \in Exchanges : ExchangeOK(x)'
  BY <1>1 DEF AccessInv, ExchangeOK, HoldsCode
<1>7. WithdrawnOK'
  BY <1>1 DEF AccessInv, WithdrawnOK, IsActive
<1> QED
  BY <1>3, <1>4, <1>5, <1>6, <1>7 DEF AccessInv

LEMMA GrantStep ==
  ASSUME AccessInv, NEW u \in Users, NEW a \in Apps, NEW ss \in SUBSET Scopes,
         GrantConsent(u, a, ss)
  PROVE  AccessInv'
<1>0. TypeOK /\ issued.codes \in 0..MaxCodes /\ MaxCodes \in Nat
  BY BoundsAreNumbers DEF AccessInv, TypeOK
<1>1. PICK new \in Code : /\ codes' = codes \cup {new} /\ new.id = issued.codes + 1
                          /\ new.app = a /\ new.user = u
  <2> DEFINE r == [id |-> issued.codes + 1, app |-> a, user |-> u, scopes |-> ss,
                   expires |-> Expiry(CodeTTL), used |-> FALSE]
  <2>1. Expiry(CodeTTL) \in Times
    BY <1>0, BoundsAreNumbers DEF Expiry, TypeOK
  <2>2. r \in Code
    BY <1>0, <2>1 DEF Code, GrantConsent
  <2> QED
    BY <2>2 DEF GrantConsent
<1>2. /\ UNCHANGED <<user, app, now, tokens, keys, exchange, call, shared, ended, leftover>>
      /\ withdrawn' = withdrawn \ {<<u, a>>}
      /\ u \in user /\ app[a] = "live"
  BY DEF GrantConsent
<1>3. /\ issued' \in [codes: 0..MaxCodes, tokens: 0..MaxTokens, keys: 0..MaxKeys]
      /\ issued'.codes = issued.codes + 1
      /\ issued'.tokens = issued.tokens /\ issued'.keys = issued.keys
  BY <1>0 DEF GrantConsent, TypeOK
<1>4. TypeOK'
  BY <1>0, <1>1, <1>2, <1>3 DEF TypeOK
<1>5. \A i \in 1..issued.codes : i \in 1..issued'.codes /\ i # new.id
  BY <1>0, <1>1, <1>3
<1>6. new.id \in 1..issued'.codes
  BY <1>0, <1>1, <1>3
<1>7. CodesOK'
  BY <1>1, <1>2, <1>5, <1>6 DEF AccessInv, CodesOK, TokensOK
<1>8. TokensOK' /\ KeysOK' /\ EndedOK' /\ CodesAreOneTime' /\ CallsOK'
  BY <1>2, <1>3, <1>5 DEF AccessInv, TokensOK, KeysOK, EndedOK, IsActive, CodesAreOneTime,
              CallsOK, CallOK, Underway
<1>9. \A x \in Exchanges : ExchangeOK(x)'
  BY <1>1, <1>2, <1>5 DEF AccessInv, ExchangeOK, HoldsCode
<1>10. WithdrawnOK'
  BY <1>1, <1>2 DEF AccessInv, WithdrawnOK, IsActive
<1>11. NothingOutlivesItsOwner'
  BY <1>1, <1>2 DEF AccessInv, NothingOutlivesItsOwner
<1> QED
  BY <1>4, <1>7, <1>8, <1>9, <1>10, <1>11 DEF AccessInv

LEMMA CreateKeyStep ==
  ASSUME AccessInv, NEW u \in Users, NEW ss \in SUBSET Scopes,
         NEW e \in {None, now + 1}, CreateKey(u, ss, e)
  PROVE  AccessInv'
<1>0. TypeOK /\ issued.keys \in 0..MaxKeys /\ MaxKeys \in Nat
  BY BoundsAreNumbers DEF AccessInv, TypeOK
<1>1. PICK new \in Key : keys' = keys \cup {new} /\ new.id = issued.keys + 1 /\ new.user = u
  <2> DEFINE r == [id |-> issued.keys + 1, user |-> u, scopes |-> ss,
                   expires |-> e, revoked |-> FALSE]
  <2>1. now + 1 \in Times
    BY <1>0, BoundsAreNumbers DEF TypeOK, Times
  <2>2. r \in Key
    BY <1>0, <2>1 DEF Key, CreateKey
  <2> QED
    BY <2>2 DEF CreateKey
<1>2. /\ UNCHANGED <<user, app, now, codes, tokens, exchange, call, shared, ended, leftover,
                     withdrawn>>
      /\ u \in user
  BY DEF CreateKey, ghostVars
<1>3. /\ issued' \in [codes: 0..MaxCodes, tokens: 0..MaxTokens, keys: 0..MaxKeys]
      /\ issued'.codes = issued.codes
      /\ issued'.tokens = issued.tokens /\ issued'.keys = issued.keys + 1
  BY <1>0 DEF CreateKey, TypeOK
<1>4. TypeOK'
  BY <1>0, <1>1, <1>2, <1>3 DEF TypeOK
<1>5. /\ \A i \in 1..issued.keys : i \in 1..issued'.keys /\ i # new.id
      /\ new.id \in 1..issued'.keys
  BY <1>0, <1>1, <1>3
<1>6. CodesOK' /\ TokensOK' /\ CodesAreOneTime'
  BY <1>2, <1>3 DEF AccessInv, CodesOK, TokensOK, CodesAreOneTime
<1>7. KeysOK' /\ EndedOK'
  BY <1>1, <1>2, <1>3, <1>5 DEF AccessInv, KeysOK, EndedOK, IsActive
<1>8. CallsOK'
  BY <1>1, <1>2, KeysStay
<1>9. \A x \in Exchanges : ExchangeOK(x)'
  BY <1>2, <1>3 DEF AccessInv, ExchangeOK, HoldsCode
<1>10. WithdrawnOK' /\ NothingOutlivesItsOwner'
  BY <1>1, <1>2 DEF AccessInv, WithdrawnOK, IsActive, NothingOutlivesItsOwner
<1> QED
  BY <1>4, <1>6, <1>7, <1>8, <1>9, <1>10 DEF AccessInv

-----------------------------------------------------------------------------
(* Exchanges                                                               *)

LEMMA NoExchangeOK == NoExchange \in Exchange /\ NoExchange.pc = "idle"
  BY DEF NoExchange, Exchange

LEMMA LoadCodeStep ==
  ASSUME AccessInv, NEW x \in Exchanges, NEW r \in codes, LoadCode(x, r)
  PROVE  AccessInv'
<1>0. TypeOK /\ r \in Code /\ r.id \in 1..issued.codes /\ ~r.used
        /\ (\A t \in tokens : t.code # r.id)
  BY DEF AccessInv, TypeOK, CodesOK, LoadCode, Redeemable
<1>1. UNCHANGED <<user, app, now, codes, tokens, keys, issued, call, ended, withdrawn, leftover>>
  BY DEF LoadCode, rowVars
<1>2. /\ exchange' \in [Exchanges -> Exchange]
      /\ exchange'[x].pc = "code" /\ exchange'[x].code = r
      /\ \A y \in Exchanges \ {x} : exchange'[y] = exchange[y]
  <2>1. [pc |-> "code", code |-> r] \in Exchange
    BY <1>0 DEF Exchange
  <2> QED
    BY <1>0, <2>1 DEF LoadCode, TypeOK
<1>3. /\ shared \subseteq shared' /\ shared' \subseteq shared \cup {r.id}
      /\ (\E y \in Exchanges \ {x} : HoldsCode(y, r.id)) => r.id \in shared'
  BY DEF LoadCode
<1>4. r.id \in 1..MaxCodes
  BY <1>0 DEF Code
<1>5. TypeOK'
  BY <1>0, <1>1, <1>2, <1>3, <1>4 DEF TypeOK
<1>6. CodesOK' /\ TokensOK' /\ KeysOK' /\ EndedOK' /\ CallsOK' /\ NothingOutlivesItsOwner'
  BY <1>1 DEF AccessInv, CodesOK, TokensOK, KeysOK, EndedOK, IsActive, CallsOK, CallOK,
              Underway, NothingOutlivesItsOwner
<1>7. CodesAreOneTime'
  BY <1>1, <1>3 DEF AccessInv, CodesAreOneTime
<1>8. ExchangeOK(x)'
  <2>1. \A s \in codes : s.id = r.id => s = r
    BY DEF AccessInv, CodesOK
  <2>2. r.id \notin shared' => \A y \in Exchanges \ {x} : ~HoldsCode(y, r.id)'
    BY <1>2, <1>3 DEF HoldsCode
  <2> QED
    BY <1>0, <1>1, <1>2, <2>1, <2>2 DEF ExchangeOK
<1>9. ASSUME NEW y \in Exchanges \ {x} PROVE ExchangeOK(y)'
  <2>1. ExchangeOK(y) /\ exchange'[y] = exchange[y]
    BY <1>2 DEF AccessInv
  <2>2. ASSUME exchange[y].pc = "code", exchange[y].code.id \notin shared',
               NEW z \in Exchanges \ {y}
        PROVE  ~HoldsCode(z, exchange[y].code.id)'
    <3>1. CASE z = x
      BY <1>2, <1>3, <2>1, <2>2, <3>1 DEF HoldsCode
    <3>2. CASE z # x
      BY <1>2, <1>3, <2>1, <2>2, <3>2 DEF HoldsCode, ExchangeOK
    <3> QED
      BY <3>1, <3>2
  <2> QED
    BY <1>1, <1>3, <2>1, <2>2 DEF ExchangeOK
<1>10. WithdrawnOK'
  <2>1. ASSUME NEW u \in Users, NEW a \in Apps, <<u, a>> \in withdrawn,
               NEW y \in Exchanges, exchange'[y].pc = "code",
               exchange'[y].code.user = u, exchange'[y].code.app = a
        PROVE  exchange'[y].code.id \in leftover
    <3>1. CASE y = x
      BY <1>0, <1>2, <2>1, <3>1 DEF AccessInv, WithdrawnOK
    <3>2. CASE y # x
      BY <1>2, <2>1, <3>2 DEF AccessInv, WithdrawnOK
    <3> QED
      BY <3>1, <3>2
  <2> QED
    BY <1>1, <2>1 DEF AccessInv, WithdrawnOK, IsActive
<1> QED
  BY <1>5, <1>6, <1>7, <1>8, <1>9, <1>10 DEF AccessInv

LEMMA ExchangeFailsStep ==
  ASSUME AccessInv, NEW x \in Exchanges, ExchangeFails(x)
  PROVE  AccessInv'
<1>1. UNCHANGED <<user, app, now, codes, tokens, keys, issued, call, shared, ended,
                  withdrawn, leftover>>
  BY DEF ExchangeFails, rowVars, ghostVars
<1>2. /\ exchange' \in [Exchanges -> Exchange]
      /\ exchange'[x].pc = "idle"
      /\ \A y \in Exchanges \ {x} : exchange'[y] = exchange[y]
  BY NoExchangeOK DEF ExchangeFails, AccessInv, TypeOK
<1>3. TypeOK'
  BY <1>1, <1>2 DEF AccessInv, TypeOK
<1>4. CodesOK' /\ TokensOK' /\ KeysOK' /\ EndedOK' /\ CallsOK' /\ NothingOutlivesItsOwner'
        /\ CodesAreOneTime'
  BY <1>1 DEF AccessInv, CodesOK, TokensOK, KeysOK, EndedOK, IsActive, CallsOK, CallOK,
              Underway, NothingOutlivesItsOwner, CodesAreOneTime
<1>5. \A y \in Exchanges : ExchangeOK(y)'
  BY <1>1, <1>2 DEF AccessInv, ExchangeOK, HoldsCode
<1>6. WithdrawnOK'
  BY <1>1, <1>2 DEF AccessInv, WithdrawnOK, IsActive
<1> QED
  BY <1>3, <1>4, <1>5, <1>6 DEF AccessInv

LEMMA CommitExchangeStep ==
  ASSUME AccessInv, NEW x \in Exchanges, CommitExchange(x)
  PROVE  AccessInv'
<1> DEFINE code == exchange[x].code
           Used(r) == IF r.id = code.id THEN [r EXCEPT !.used = TRUE] ELSE r
<1>0. /\ TypeOK /\ exchange[x].pc = "code" /\ ExchangeOK(x)
      /\ issued.tokens \in 0..MaxTokens /\ issued.tokens < MaxTokens /\ MaxTokens \in Nat
  BY BoundsAreNumbers DEF AccessInv, TypeOK, CommitExchange
<1>1. code \in Code /\ code.id \in 1..issued.codes
  BY <1>0 DEF ExchangeOK
<1>2. PICK r0 \in codes : r0.id = code.id
  BY DEF CommitExchange, StillThere
<1>3. /\ r0.app = code.app /\ r0.user = code.user
      /\ code.app \in Apps /\ app[code.app] = "live"
      /\ code.user \in Users /\ code.user \in user
  BY <1>0, <1>1, <1>2 DEF ExchangeOK, AccessInv, NothingOutlivesItsOwner, Code
<1>4. PICK new \in Token : /\ tokens' = tokens \cup {new} /\ new.id = issued.tokens + 1
                           /\ new.app = code.app /\ new.user = code.user
                           /\ new.code = code.id
  <2> DEFINE t == [id |-> issued.tokens + 1, app |-> code.app, user |-> code.user,
                   scopes |-> code.scopes, expires |-> Expiry(TokenTTL), revoked |-> FALSE,
                   code |-> code.id]
  <2>1. Expiry(TokenTTL) \in Times
    BY <1>0, BoundsAreNumbers DEF Expiry, TypeOK
  <2>2. t \in Token
    BY <1>0, <1>1, <2>1 DEF Code, Token
  <2> QED
    BY <2>2 DEF CommitExchange
<1>5. /\ UNCHANGED <<user, app, now, keys, call, shared, ended, withdrawn, leftover>>
      /\ codes' = {Used(r) : r \in codes}
  BY DEF CommitExchange, ghostVars, MarkUsed
<1>6. /\ exchange' \in [Exchanges -> Exchange]
      /\ exchange'[x].pc = "idle"
      /\ \A y \in Exchanges \ {x} : exchange'[y] = exchange[y]
  BY <1>0, NoExchangeOK DEF CommitExchange, TypeOK
<1>7. /\ issued' \in [codes: 0..MaxCodes, tokens: 0..MaxTokens, keys: 0..MaxKeys]
      /\ issued'.codes = issued.codes /\ issued'.keys = issued.keys
      /\ issued'.tokens = issued.tokens + 1
  BY <1>0 DEF CommitExchange, TypeOK
<1>8. /\ \A i \in 1..issued.tokens : i \in 1..issued'.tokens /\ i # new.id
      /\ new.id \in 1..issued'.tokens
  BY <1>0, <1>4, <1>7
<1>9. ASSUME NEW s \in codes'
      PROVE  \E r \in codes : /\ s \in Code /\ s.id = r.id /\ s.app = r.app
                              /\ s.user = r.user /\ s.scopes = r.scopes
                              /\ ~s.used => ~r.used /\ r.id # code.id
                              /\ s.used => r.used \/ r.id = code.id
                              /\ \A q \in codes' : q.id = s.id => q = s
  <2>1. PICK r \in codes : s = Used(r)
    BY <1>5
  <2>2. r \in Code
    BY <1>0 DEF TypeOK
  <2>3. /\ s \in Code /\ s.id = r.id /\ s.app = r.app /\ s.user = r.user
        /\ s.scopes = r.scopes
    BY <2>1, <2>2 DEF Code
  <2>4. /\ ~s.used => ~r.used /\ r.id # code.id
        /\ s.used => r.used \/ r.id = code.id
    BY <2>1, <2>2 DEF Code
  <2>5. ASSUME NEW q \in codes', q.id = s.id PROVE q = s
    <3>1. PICK p \in codes : q = Used(p)
      BY <1>5
    <3>2. p \in Code
      BY <1>0 DEF TypeOK
    <3>3. p.id = r.id
      BY <2>3, <2>5, <3>1, <3>2 DEF Code
    <3> QED
      BY <2>1, <3>1, <3>3 DEF AccessInv, CodesOK
  <2> QED
    BY <2>3, <2>4, <2>5
<1> HIDE DEF Used
<1>10. TypeOK'
  BY <1>0, <1>4, <1>5, <1>6, <1>7, <1>9 DEF TypeOK
<1>11. CodesOK'
  <2>1. ASSUME NEW s \in codes'
        PROVE  /\ s.id \in 1..issued.codes
               /\ \A p \in codes' : p.id = s.id => p = s
               /\ ~s.used => \A t \in tokens \cup {new} : t.code # s.id
    BY <1>4, <1>9 DEF AccessInv, CodesOK
  <2> QED
    BY <1>4, <1>7, <2>1 DEF CodesOK
<1>12. TokensOK'
  BY <1>1, <1>4, <1>7, <1>8 DEF AccessInv, TokensOK
<1>13. KeysOK' /\ EndedOK' /\ CallsOK'
  BY <1>4, <1>5, <1>7, <1>8 DEF AccessInv, KeysOK, EndedOK, IsActive, CallsOK, CallOK, Underway
<1>14. CodesAreOneTime'
  BY <1>0, <1>4, <1>5 DEF AccessInv, CodesAreOneTime, ExchangeOK
<1>15. NothingOutlivesItsOwner'
  BY <1>3, <1>4, <1>5, <1>9 DEF AccessInv, NothingOutlivesItsOwner
<1>16. ASSUME NEW y \in Exchanges PROVE ExchangeOK(y)'
  <2>1. CASE y = x
    BY <1>6, <2>1 DEF ExchangeOK
  <2>2. CASE y # x
    <3>1. ExchangeOK(y) /\ exchange'[y] = exchange[y]
      BY <1>6, <2>2 DEF AccessInv
    <3>2. exchange[y].pc = "code" /\ exchange[y].code.id \notin shared =>
             exchange[y].code.id # code.id
      BY <1>0, <2>2, <3>1 DEF ExchangeOK, HoldsCode
    <3> QED
      BY <1>4, <1>5, <1>6, <1>7, <1>9, <3>1, <3>2 DEF ExchangeOK, HoldsCode
  <2> QED
    BY <2>1, <2>2
<1>17. WithdrawnOK'
  <2> SUFFICES ASSUME NEW u \in Users, NEW a \in Apps, <<u, a>> \in withdrawn
               PROVE  /\ \A r \in codes' : r.user = u /\ r.app = a /\ ~r.used
                                              => r.id \in leftover
                      /\ \A y \in Exchanges :
                           exchange'[y].pc = "code" /\ exchange'[y].code.user = u
                             /\ exchange'[y].code.app = a
                             => exchange'[y].code.id \in leftover
                      /\ \A t \in tokens' : t.user = u /\ t.app = a /\ IsActive(t)
                                              => t.code \in leftover
    BY <1>5 DEF WithdrawnOK, IsActive
  <2>1. WithdrawnOK
    BY DEF AccessInv
  <2>2. \A q \in codes' : q.user = u /\ q.app = a /\ ~q.used => q.id \in leftover
    BY <1>9, <2>1 DEF WithdrawnOK
  <2>3. \A y \in Exchanges : exchange'[y].pc = "code" /\ exchange'[y].code.user = u
                                /\ exchange'[y].code.app = a
                                => exchange'[y].code.id \in leftover
    BY <1>6, <2>1 DEF WithdrawnOK
  <2>4. new.user = u /\ new.app = a => new.code \in leftover
    BY <1>0, <1>4, <2>1 DEF WithdrawnOK
  <2>5. \A t \in tokens : t.user = u /\ t.app = a /\ IsActive(t) => t.code \in leftover
    BY <2>1 DEF WithdrawnOK
  <2> QED
    BY <1>4, <1>5, <2>2, <2>3, <2>4, <2>5
<1> QED
  BY <1>10, <1>11, <1>12, <1>13, <1>14, <1>15, <1>16, <1>17 DEF AccessInv

-----------------------------------------------------------------------------
(* Endings                                                                 *)

\* Rows that go: with an app, with a user, with a user's own apps.
LEMMA CascadeStep ==
  ASSUME AccessInv, NEW as \in SUBSET Apps, NEW us \in SUBSET Users, Cascade(as, us),
         user' = user \ us,
         app' \in [Apps -> {"none", "live", "gone"}],
         \A a \in Apps \ as : app'[a] = app[a],
         UNCHANGED <<now, issued, exchange, shared, withdrawn, leftover>>
  PROVE  AccessInv'
<1>0. TypeOK
  BY DEF AccessInv
<1>1. /\ codes' = {r \in codes : r.app \notin as /\ r.user \notin us}
      /\ tokens' = {r \in tokens : r.app \notin as /\ r.user \notin us}
      /\ keys' = {r \in keys : r.user \notin us}
  BY DEF Cascade
<1> DEFINE es == AllOf("token", tokens \ tokens') \cup AllOf("key", keys \ keys')
<1>2. End(es) /\ ended' = ended \cup es
  BY DEF Cascade, End
<1>3. /\ \A i : <<"token", i>> \in es <=> \E t \in tokens \ tokens' : t.id = i
      /\ \A i : <<"key", i>> \in es <=> \E k \in keys \ keys' : k.id = i
  BY DEF AllOf
<1>4. es \subseteq ({"token"} \X (1..MaxTokens)) \cup ({"key"} \X (1..MaxKeys))
  BY <1>0 DEF AllOf, TypeOK, Token, Key
<1> HIDE DEF es
<1>5. call' \in [Calls -> Call] /\ CallsOK'
  BY <1>2, <1>3, EndKeepsCalls
<1>6. TypeOK'
  BY <1>0, <1>1, <1>2, <1>4, <1>5 DEF TypeOK
<1>7. CodesOK' /\ TokensOK' /\ KeysOK' /\ CodesAreOneTime'
  BY <1>1 DEF AccessInv, CodesOK, TokensOK, KeysOK, CodesAreOneTime
<1>8. EndedOK'
  <2>1. ASSUME NEW i, <<"token", i>> \in ended'
        PROVE  i \in 1..issued.tokens /\ \A t \in tokens' : t.id = i => ~IsActive(t)
    <3>1. CASE <<"token", i>> \in ended
      BY <1>1, <3>1 DEF AccessInv, EndedOK
    <3>2. CASE <<"token", i>> \in es
      <4>1. PICK s \in tokens \ tokens' : s.id = i
        BY <1>3, <3>2
      <4> QED
        BY <1>1, <4>1 DEF AccessInv, TokensOK
    <3> QED
      BY <1>2, <2>1, <3>1, <3>2
  <2>2. ASSUME NEW i, <<"key", i>> \in ended'
        PROVE  i \in 1..issued.keys /\ \A k \in keys' : k.id = i => ~IsActive(k)
    <3>1. CASE <<"key", i>> \in ended
      BY <1>1, <3>1 DEF AccessInv, EndedOK
    <3>2. CASE <<"key", i>> \in es
      <4>1. PICK s \in keys \ keys' : s.id = i
        BY <1>3, <3>2
      <4> QED
        BY <1>1, <4>1 DEF AccessInv, KeysOK
    <3> QED
      BY <1>2, <2>2, <3>1, <3>2
  <2> QED
    BY <2>1, <2>2 DEF EndedOK, IsActive
<1>9. \A x \in Exchanges : ExchangeOK(x)'
  BY <1>1 DEF AccessInv, ExchangeOK, HoldsCode
<1>10. WithdrawnOK'
  BY <1>1 DEF AccessInv, WithdrawnOK, IsActive
<1>11. NothingOutlivesItsOwner'
  BY <1>0, <1>1 DEF AccessInv, NothingOutlivesItsOwner, TypeOK, Code, Token
<1> QED
  BY <1>5, <1>6, <1>7, <1>8, <1>9, <1>10, <1>11 DEF AccessInv

LEMMA DeletionStep ==
  ASSUME AccessInv,
         \/ \E a \in Apps : DeleteApp(a)
         \/ \E u \in Users : DeleteUser(u)
  PROVE  AccessInv'
<1>1. ASSUME NEW a \in Apps, DeleteApp(a) PROVE AccessInv'
  <2>1. /\ app' \in [Apps -> {"none", "live", "gone"}]
        /\ \A b \in Apps \ {a} : app'[b] = app[b]
    BY <1>1 DEF DeleteApp, AccessInv, TypeOK
  <2>2. user' = user \ {}
    BY <1>1 DEF DeleteApp
  <2> QED
    BY <1>1, <2>1, <2>2, CascadeStep DEF DeleteApp
<1>2. ASSUME NEW u \in Users, DeleteUser(u) PROVE AccessInv'
  <2> DEFINE as == {a \in Apps : app[a] = "live" /\ OwnerOf[a] = u}
  <2>1. /\ app' \in [Apps -> {"none", "live", "gone"}]
        /\ \A b \in Apps \ as : app'[b] = app[b]
    BY <1>2 DEF DeleteUser, AccessInv, TypeOK
  <2>2. /\ Cascade(as, {u}) /\ user' = user \ {u}
        /\ UNCHANGED <<now, issued, exchange, shared, withdrawn, leftover>>
    BY <1>2 DEF DeleteUser
  <2>3. as \in SUBSET Apps
    OBVIOUS
  <2> HIDE DEF as
  <2> QED
    BY <2>1, <2>2, <2>3, CascadeStep
<1> QED
  BY <1>1, <1>2

LEMMA RevokeKeyStep ==
  ASSUME AccessInv, NEW k \in keys, RevokeKey(k)
  PROVE  AccessInv'
<1>0. TypeOK /\ k \in Key
  BY DEF AccessInv, TypeOK
<1>1. PICK j \in Key : /\ keys' = (keys \ {k}) \cup {j} /\ j.id = k.id /\ j.user = k.user
                       /\ j.revoked
  <2>1. [k EXCEPT !.revoked = TRUE] \in Key
    BY <1>0 DEF Key
  <2> QED
    BY <1>0, <2>1 DEF RevokeKey, Key
<1>2. /\ UNCHANGED <<user, app, now, codes, tokens, issued, exchange, shared, withdrawn,
                     leftover>>
      /\ End({<<"key", k.id>>}) /\ ended' = ended \cup {<<"key", k.id>>}
  BY DEF RevokeKey, End
<1>3. call' \in [Calls -> Call] /\ CallsOK'
  BY <1>1, <1>2, EndKeepsCalls
<1>4. TypeOK'
  BY <1>0, <1>1, <1>2, <1>3 DEF TypeOK, Key
<1>5. CodesOK' /\ TokensOK' /\ CodesAreOneTime' /\ WithdrawnOK'
  BY <1>2 DEF AccessInv, CodesOK, TokensOK, CodesAreOneTime, WithdrawnOK, IsActive
<1>6. KeysOK'
  BY <1>1, <1>2 DEF AccessInv, KeysOK
<1>7. EndedOK'
  <2>1. ASSUME NEW i, <<"key", i>> \in ended'
        PROVE  i \in 1..issued.keys /\ \A s \in keys' : s.id = i => ~IsActive(s)
    BY <1>1, <1>2, <2>1 DEF AccessInv, EndedOK, KeysOK, IsActive
  <2>2. ASSUME NEW i, <<"token", i>> \in ended' PROVE <<"token", i>> \in ended
    BY <1>2, <2>2
  <2> QED
    BY <1>2, <2>1, <2>2 DEF AccessInv, EndedOK, IsActive
<1>8. \A x \in Exchanges : ExchangeOK(x)'
  BY <1>2 DEF AccessInv, ExchangeOK, HoldsCode
<1>9. NothingOutlivesItsOwner'
  BY <1>1, <1>2 DEF AccessInv, NothingOutlivesItsOwner
<1> QED
  BY <1>3, <1>4, <1>5, <1>6, <1>7, <1>8, <1>9 DEF AccessInv

LEMMA TickStep ==
  ASSUME AccessInv, Tick
  PROVE  AccessInv'
<1>0. TypeOK /\ now \in Nat /\ now + 1 \in 0..MaxTime /\ now' = now + 1
  BY BoundsAreNumbers DEF AccessInv, TypeOK, Tick
<1> DEFINE es == AllOf("token", {t \in tokens : t.expires = now + 1})
                  \cup AllOf("key", {k \in keys : k.expires = now + 1})
<1>1. /\ UNCHANGED <<user, app, codes, tokens, keys, issued, exchange, shared, withdrawn,
                     leftover>>
      /\ End(es) /\ ended' = ended \cup es
  BY DEF Tick, End, rowVars
<1>2. /\ \A i : <<"token", i>> \in es <=> \E t \in tokens : t.expires = now + 1 /\ t.id = i
      /\ \A i : <<"key", i>> \in es <=> \E k \in keys : k.expires = now + 1 /\ k.id = i
  BY DEF AllOf
<1>3. es \subseteq ({"token"} \X (1..MaxTokens)) \cup ({"key"} \X (1..MaxKeys))
  BY <1>0 DEF AllOf, TypeOK, Token, Key
<1> HIDE DEF es
<1>4. call' \in [Calls -> Call] /\ CallsOK'
  BY <1>1, EndKeepsCalls
<1>5. TypeOK'
  BY <1>0, <1>1, <1>3, <1>4 DEF TypeOK
<1>6. ASSUME NEW t \in tokens \cup keys PROVE IsActive(t)' => IsActive(t)
  <2>1. t.expires \in Nat \cup {None}
    BY <1>0, BoundsAreNumbers DEF TypeOK, Token, Key
  <2> QED
    BY <1>0, <2>1, ConstantsAssumption DEF IsActive
<1>7. ASSUME NEW t \in tokens \cup keys, t.expires = now + 1 PROVE ~IsActive(t)'
  BY <1>0, <1>7, ConstantsAssumption DEF IsActive
<1>8. CodesOK' /\ TokensOK' /\ KeysOK' /\ CodesAreOneTime' /\ NothingOutlivesItsOwner'
  BY <1>1 DEF AccessInv, CodesOK, TokensOK, KeysOK, CodesAreOneTime, NothingOutlivesItsOwner
<1>9. EndedOK'
  <2>1. ASSUME NEW i, <<"token", i>> \in ended'
        PROVE  i \in 1..issued.tokens /\ \A t \in tokens : t.id = i => ~IsActive(t)'
    <3>1. CASE <<"token", i>> \in ended
      BY <1>6, <3>1 DEF AccessInv, EndedOK
    <3>2. CASE <<"token", i>> \in es
      <4>1. PICK s \in tokens : s.expires = now + 1 /\ s.id = i
        BY <1>2, <3>2
      <4> QED
        BY <1>7, <4>1 DEF AccessInv, TokensOK
    <3> QED
      BY <1>1, <2>1, <3>1, <3>2
  <2>2. ASSUME NEW i, <<"key", i>> \in ended'
        PROVE  i \in 1..issued.keys /\ \A k \in keys : k.id = i => ~IsActive(k)'
    <3>1. CASE <<"key", i>> \in ended
      BY <1>6, <3>1 DEF AccessInv, EndedOK
    <3>2. CASE <<"key", i>> \in es
      <4>1. PICK s \in keys : s.expires = now + 1 /\ s.id = i
        BY <1>2, <3>2
      <4> QED
        BY <1>7, <4>1 DEF AccessInv, KeysOK
    <3> QED
      BY <1>1, <2>2, <3>1, <3>2
  <2> QED
    BY <1>1, <2>1, <2>2 DEF EndedOK
<1>10. \A x \in Exchanges : ExchangeOK(x)'
  BY <1>1 DEF AccessInv, ExchangeOK, HoldsCode
<1>11. WithdrawnOK'
  BY <1>1, <1>6 DEF AccessInv, WithdrawnOK
<1> QED
  BY <1>4, <1>5, <1>8, <1>9, <1>10, <1>11 DEF AccessInv

LEMMA RevokeGrantStep ==
  ASSUME AccessInv, NEW u \in Users, NEW t \in tokens, RevokeGrant(u, t)
  PROVE  AccessInv'
<1>0. TypeOK /\ t \in Token /\ t.user = u /\ t.app \in Apps
  BY DEF AccessInv, TypeOK, RevokeGrant, Token
<1>1. PICK j \in Token : /\ tokens' = (tokens \ {t}) \cup {j} /\ j.id = t.id /\ j.revoked
                         /\ j.user = t.user /\ j.app = t.app /\ j.code = t.code
  <2>1. [t EXCEPT !.revoked = TRUE] \in Token
    BY <1>0 DEF Token
  <2> QED
    BY <1>0, <2>1 DEF RevokeGrant, Token
<1>2. /\ UNCHANGED <<user, app, now, codes, keys, issued, exchange, shared>>
      /\ End({<<"token", t.id>>}) /\ ended' = ended \cup {<<"token", t.id>>}
  BY DEF RevokeGrant, End
<1>3. call' \in [Calls -> Call] /\ CallsOK'
  BY <1>2, EndKeepsCalls
<1>4. \/ UNCHANGED <<withdrawn, leftover>>
      \/ /\ GrantsTo(u, t.app) \subseteq {t}
         /\ withdrawn' = withdrawn \cup {<<u, t.app>>}
         /\ leftover' = leftover \cup Open(u, t.app)
              \cup {exchange[x].code.id : x \in {y \in Exchanges :
                      /\ exchange[y].pc = "code" /\ exchange[y].code.user = u
                      /\ exchange[y].code.app = t.app}}
  BY DEF RevokeGrant
<1>5. leftover \subseteq leftover' /\ leftover' \subseteq 1..MaxCodes
  <2>1. Open(u, t.app) \subseteq 1..MaxCodes
    BY <1>0 DEF Open, TypeOK, Code
  <2>2. \A x \in Exchanges : exchange[x].pc = "code" => exchange[x].code.id \in 1..MaxCodes
    BY DEF AccessInv, ExchangeOK, Code
  <2> QED
    BY <1>0, <1>4, <2>1, <2>2 DEF TypeOK
<1>6. withdrawn' \subseteq Users \X Apps
  BY <1>0, <1>4 DEF TypeOK
<1>7. t.id \in 1..MaxTokens
  BY <1>0 DEF Token
<1>8. TypeOK'
  BY <1>0, <1>1, <1>2, <1>3, <1>5, <1>6, <1>7 DEF TypeOK
<1>9. CodesOK' /\ TokensOK' /\ KeysOK'
  BY <1>1, <1>2 DEF AccessInv, CodesOK, TokensOK, KeysOK
<1>10. CodesAreOneTime'
  BY <1>1, <1>2 DEF AccessInv, CodesAreOneTime
<1>11. EndedOK'
  <2>1. ASSUME NEW i, <<"token", i>> \in ended'
        PROVE  i \in 1..issued.tokens /\ \A s \in tokens' : s.id = i => ~IsActive(s)
    <3>1. CASE <<"token", i>> \in ended
      BY <1>1, <3>1 DEF AccessInv, EndedOK, IsActive
    <3>2. CASE i = t.id
      BY <1>1, <3>2 DEF AccessInv, TokensOK, IsActive
    <3> QED
      BY <1>2, <2>1, <3>1, <3>2
  <2>2. ASSUME NEW i, <<"key", i>> \in ended' PROVE <<"key", i>> \in ended
    BY <1>2, <2>2
  <2> QED
    BY <1>2, <2>1, <2>2 DEF AccessInv, EndedOK, IsActive
<1>12. \A x \in Exchanges : ExchangeOK(x)'
  BY <1>1, <1>2 DEF AccessInv, ExchangeOK, HoldsCode
<1>13. NothingOutlivesItsOwner'
  BY <1>1, <1>2 DEF AccessInv, NothingOutlivesItsOwner
<1>14. ASSUME NEW v \in Users, NEW a \in Apps, <<v, a>> \in withdrawn'
       PROVE  /\ \A r \in codes : r.user = v /\ r.app = a /\ ~r.used => r.id \in leftover'
              /\ \A x \in Exchanges :
                   exchange[x].pc = "code" /\ exchange[x].code.user = v
                     /\ exchange[x].code.app = a => exchange[x].code.id \in leftover'
              /\ \A s \in tokens' : s.user = v /\ s.app = a /\ IsActive(s)
                                      => s.code \in leftover'
  <2>1. CASE <<v, a>> \in withdrawn
    BY <1>1, <1>5, <2>1 DEF AccessInv, WithdrawnOK, IsActive
  <2>2. CASE <<v, a>> \notin withdrawn
    <3>1. v = u /\ a = t.app /\ GrantsTo(u, t.app) \subseteq {t}
      BY <1>4, <1>14, <2>2
    <3>2. \A r \in codes : r.user = v /\ r.app = a /\ ~r.used => r.id \in leftover'
      BY <1>4, <1>14, <2>2, <3>1 DEF Open
    <3>3. \A x \in Exchanges :
            exchange[x].pc = "code" /\ exchange[x].code.user = v /\ exchange[x].code.app = a
              => exchange[x].code.id \in leftover'
      BY <1>4, <1>14, <2>2, <3>1
    <3>4. \A s \in tokens' : s.user = v /\ s.app = a => ~IsActive(s)
      BY <1>1, <3>1 DEF GrantsTo, Grants, IsActive
    <3> QED
      BY <3>2, <3>3, <3>4
  <2> QED
    BY <2>1, <2>2
<1>15. WithdrawnOK'
  BY <1>2, <1>14 DEF WithdrawnOK, IsActive
<1> QED
  BY <1>3, <1>8, <1>9, <1>10, <1>11, <1>12, <1>13, <1>15 DEF AccessInv

-----------------------------------------------------------------------------
(* The theorems                                                            *)

LEMMA InitAccess == Init => AccessInv
<1> SUFFICES ASSUME Init PROVE AccessInv
  OBVIOUS
<1>1. /\ user = Users /\ app = [a \in Apps |-> "none"] /\ now = 0
      /\ codes = {} /\ tokens = {} /\ keys = {}
      /\ issued = [codes |-> 0, tokens |-> 0, keys |-> 0]
      /\ exchange = [x \in Exchanges |-> NoExchange] /\ call = [c \in Calls |-> NoCall]
      /\ shared = {} /\ ended = {} /\ withdrawn = {} /\ leftover = {}
  BY DEF Init
<1>2. issued \in [codes: 0..MaxCodes, tokens: 0..MaxTokens, keys: 0..MaxKeys]
  BY <1>1, BoundsAreNumbers
<1>3. exchange \in [Exchanges -> Exchange] /\ call \in [Calls -> Call]
  BY <1>1, NoExchangeOK, NoCallOK
<1>4. now \in 0..MaxTime
  BY <1>1, BoundsAreNumbers
<1>5. TypeOK
  BY <1>1, <1>2, <1>3, <1>4 DEF TypeOK
<1>6. CodesOK /\ TokensOK /\ KeysOK /\ EndedOK /\ WithdrawnOK
  BY <1>1 DEF CodesOK, TokensOK, KeysOK, EndedOK, WithdrawnOK
<1>7. \A x \in Exchanges : ExchangeOK(x)
  BY <1>1, NoExchangeOK DEF ExchangeOK
<1>8. CallsOK
  BY <1>1, NoCallOK DEF CallsOK
<1>9. CodesAreOneTime /\ NothingOutlivesItsOwner
  BY <1>1 DEF CodesAreOneTime, NothingOutlivesItsOwner
<1> QED
  BY <1>5, <1>6, <1>7, <1>8, <1>9 DEF AccessInv

LEMMA NextKeeps == AccessInv /\ [Next]_vars => AccessInv'
<1> SUFFICES ASSUME AccessInv, [Next]_vars PROVE AccessInv'
  OBVIOUS
<1>1. ASSUME NEW a \in Apps, CreateApp(a) \/ DeleteApp(a) PROVE AccessInv'
  BY <1>1, CreateAppStep, DeletionStep
<1>2. ASSUME NEW u \in Grantors, NEW a \in Apps, NEW ss \in SUBSET Scopes,
             GrantConsent(u, a, ss)
      PROVE  AccessInv'
  BY <1>2, GrantStep, ConstantsAssumption
<1>3. ASSUME NEW u \in Users, DeleteUser(u) \/ \E t \in tokens : RevokeGrant(u, t)
      PROVE  AccessInv'
  BY <1>3, DeletionStep, RevokeGrantStep
<1>4. ASSUME NEW u \in Grantors, NEW ss \in SUBSET Scopes, NEW e \in {None, now + 1},
             CreateKey(u, ss, e)
      PROVE  AccessInv'
  BY <1>4, CreateKeyStep, ConstantsAssumption
<1>5. ASSUME NEW k \in keys, RevokeKey(k) PROVE AccessInv'
  BY <1>5, RevokeKeyStep
<1>6. CASE Tick
  BY <1>6, TickStep
<1>7. ASSUME NEW x \in Exchanges,
             CommitExchange(x) \/ ExchangeFails(x) \/ \E r \in codes : LoadCode(x, r)
      PROVE  AccessInv'
  BY <1>7, LoadCodeStep, CommitExchangeStep, ExchangeFailsStep
<1>8. ASSUME NEW c \in Calls, NEW e \in Endpoints, NEW id \in 1..(MaxTokens + MaxKeys),
             NEW kind \in {"token", "key"}, LoadCredential(c, kind, id, e)
      PROVE  AccessInv'
  BY <1>8, LoadCredentialStep
<1>9. ASSUME NEW c \in Calls,
             \/ ReadOwner(c) \/ Respond(c) \/ Hangup(c)
             \/ \E s \in Scopes : Authorize(c, s)
      PROVE  AccessInv'
  BY <1>9, AnsweringStep
<1>10. CASE UNCHANGED vars
  <2>1. UNCHANGED <<user, app, now, codes, tokens, keys, issued, exchange, call, shared,
                    ended, withdrawn, leftover>>
    BY <1>10 DEF vars
  <2>2. TypeOK' /\ CodesOK' /\ TokensOK' /\ KeysOK' /\ EndedOK' /\ CallsOK' /\ WithdrawnOK'
          /\ CodesAreOneTime' /\ NothingOutlivesItsOwner'
    BY <2>1 DEF AccessInv, TypeOK, CodesOK, TokensOK, KeysOK, EndedOK, CallsOK, CallOK,
                Underway, WithdrawnOK, IsActive, CodesAreOneTime, NothingOutlivesItsOwner
  <2>3. \A x \in Exchanges : ExchangeOK(x)'
    BY <2>1 DEF AccessInv, ExchangeOK, HoldsCode
  <2> QED
    BY <2>2, <2>3 DEF AccessInv
<1> QED
  BY <1>1, <1>2, <1>3, <1>4, <1>5, <1>6, <1>7, <1>8, <1>9, <1>10 DEF Next

\* The strengthening that makes the properties inductive: ids given once, unused
\* codes without tokens, what each exchange and each call may still rely on.
THEOREM AccessInvariant == Spec => []AccessInv
BY InitAccess, NextKeeps, PTL DEF Spec

\* Type correctness, whatever the number of apps, users, exchanges and calls.
THEOREM TypeCorrect == Spec => []TypeOK
<1>1. AccessInv => TypeOK
  BY DEF AccessInv
<1> QED
  BY <1>1, AccessInvariant, PTL

\* A code becomes one token, unless two exchanges had loaded it together.
THEOREM OneTime == Spec => []CodesAreOneTime
<1>1. AccessInv => CodesAreOneTime
  BY DEF AccessInv
<1> QED
  BY <1>1, AccessInvariant, PTL

\* No credential outlives its app or its user, also when they go in the middle of
\* an exchange.
THEOREM OwnersOutlive == Spec => []NothingOutlivesItsOwner
<1>1. AccessInv => NothingOutlivesItsOwner
  BY DEF AccessInv
<1> QED
  BY <1>1, AccessInvariant, PTL

\* A call that begins after its credential ended is refused.
THEOREM Refused == Spec => []EndedIsRefused
<1>1. AccessInv => EndedIsRefused
  BY DEF AccessInv, CallsOK, CallOK, Underway, EndedIsRefused
<1> QED
  BY <1>1, AccessInvariant, PTL

\* An app from which a user has withdrawn holds no active token but those of codes
\* that were open at that moment.
THEOREM Withdrawn == Spec => []WithdrawnIsOut
<1>1. AccessInv => WithdrawnIsOut
  BY DEF AccessInv, WithdrawnOK, WithdrawnIsOut, GrantsTo, Grants
<1> QED
  BY <1>1, AccessInvariant, PTL

\* A server error means a credential that ended under the call, or whoami with an
\* access token.
THEOREM ErrorsExplained == Spec => []ErrorsNeedARace
<1>1. AccessInv => ErrorsNeedARace
  BY DEF AccessInv, CallsOK, CallOK, ErrorsNeedARace
<1> QED
  BY <1>1, AccessInvariant, PTL

-----------------------------------------------------------------------------
(* ApiAccess implements AccessGrants                                       *)

CodeIds == 1..MaxCodes
CredIds == TokenIds \cup KeyIds

\* What the rows show of each code and each credential.
CodesShown ==
    /\ \A r \in codes :
         CodeGrant(r.id) = GrantOf(IF r.used THEN "spent" ELSE "open", r, r.app)
    /\ \A i \in CodeIds :
         /\ i > issued.codes => CodeGrant(i) = NoGrant("none")
         /\ i <= issued.codes /\ (\A r \in codes : r.id # i) => CodeGrant(i) = NoGrant("gone")
CredsShown ==
    /\ \A t \in tokens : CredGrant("token", t.id) =
         IF IsActive(t) THEN GrantOf("active", t, t.app) ELSE NoGrant("ended")
    /\ \A k \in keys : CredGrant("key", k.id) =
         IF IsActive(k) THEN GrantOf("active", k, None) ELSE NoGrant("ended")
    /\ \A i \in 1..MaxTokens :
         /\ i > issued.tokens => CredGrant("token", i) = NoGrant("none")
         /\ i <= issued.tokens /\ (\A t \in tokens : t.id # i)
              => CredGrant("token", i) = NoGrant("ended")
    /\ \A i \in 1..MaxKeys :
         /\ i > issued.keys => CredGrant("key", i) = NoGrant("none")
         /\ i <= issued.keys /\ (\A k \in keys : k.id # i)
              => CredGrant("key", i) = NoGrant("ended")

LEMMA RowsAreShown == AccessInv => CodesShown /\ CredsShown
<1> SUFFICES ASSUME AccessInv PROVE CodesShown /\ CredsShown
  OBVIOUS
<1>1. /\ issued.codes \in Nat /\ issued.tokens \in Nat /\ issued.keys \in Nat
      /\ \A r \in codes : r.id \in 1..issued.codes /\ \A s \in codes : s.id = r.id => s = r
      /\ \A t \in tokens : t.id \in 1..issued.tokens /\ \A s \in tokens : s.id = t.id => s = t
      /\ \A k \in keys : k.id \in 1..issued.keys /\ \A s \in keys : s.id = k.id => s = k
  BY BoundsAreNumbers DEF AccessInv, TypeOK, CodesOK, TokensOK, KeysOK
<1>2. ASSUME NEW r \in codes
      PROVE  CodeGrant(r.id) = GrantOf(IF r.used THEN "spent" ELSE "open", r, r.app)
  <2>1. (CHOOSE c \in codes : c.id = r.id) = r
    BY <1>1
  <2> QED
    BY <1>1, <2>1 DEF CodeGrant
<1>3. ASSUME NEW t \in tokens
      PROVE  CredGrant("token", t.id) =
               IF IsActive(t) THEN GrantOf("active", t, t.app) ELSE NoGrant("ended")
  <2>1. RowsById("token", t.id) = {t}
    BY <1>1 DEF RowsById
  <2>2. Active("token", t.id) <=> IsActive(t)
    BY <2>1 DEF Active
  <2>3. RowById("token", t.id) = t
    BY <2>1 DEF RowById
  <2>4. ~(t.id > issued.tokens)
    BY <1>1
  <2> QED
    BY <2>2, <2>3, <2>4 DEF CredGrant
<1>4. ASSUME NEW k \in keys
      PROVE  CredGrant("key", k.id) =
               IF IsActive(k) THEN GrantOf("active", k, None) ELSE NoGrant("ended")
  <2>1. RowsById("key", k.id) = {k}
    BY <1>1 DEF RowsById
  <2>2. Active("key", k.id) <=> IsActive(k)
    BY <2>1 DEF Active
  <2>3. RowById("key", k.id) = k
    BY <2>1 DEF RowById
  <2>4. ~(k.id > issued.keys)
    BY <1>1
  <2> QED
    BY <2>2, <2>3, <2>4 DEF CredGrant
<1>5. CodesShown
  BY <1>1, <1>2 DEF CodesShown, CodeGrant, CodeIds
<1>6. CredsShown
  BY <1>1, <1>3, <1>4 DEF CredsShown, CredGrant, Active, RowsById
<1> QED
  BY <1>5, <1>6

LEMMA RowsAreShownNext == AccessInv' => CodesShown' /\ CredsShown'
  BY RowsAreShown, PTL

\* Codes and credentials that keep what they grant, or lose it.
CodeLost(i) == CodeGrant(i).phase \in {"open", "spent"} /\ CodeGrant(i)' = NoGrant("gone")
CredEnds(x) == /\ CredGrant(x[1], x[2]).phase = "active"
               /\ CredGrant(x[1], x[2])' = NoGrant("ended")
CodeKept(i) == CodeGrant(i)' = CodeGrant(i)
CredKept(x) == CredGrant(x[1], x[2])' = CredGrant(x[1], x[2])

LEMMA Losing ==
  ASSUME \A i \in CodeIds : CodeKept(i) \/ CodeLost(i),
         \A x \in CredIds : CredKept(x) \/ CredEnds(x)
  PROVE  [Granted!Next]_Granted!grants
<1>1. Granted!EndSome
  BY DEF Granted!EndSome, Granted!Nothing, Granted!Grant, Granted!Credentials, NoGrant,
         CodeLost, CredEnds, CodeKept, CredKept, CodeIds, CredIds
<1> QED
  BY <1>1 DEF Granted!Next

\* What is shown depends on the rows, the numbers issued and, for credentials, the
\* clock.
LEMMA CodesAreKept ==
  ASSUME codes' = codes, issued'.codes = issued.codes
  PROVE  \A i \in CodeIds : CodeKept(i)
  BY DEF CodeKept, CodeGrant

LEMMA TokensAreKept ==
  ASSUME tokens' = tokens, issued'.tokens = issued.tokens, now' = now
  PROVE  \A x \in TokenIds : CredKept(x)
<1> SUFFICES ASSUME NEW i \in 1..MaxTokens PROVE CredKept(<<"token", i>>)
  BY DEF TokenIds
<1>1. RowById("token", i)' = RowById("token", i)
  BY DEF RowById, RowsById
<1>2. Active("token", i)' = Active("token", i)
  BY DEF Active, RowsById, IsActive
<1> QED
  BY <1>1, <1>2 DEF CredKept, CredGrant

LEMMA KeysAreKept ==
  ASSUME keys' = keys, issued'.keys = issued.keys, now' = now
  PROVE  \A x \in KeyIds : CredKept(x)
<1> SUFFICES ASSUME NEW i \in 1..MaxKeys PROVE CredKept(<<"key", i>>)
  BY DEF KeyIds
<1>1. RowById("key", i)' = RowById("key", i)
  BY DEF RowById, RowsById
<1>2. Active("key", i)' = Active("key", i)
  BY DEF Active, RowsById, IsActive
<1> QED
  BY <1>1, <1>2 DEF CredKept, CredGrant

\* A step after which each token is as it was or is no longer good.
LEMMA TokensEnd ==
  ASSUME AccessInv, AccessInv', issued'.tokens = issued.tokens,
         \A t \in tokens' : \E s \in tokens :
            /\ s.id = t.id /\ s.user = t.user /\ s.app = t.app /\ s.scopes = t.scopes
            /\ IsActive(t)' => IsActive(s)
  PROVE  \A x \in TokenIds : CredKept(x) \/ CredEnds(x)
<1>1. CredsShown /\ CredsShown'
  BY RowsAreShown, RowsAreShownNext
<1> SUFFICES ASSUME NEW i \in 1..MaxTokens
             PROVE  CredKept(<<"token", i>>) \/ CredEnds(<<"token", i>>)
  BY DEF TokenIds
<1>2. issued.tokens \in Nat /\ i \in Nat
  BY BoundsAreNumbers DEF AccessInv, TypeOK
<1>3. \A t \in tokens : t.id <= issued.tokens
  BY <1>2 DEF AccessInv, TokensOK
<1>4. CASE i > issued.tokens
  BY <1>1, <1>2, <1>4 DEF CredsShown, CredKept
<1>5. CASE i <= issued.tokens /\ \A t \in tokens : t.id # i
  BY <1>1, <1>2, <1>5 DEF CredsShown, CredKept
<1>6. CASE \E s \in tokens : s.id = i
  <2>1. PICK s \in tokens : s.id = i
    BY <1>6
  <2>2. CredGrant("token", i) = IF IsActive(s) THEN GrantOf("active", s, s.app)
                                ELSE NoGrant("ended")
    BY <1>1, <2>1 DEF CredsShown
  <2>3. CASE \E t \in tokens' : t.id = i
    <3>1. PICK t \in tokens' : t.id = i
      BY <2>3
    <3>2. CredGrant("token", i)' = IF IsActive(t)' THEN GrantOf("active", t, t.app)
                                   ELSE NoGrant("ended")
      BY <1>1, <3>1 DEF CredsShown
    <3>3. /\ s.user = t.user /\ s.app = t.app /\ s.scopes = t.scopes
          /\ IsActive(t)' => IsActive(s)
      BY <2>1, <3>1 DEF AccessInv, TokensOK
    <3>4. GrantOf("active", t, t.app) = GrantOf("active", s, s.app)
      BY <3>3 DEF GrantOf
    <3>5. GrantOf("active", s, s.app).phase = "active"
      BY DEF GrantOf
    <3> QED
      BY <2>2, <3>2, <3>3, <3>4, <3>5 DEF CredKept, CredEnds
  <2>4. CASE \A t \in tokens' : t.id # i
    <3>1. CredGrant("token", i)' = NoGrant("ended")
      BY <1>1, <1>2, <1>3, <2>1, <2>4 DEF CredsShown
    <3>2. GrantOf("active", s, s.app).phase = "active"
      BY DEF GrantOf
    <3> QED
      BY <2>2, <3>1, <3>2 DEF CredKept, CredEnds
  <2> QED
    BY <2>3, <2>4
<1> QED
  BY <1>2, <1>4, <1>5, <1>6

\* The same of keys.
LEMMA KeysEnd ==
  ASSUME AccessInv, AccessInv', issued'.keys = issued.keys,
         \A k \in keys' : \E s \in keys :
            /\ s.id = k.id /\ s.user = k.user /\ s.scopes = k.scopes
            /\ IsActive(k)' => IsActive(s)
  PROVE  \A x \in KeyIds : CredKept(x) \/ CredEnds(x)
<1>1. CredsShown /\ CredsShown'
  BY RowsAreShown, RowsAreShownNext
<1> SUFFICES ASSUME NEW i \in 1..MaxKeys
             PROVE  CredKept(<<"key", i>>) \/ CredEnds(<<"key", i>>)
  BY DEF KeyIds
<1>2. issued.keys \in Nat /\ i \in Nat
  BY BoundsAreNumbers DEF AccessInv, TypeOK
<1>3. \A k \in keys : k.id <= issued.keys
  BY <1>2 DEF AccessInv, KeysOK
<1>4. CASE i > issued.keys
  BY <1>1, <1>2, <1>4 DEF CredsShown, CredKept
<1>5. CASE i <= issued.keys /\ \A k \in keys : k.id # i
  BY <1>1, <1>2, <1>5 DEF CredsShown, CredKept
<1>6. CASE \E s \in keys : s.id = i
  <2>1. PICK s \in keys : s.id = i
    BY <1>6
  <2>2. CredGrant("key", i) = IF IsActive(s) THEN GrantOf("active", s, None)
                              ELSE NoGrant("ended")
    BY <1>1, <2>1 DEF CredsShown
  <2>3. CASE \E k \in keys' : k.id = i
    <3>1. PICK k \in keys' : k.id = i
      BY <2>3
    <3>2. CredGrant("key", i)' = IF IsActive(k)' THEN GrantOf("active", k, None)
                                 ELSE NoGrant("ended")
      BY <1>1, <3>1 DEF CredsShown
    <3>3. s.user = k.user /\ s.scopes = k.scopes /\ (IsActive(k)' => IsActive(s))
      BY <2>1, <3>1 DEF AccessInv, KeysOK
    <3>4. GrantOf("active", k, None) = GrantOf("active", s, None)
      BY <3>3 DEF GrantOf
    <3>5. GrantOf("active", s, None).phase = "active"
      BY DEF GrantOf
    <3> QED
      BY <2>2, <3>2, <3>3, <3>4, <3>5 DEF CredKept, CredEnds
  <2>4. CASE \A k \in keys' : k.id # i
    <3>1. CredGrant("key", i)' = NoGrant("ended")
      BY <1>1, <1>2, <1>3, <2>1, <2>4 DEF CredsShown
    <3>2. GrantOf("active", s, None).phase = "active"
      BY DEF GrantOf
    <3> QED
      BY <2>2, <3>1, <3>2 DEF CredKept, CredEnds
  <2> QED
    BY <2>3, <2>4
<1> QED
  BY <1>2, <1>4, <1>5, <1>6

\* Codes that go, none added and none changed.
LEMMA CodesGo ==
  ASSUME AccessInv, AccessInv', issued'.codes = issued.codes, codes' \subseteq codes
  PROVE  \A i \in CodeIds : CodeKept(i) \/ CodeLost(i)
<1>1. CodesShown /\ CodesShown'
  BY RowsAreShown, RowsAreShownNext
<1> SUFFICES ASSUME NEW i \in CodeIds PROVE CodeKept(i) \/ CodeLost(i)
  OBVIOUS
<1>2. issued.codes \in Nat /\ i \in Nat
  BY BoundsAreNumbers DEF AccessInv, TypeOK, CodeIds
<1>3. \A r \in codes : r.id <= issued.codes
  BY <1>2 DEF AccessInv, CodesOK
<1>4. CASE i > issued.codes
  BY <1>1, <1>2, <1>4 DEF CodesShown, CodeKept
<1>5. CASE i <= issued.codes /\ \A r \in codes : r.id # i
  BY <1>1, <1>2, <1>5 DEF CodesShown, CodeKept
<1>6. CASE \E r \in codes : r.id = i
  <2>1. PICK r \in codes : r.id = i
    BY <1>6
  <2>2. CodeGrant(i) = GrantOf(IF r.used THEN "spent" ELSE "open", r, r.app)
    BY <1>1, <2>1 DEF CodesShown
  <2>3. CASE r \in codes'
    BY <1>1, <2>1, <2>2, <2>3 DEF CodesShown, CodeKept
  <2>4. CASE r \notin codes'
    <3>1. \A q \in codes' : q.id # i
      BY <2>1, <2>4 DEF AccessInv, CodesOK
    <3>2. CodeGrant(i)' = NoGrant("gone")
      BY <1>1, <1>3, <2>1, <3>1 DEF CodesShown
    <3>3. CodeGrant(i).phase \in {"open", "spent"}
      BY <2>2 DEF GrantOf
    <3> QED
      BY <3>2, <3>3 DEF CodeLost
  <2> QED
    BY <2>3, <2>4
<1> QED
  BY <1>2, <1>4, <1>5, <1>6

\* Most steps give nothing: rows go, are revoked or expire, or nothing changes.
LEMMA GivingNothing ==
  ASSUME AccessInv, AccessInv', issued' = issued, codes' \subseteq codes,
         \A t \in tokens' : \E s \in tokens :
            /\ s.id = t.id /\ s.user = t.user /\ s.app = t.app /\ s.scopes = t.scopes
            /\ IsActive(t)' => IsActive(s),
         \A k \in keys' : \E s \in keys :
            /\ s.id = k.id /\ s.user = k.user /\ s.scopes = k.scopes
            /\ IsActive(k)' => IsActive(s)
  PROVE  [Granted!Next]_Granted!grants
<1>1. \A i \in CodeIds : CodeKept(i) \/ CodeLost(i)
  BY CodesGo
<1>2. \A x \in TokenIds : CredKept(x) \/ CredEnds(x)
  BY TokensEnd
<1>3. \A x \in KeyIds : CredKept(x) \/ CredEnds(x)
  BY KeysEnd
<1> QED
  BY <1>1, <1>2, <1>3, Losing DEF CredIds

LEMMA RowsUntouched ==
  ASSUME AccessInv, AccessInv', UNCHANGED <<issued, codes, tokens, keys, now>>
  PROVE  [Granted!Next]_Granted!grants
<1>1. \A r \in tokens \cup keys : IsActive(r)' => IsActive(r)
  BY DEF IsActive
<1> QED
  BY <1>1, GivingNothing

LEMMA DeletionsGiveNothing ==
  ASSUME AccessInv, AccessInv',
         \/ \E a \in Apps : DeleteApp(a)
         \/ \E u \in Users : DeleteUser(u)
  PROVE  [Granted!Next]_Granted!grants
<1>1. UNCHANGED <<now, issued>> /\ \E as, us : Cascade(as, us)
  BY DEF DeleteApp, DeleteUser
<1>2. codes' \subseteq codes /\ tokens' \subseteq tokens /\ keys' \subseteq keys
  BY <1>1 DEF Cascade
<1>3. \A r \in tokens \cup keys : IsActive(r)' => IsActive(r)
  BY <1>1 DEF IsActive
<1> QED
  BY <1>1, <1>2, <1>3, GivingNothing

LEMMA RevocationsGiveNothing ==
  ASSUME AccessInv, AccessInv',
         \/ \E u \in Users, t \in tokens : RevokeGrant(u, t)
         \/ \E k \in keys : RevokeKey(k)
  PROVE  [Granted!Next]_Granted!grants
<1>0. TypeOK
  BY DEF AccessInv
<1>1. \A r : IsActive(r)' => IsActive(r)
  BY DEF IsActive, RevokeGrant, RevokeKey
<1>2. ASSUME NEW u \in Users, NEW t \in tokens, RevokeGrant(u, t)
      PROVE  [Granted!Next]_Granted!grants
  <2> DEFINE j == [t EXCEPT !.revoked = TRUE]
  <2>1. t \in Token
    BY <1>0 DEF TypeOK
  <2>2. /\ j.id = t.id /\ j.user = t.user /\ j.app = t.app /\ j.scopes = t.scopes
        /\ j.revoked
    BY <2>1 DEF Token
  <2>3. /\ tokens' = (tokens \ {t}) \cup {j}
        /\ UNCHANGED <<codes, keys, issued>>
    BY <1>2 DEF RevokeGrant
  <2> HIDE DEF j
  <2>4. ~IsActive(j)'
    BY <2>2 DEF IsActive
  <2> QED
    BY <1>1, <2>2, <2>3, <2>4, GivingNothing
<1>3. ASSUME NEW k \in keys, RevokeKey(k)
      PROVE  [Granted!Next]_Granted!grants
  <2> DEFINE j == [k EXCEPT !.revoked = TRUE]
  <2>1. k \in Key
    BY <1>0 DEF TypeOK
  <2>2. j.id = k.id /\ j.user = k.user /\ j.scopes = k.scopes /\ j.revoked
    BY <2>1 DEF Key
  <2>3. /\ keys' = (keys \ {k}) \cup {j}
        /\ UNCHANGED <<codes, tokens, issued>>
    BY <1>3 DEF RevokeKey
  <2> HIDE DEF j
  <2>4. ~IsActive(j)'
    BY <2>2 DEF IsActive
  <2> QED
    BY <1>1, <2>2, <2>3, <2>4, GivingNothing
<1> QED
  BY <1>2, <1>3

\* Time does not run backwards, so nothing becomes good again.
LEMMA TimeGivesNothing ==
  ASSUME AccessInv, AccessInv', Tick
  PROVE  [Granted!Next]_Granted!grants
<1>1. /\ TypeOK /\ now \in Nat /\ now' = now + 1
      /\ UNCHANGED <<issued, codes, tokens, keys>>
  BY BoundsAreNumbers DEF AccessInv, TypeOK, Tick, rowVars
<1>2. ASSUME NEW r \in tokens \cup keys PROVE IsActive(r)' => IsActive(r)
  <2>1. r.expires \in Nat \cup {None}
    BY <1>1, BoundsAreNumbers DEF TypeOK, Token, Key
  <2> QED
    BY <1>1, <2>1, ConstantsAssumption DEF IsActive
<1> QED
  BY <1>1, <1>2, GivingNothing

-----------------------------------------------------------------------------
(* The steps that give something                                           *)

\* A code whose row, or absence of one, a step leaves alone.
LEMMA CodeStays ==
  ASSUME AccessInv, AccessInv', NEW i \in CodeIds,
         i > issued.codes <=> i > issued'.codes,
         \A r : r.id = i => (r \in codes <=> r \in codes')
  PROVE  CodeKept(i)
<1>1. CodesShown /\ CodesShown'
  BY RowsAreShown, RowsAreShownNext
<1>2. i \in Nat /\ issued.codes \in Nat /\ issued'.codes \in Nat
  BY BoundsAreNumbers DEF AccessInv, TypeOK, CodeIds
<1>3. CASE i > issued.codes
  BY <1>1, <1>3 DEF CodesShown, CodeKept
<1>4. CASE i <= issued.codes /\ \A r \in codes : r.id # i
  BY <1>1, <1>2, <1>4 DEF CodesShown, CodeKept
<1>5. CASE \E r \in codes : r.id = i
  BY <1>1, <1>5 DEF CodesShown, CodeKept
<1> QED
  BY <1>2, <1>3, <1>4, <1>5

\* The same of a token and of a key.
LEMMA TokenStays ==
  ASSUME AccessInv, AccessInv', now' = now, NEW i \in 1..MaxTokens,
         i > issued.tokens <=> i > issued'.tokens,
         \A r : r.id = i => (r \in tokens <=> r \in tokens')
  PROVE  CredKept(<<"token", i>>)
<1>1. CredsShown /\ CredsShown'
  BY RowsAreShown, RowsAreShownNext
<1>2. i \in Nat /\ issued.tokens \in Nat /\ issued'.tokens \in Nat
  BY BoundsAreNumbers DEF AccessInv, TypeOK
<1>3. CASE i > issued.tokens
  BY <1>1, <1>3 DEF CredsShown, CredKept
<1>4. CASE i <= issued.tokens /\ \A r \in tokens : r.id # i
  BY <1>1, <1>2, <1>4 DEF CredsShown, CredKept
<1>5. ASSUME NEW r \in tokens, r.id = i PROVE CredKept(<<"token", i>>)
  <2>1. IsActive(r)' <=> IsActive(r)
    BY DEF IsActive
  <2> QED
    BY <1>1, <1>5, <2>1 DEF CredsShown, CredKept
<1> QED
  BY <1>2, <1>3, <1>4, <1>5

LEMMA KeyStays ==
  ASSUME AccessInv, AccessInv', now' = now, NEW i \in 1..MaxKeys,
         i > issued.keys <=> i > issued'.keys,
         \A r : r.id = i => (r \in keys <=> r \in keys')
  PROVE  CredKept(<<"key", i>>)
<1>1. CredsShown /\ CredsShown'
  BY RowsAreShown, RowsAreShownNext
<1>2. i \in Nat /\ issued.keys \in Nat /\ issued'.keys \in Nat
  BY BoundsAreNumbers DEF AccessInv, TypeOK
<1>3. CASE i > issued.keys
  BY <1>1, <1>3 DEF CredsShown, CredKept
<1>4. CASE i <= issued.keys /\ \A r \in keys : r.id # i
  BY <1>1, <1>2, <1>4 DEF CredsShown, CredKept
<1>5. ASSUME NEW r \in keys, r.id = i PROVE CredKept(<<"key", i>>)
  <2>1. IsActive(r)' <=> IsActive(r)
    BY DEF IsActive
  <2> QED
    BY <1>1, <1>5, <2>1 DEF CredsShown, CredKept
<1> QED
  BY <1>2, <1>3, <1>4, <1>5

\* A consent opens a code that was not issued before.
LEMMA ConsentGrants ==
  ASSUME AccessInv, AccessInv', NEW u \in Users, NEW a \in Apps, NEW ss \in SUBSET Scopes,
         GrantConsent(u, a, ss)
  PROVE  [Granted!Next]_Granted!grants
<1>0. PICK i, new : /\ i = issued.codes + 1
                    /\ new = [id |-> i, app |-> a, user |-> u, scopes |-> ss,
                              expires |-> Expiry(CodeTTL), used |-> FALSE]
  OBVIOUS
<1>0a. new.id = i /\ new.app = a /\ new.user = u /\ new.scopes = ss /\ ~new.used
  BY <1>0
<1>1. /\ codes' = codes \cup {new}
      /\ UNCHANGED <<now, tokens, keys>>
      /\ issued \in [codes: 0..MaxCodes, tokens: 0..MaxTokens, keys: 0..MaxKeys]
      /\ issued' = [issued EXCEPT !.codes = i]
      /\ issued.codes < MaxCodes /\ issued.codes \in Nat /\ MaxCodes \in Nat
  BY <1>0, BoundsAreNumbers DEF GrantConsent, AccessInv, TypeOK
<1>2. /\ issued'.codes = i /\ issued'.tokens = issued.tokens /\ issued'.keys = issued.keys
      /\ i \in CodeIds
  BY <1>0, <1>1 DEF CodeIds
<1>3. CodeGrant(i) = NoGrant("none")
  BY <1>0, <1>1, <1>2, RowsAreShown DEF CodesShown
<1>4. CodeGrant(i)' = GrantOf("open", new, a)
  BY <1>0a, <1>1, RowsAreShownNext DEF CodesShown
<1>5. ASSUME NEW j \in CodeIds, j # i PROVE CodeKept(j)
  <2>1. j > issued.codes <=> j > issued'.codes
    BY <1>0, <1>1, <1>2, <1>5 DEF CodeIds
  <2> QED
    BY <1>0a, <1>1, <1>5, <2>1, CodeStays
<1>6. \A x \in CredIds : CredKept(x)
  BY <1>1, <1>2, TokensAreKept, KeysAreKept DEF CredIds
<1>7. GrantOf("open", new, a) = Granted!Grant("open", u, a, ss)
  BY <1>0a DEF GrantOf, Granted!Grant
<1>8. NoGrant("none") = Granted!Nothing("none")
  BY DEF NoGrant, Granted!Nothing, Granted!Grant
<1>9. Granted!Consent(i, u, a, ss)
  BY <1>2, <1>3, <1>4, <1>5, <1>6, <1>7, <1>8 DEF Granted!Consent, CodeKept, CredKept,
       CodeIds, CredIds
<1> QED
  BY <1>2, <1>9 DEF Granted!Next, CodeIds

LEMMA KeyIsIssued ==
  ASSUME AccessInv, AccessInv', NEW u \in Users, NEW ss \in SUBSET Scopes,
         NEW e \in {None, now + 1}, CreateKey(u, ss, e)
  PROVE  [Granted!Next]_Granted!grants
<1>0. PICK i, x, new :
         /\ i = issued.keys + 1 /\ x = <<"key", i>>
         /\ new = [id |-> i, user |-> u, scopes |-> ss, expires |-> e, revoked |-> FALSE]
  OBVIOUS
<1>0a. /\ new.id = i /\ new.user = u /\ new.scopes = ss /\ new.expires = e /\ ~new.revoked
       /\ x[1] = "key" /\ x[2] = i
  BY <1>0
<1>1. /\ keys' = keys \cup {new}
      /\ UNCHANGED <<now, tokens, codes>>
      /\ issued \in [codes: 0..MaxCodes, tokens: 0..MaxTokens, keys: 0..MaxKeys]
      /\ issued' = [issued EXCEPT !.keys = i]
      /\ issued.keys < MaxKeys /\ issued.keys \in Nat /\ MaxKeys \in Nat /\ now \in Nat
  BY <1>0, BoundsAreNumbers DEF CreateKey, AccessInv, TypeOK
<1>2. /\ issued'.keys = i /\ issued'.tokens = issued.tokens /\ issued'.codes = issued.codes
      /\ i \in 1..MaxKeys
  BY <1>0, <1>1
<1>3. CredGrant("key", i) = NoGrant("none")
  BY <1>0, <1>1, <1>2, RowsAreShown DEF CredsShown
<1>4. CredGrant("key", i)' = GrantOf("active", new, None)
  <2>1. IsActive(new)'
    BY <1>0a, <1>1 DEF IsActive
  <2> QED
    BY <1>0a, <1>1, <2>1, RowsAreShownNext DEF CredsShown
<1>5. ASSUME NEW j \in 1..MaxKeys, j # i PROVE CredKept(<<"key", j>>)
  <2>1. j > issued.keys <=> j > issued'.keys
    BY <1>0, <1>1, <1>2, <1>5
  <2> QED
    BY <1>0a, <1>1, <1>5, <2>1, KeyStays
<1>6. \A y \in TokenIds : CredKept(y)
  BY <1>1, <1>2, TokensAreKept
<1>7. \A c \in CodeIds : CodeKept(c)
  BY <1>1, <1>2, CodesAreKept
<1>8. GrantOf("active", new, None) = Granted!Grant("active", u, None, ss)
  BY <1>0a DEF GrantOf, Granted!Grant
<1>9. NoGrant("none") = Granted!Nothing("none")
  BY DEF NoGrant, Granted!Nothing, Granted!Grant
<1>10. x \in KeyIds /\ \A y \in CredIds \ {x} : CredKept(y)
  BY <1>0, <1>2, <1>5, <1>6 DEF KeyIds, CredIds
<1>11. Granted!IssueKey(x, u, ss)
  BY <1>0a, <1>3, <1>4, <1>7, <1>8, <1>9, <1>10 DEF Granted!IssueKey, CodeKept, CredKept,
       CodeIds, CredIds
<1> QED
  BY <1>10, <1>11 DEF Granted!Next

\* An exchange redeems a code that is open, or one it shares with another.
LEMMA ExchangeRedeems ==
  ASSUME AccessInv, AccessInv', NEW x \in Exchanges, CommitExchange(x)
  PROVE  [Granted!Next]_Granted!grants
<1>0. PICK code, c, i, t, new :
         /\ code = exchange[x].code /\ c = code.id
         /\ i = issued.tokens + 1 /\ t = <<"token", i>>
         /\ new = [id |-> i, app |-> code.app, user |-> code.user,
                   scopes |-> code.scopes, expires |-> Expiry(TokenTTL), revoked |-> FALSE,
                   code |-> c]
  OBVIOUS
<1>0a. /\ new.id = i /\ new.app = code.app /\ new.user = code.user
       /\ new.scopes = code.scopes /\ new.expires = now + TokenTTL /\ ~new.revoked
       /\ t[1] = "token" /\ t[2] = i
  BY <1>0 DEF Expiry
<1>1. /\ tokens' = tokens \cup {new}
      /\ codes' = {IF r.id = c THEN [r EXCEPT !.used = TRUE] ELSE r : r \in codes}
      /\ UNCHANGED <<now, keys>>
      /\ issued \in [codes: 0..MaxCodes, tokens: 0..MaxTokens, keys: 0..MaxKeys]
      /\ issued' = [issued EXCEPT !.tokens = i]
      /\ issued.tokens < MaxTokens /\ issued.tokens \in Nat /\ MaxTokens \in Nat
      /\ now \in Nat /\ codes \subseteq Code
  BY <1>0, BoundsAreNumbers DEF CommitExchange, MarkUsed, AccessInv, TypeOK
<1>2. /\ issued'.keys = issued.keys /\ issued'.tokens = i /\ issued'.codes = issued.codes
      /\ i \in 1..MaxTokens
  BY <1>0, <1>1
<1>3. PICK r \in codes : r.id = c
  BY <1>0 DEF CommitExchange, StillThere
<1>4. /\ r \in Code /\ c \in CodeIds
      /\ r.app = code.app /\ r.user = code.user /\ r.scopes = code.scopes
      /\ ~r.used \/ c \in shared
  BY <1>0, <1>1, <1>3 DEF CommitExchange, AccessInv, ExchangeOK, CodeIds, Code
<1>5. CodeGrant(c) = GrantOf(IF r.used THEN "spent" ELSE "open", r, r.app)
  BY <1>3, RowsAreShown DEF CodesShown
<1>6. CodeGrant(c)' = GrantOf("spent", r, r.app)
  <2>1. PICK q \in codes' : q = [r EXCEPT !.used = TRUE]
    BY <1>1, <1>3
  <2>2. q.id = c /\ q.used /\ q.app = r.app /\ q.user = r.user /\ q.scopes = r.scopes
    BY <1>3, <1>4, <2>1 DEF Code
  <2>3. CodeGrant(c)' = GrantOf("spent", q, q.app)
    BY <2>1, <2>2, RowsAreShownNext DEF CodesShown
  <2> QED
    BY <2>2, <2>3 DEF GrantOf
<1>7. ASSUME NEW j \in CodeIds, j # c PROVE CodeKept(j)
  <2>1. ASSUME NEW s, s.id = j PROVE s \in codes <=> s \in codes'
    <3>1. ASSUME NEW q \in codes, s = [q EXCEPT !.used = TRUE], q.id = c PROVE FALSE
      BY <1>1, <1>7, <2>1, <3>1 DEF Code
    <3> QED
      BY <1>1, <1>7, <2>1, <3>1
  <2>2. j > issued.codes <=> j > issued'.codes
    BY <1>2
  <2> QED
    BY <2>1, <2>2, CodeStays
<1>8. CredGrant("token", i) = NoGrant("none")
  BY <1>0, <1>1, <1>2, RowsAreShown DEF CredsShown
<1>9. CredGrant("token", i)' = GrantOf("active", r, r.app)
  <2>1. IsActive(new)'
    BY <1>0a, <1>1, BoundsAreNumbers DEF IsActive
  <2>2. CredGrant("token", i)' = GrantOf("active", new, new.app)
    BY <1>0a, <1>1, <2>1, RowsAreShownNext DEF CredsShown
  <2> QED
    BY <1>0a, <1>4, <2>2 DEF GrantOf
<1>10. ASSUME NEW j \in 1..MaxTokens, j # i PROVE CredKept(<<"token", j>>)
  <2>1. j > issued.tokens <=> j > issued'.tokens
    BY <1>0, <1>1, <1>2, <1>10
  <2> QED
    BY <1>0a, <1>1, <1>10, <2>1, TokenStays
<1>11. \A y \in KeyIds : CredKept(y)
  BY <1>1, <1>2, KeysAreKept
<1>12. t \in TokenIds /\ \A y \in CredIds \ {t} : CredKept(y)
  BY <1>0, <1>2, <1>10, <1>11 DEF TokenIds, CredIds
<1>13. NoGrant("none") = Granted!Nothing("none")
  BY DEF NoGrant, Granted!Nothing, Granted!Grant
<1>14. /\ \/ CodeGrant(c).phase = "open"
          \/ CodeGrant(c).phase = "spent" /\ c \in shared
       /\ CodeGrant(c)' = [CodeGrant(c) EXCEPT !.phase = "spent"]
       /\ GrantOf("active", r, r.app) = [CodeGrant(c) EXCEPT !.phase = "active"]
  BY <1>4, <1>5, <1>6 DEF GrantOf
<1>15. Granted!Redeem(c, t)
  <2> DEFINE C == [j \in 1..MaxCodes |-> CodeGrant(j)]
             D == [y \in TokenIds \cup KeyIds |-> CredGrant(y[1], y[2])]
  <2>1. C[c] = CodeGrant(c)
    BY <1>4 DEF CodeIds
  <2>2. C' = [C EXCEPT ![c] = CodeGrant(c)']
    BY <1>4, <1>7 DEF CodeKept, CodeIds
  <2>3. D[t] = CredGrant("token", i)
    BY <1>0a, <1>12 DEF CredIds
  <2>4. D' = [D EXCEPT ![t] = CredGrant("token", i)']
    BY <1>0a, <1>12 DEF CredKept, CredIds
  <2>5. D[t] = Granted!Nothing("none")
    BY <1>8, <1>13, <2>3
  <2>6. C' = [C EXCEPT ![c] = [C[c] EXCEPT !.phase = "spent"]]
    BY <1>14, <2>1, <2>2
  <2>7. D' = [D EXCEPT ![t] = [C[c] EXCEPT !.phase = "active"]]
    BY <1>9, <1>14, <2>1, <2>4
  <2>8. C[c].phase = "open" \/ (C[c].phase = "spent" /\ c \in shared)
    BY <1>14, <2>1
  <2>9. C' = [C EXCEPT ![c].phase = "spent"]
    BY <2>6
  <2> QED
    BY <2>5, <2>7, <2>8, <2>9 DEF Granted!Redeem
<1> QED
  BY <1>4, <1>12, <1>15 DEF Granted!Next, CodeIds

\* Every step of the provider, the apps and the callers is one of the grants, or
\* changes none.
THEOREM GrantsImplemented == Spec => ImplementsGrants
<1>1. ASSUME Init PROVE Granted!Init
  <2>1. issued.codes = 0 /\ issued.tokens = 0 /\ issued.keys = 0
    BY <1>1 DEF Init
  <2>2. CodesShown /\ CredsShown
    BY <1>1, InitAccess, RowsAreShown
  <2>3. \A i \in CodeIds : CodeGrant(i) = NoGrant("none")
    BY <2>1, <2>2 DEF CodesShown, CodeIds
  <2>4. \A y \in CredIds : CredGrant(y[1], y[2]) = NoGrant("none")
    BY <2>1, <2>2 DEF CredsShown, CredIds, TokenIds, KeyIds
  <2> QED
    BY <2>3, <2>4 DEF Granted!Init, Granted!Nothing, Granted!Grant, Granted!Credentials,
         NoGrant, CodeIds, CredIds
<1>2. ASSUME AccessInv, AccessInv', [Next]_vars
      PROVE  [Granted!Next]_Granted!grants
  <2>1. ASSUME NEW a \in Apps, CreateApp(a) PROVE [Granted!Next]_Granted!grants
    BY <1>2, <2>1, RowsUntouched DEF CreateApp, rowVars
  <2>2. CASE \/ \E a \in Apps : DeleteApp(a)
             \/ \E u \in Users : DeleteUser(u)
    BY <1>2, <2>2, DeletionsGiveNothing
  <2>3. ASSUME NEW u \in Grantors, NEW a \in Apps, NEW ss \in SUBSET Scopes,
               GrantConsent(u, a, ss)
        PROVE  [Granted!Next]_Granted!grants
    BY <1>2, <2>3, ConsentGrants, ConstantsAssumption
  <2>4. CASE \/ \E u \in Users, t \in tokens : RevokeGrant(u, t)
             \/ \E k \in keys : RevokeKey(k)
    BY <1>2, <2>4, RevocationsGiveNothing
  <2>5. ASSUME NEW u \in Grantors, NEW ss \in SUBSET Scopes, NEW e \in {None, now + 1},
               CreateKey(u, ss, e)
        PROVE  [Granted!Next]_Granted!grants
    BY <1>2, <2>5, KeyIsIssued, ConstantsAssumption
  <2>6. CASE Tick
    BY <1>2, <2>6, TimeGivesNothing
  <2>7. ASSUME NEW x \in Exchanges, CommitExchange(x)
        PROVE  [Granted!Next]_Granted!grants
    BY <1>2, <2>7, ExchangeRedeems
  <2>8. ASSUME NEW x \in Exchanges, ExchangeFails(x) \/ \E r \in codes : LoadCode(x, r)
        PROVE  [Granted!Next]_Granted!grants
    BY <1>2, <2>8, RowsUntouched DEF ExchangeFails, LoadCode, rowVars
  <2>9. ASSUME NEW c \in Calls,
               \/ \E e \in Endpoints, id \in 1..(MaxTokens + MaxKeys), kind \in {"token", "key"} :
                    LoadCredential(c, kind, id, e)
               \/ ReadOwner(c) \/ Respond(c) \/ Hangup(c)
               \/ \E s \in Scopes : Authorize(c, s)
        PROVE  [Granted!Next]_Granted!grants
    BY <1>2, <2>9, RowsUntouched
       DEF LoadCredential, ReadOwner, Respond, Hangup, Authorize, rowVars
  <2>10. CASE UNCHANGED vars
    BY <1>2, <2>10, RowsUntouched DEF vars
  <2> QED
    BY <1>2, <2>1, <2>2, <2>3, <2>4, <2>5, <2>6, <2>7, <2>8, <2>9, <2>10 DEF Next
<1> QED
  BY AccessInvariant, <1>1, <1>2, PTL DEF Spec, ImplementsGrants, Granted!Spec

\* Whoever holds a token or a key may do what the user consented to when it was
\* issued, and nothing once it has ended: revocations, expiry, deletions and
\* exchanges in any order give nobody more.
THEOREM RightsKept == Spec => Granted!RightsAreGiven
<1> DEFINE C == [j \in 1..MaxCodes |-> CodeGrant(j)]
           D == [y \in TokenIds \cup KeyIds |-> CredGrant(y[1], y[2])]
<1>1. /\ DOMAIN C = 1..MaxCodes /\ DOMAIN D = TokenIds \cup KeyIds
      /\ TokenIds \cap KeyIds = {}
      /\ \A i \in DOMAIN C : DOMAIN C[i] = {"phase", "user", "app", "scopes"}
  BY DEF TokenIds, KeyIds, CodeGrant, NoGrant, GrantOf
<1>2. ASSUME Granted!Next
      PROVE  Granted!KeepsRights /\ Granted!BeginsByConsent
  <2>1. CASE Granted!EndSome
    BY <1>1, <2>1 DEF Granted!EndSome, Granted!KeepsRights, Granted!BeginsByConsent,
       Granted!Credentials, Granted!Nothing, Granted!Grant
  <2>2. ASSUME NEW c \in 1..MaxCodes, NEW t \in TokenIds, Granted!Redeem(c, t)
        PROVE  Granted!KeepsRights /\ Granted!BeginsByConsent
    <3>1. /\ D[t] = Granted!Nothing("none")
          /\ D' = [D EXCEPT ![t] = [C[c] EXCEPT !.phase = "active"]]
          /\ C' = [C EXCEPT ![c].phase = "spent"]
          /\ C[c].phase \in {"open", "spent"}
      BY <2>2 DEF Granted!Redeem
    <3> HIDE DEF C, D
    <3>2. /\ D[t].phase = "none" /\ D'[t] = [C[c] EXCEPT !.phase = "active"]
          /\ \A x \in (TokenIds \cup KeyIds) \ {t} : D'[x] = D[x]
          /\ C'[c].phase = "spent"
      BY <1>1, <3>1 DEF Granted!Nothing, Granted!Grant
    <3> QED
      BY <3>1, <3>2 DEF Granted!KeepsRights, Granted!BeginsByConsent, Granted!Credentials,
         C, D
  <2>3. ASSUME NEW c \in 1..MaxCodes, NEW u \in Users, NEW a \in Apps,
               NEW ss \in SUBSET Scopes, Granted!Consent(c, u, a, ss)
        PROVE  Granted!KeepsRights /\ Granted!BeginsByConsent
    BY <2>3 DEF Granted!Consent, Granted!KeepsRights, Granted!BeginsByConsent
  <2>4. ASSUME NEW k \in KeyIds, NEW u \in Users, NEW ss \in SUBSET Scopes,
               Granted!IssueKey(k, u, ss)
        PROVE  Granted!KeepsRights /\ Granted!BeginsByConsent
    <3>1. /\ D[k] = Granted!Nothing("none")
          /\ D' = [D EXCEPT ![k] = Granted!Grant("active", u, None, ss)]
      BY <2>4 DEF Granted!IssueKey
    <3> HIDE DEF C, D
    <3>2. /\ D[k].phase = "none"
          /\ \A x \in (TokenIds \cup KeyIds) \ {k} : D'[x] = D[x]
      BY <1>1, <3>1 DEF Granted!Nothing, Granted!Grant
    <3> QED
      BY <1>1, <2>4, <3>2 DEF Granted!KeepsRights, Granted!BeginsByConsent, Granted!Credentials,
         C, D
  <2> QED
    BY <1>2, <2>1, <2>2, <2>3, <2>4 DEF Granted!Next
<1>3. Granted!Next => Granted!KeepsRights /\ Granted!BeginsByConsent
  BY <1>2
<1> QED
  BY <1>3, GrantsImplemented, PTL DEF ImplementsGrants, Granted!Spec, Granted!RightsAreGiven

=============================================================================
