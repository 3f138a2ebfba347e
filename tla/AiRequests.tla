------------------------------ MODULE AiRequests ------------------------------
(***************************************************************************)
(* The requests that ask a language model, from the daily quota to the      *)
(* answer (services/quota.py, services/ai_client.py and its callers).       *)
(*                                                                         *)
(* A request counts itself in a Redis counter named after the user, the     *)
(* bucket and the UTC day, then looks its prompt up in a cache shared by    *)
(* all, then asks three providers in turn and caches the text.  Whether the *)
(* text is usable is found only afterwards, by the caller: an upload asks   *)
(* again, up to three times, a builder falls back on the form, suggestions  *)
(* come out empty.  Requests overlap, Redis may not be reached, the clock   *)
(* runs, and the user's plan changes.                                       *)
(*                                                                         *)
(* One user, as quotas are per user, and one prompt for each kind of        *)
(* request, as prompts do not affect each other; the suggestions and the    *)
(* letter, which hold up the process while they wait, interleave like the   *)
(* others, which only adds behaviours.  Redis and the providers are external.*)
(***************************************************************************)
EXTENDS Integers, FiniteSetsExt

CONSTANTS
    Asked,      \* the kinds of request that are made
    Requests,   \* requests open at the same time
    Plans,
    Free,
    None,       \* no bucket, no cached text
    Cap,        \* _LIMITS: by bucket and plan
    Attempts,   \* attempts at parsing a resume
    Providers,  \* number of providers; the first is Gemini
    Day,        \* ticks in a day
    Second,     \* ticks in a second
    Minute,     \* ticks in the minute a counter lives at least
    CacheLife,  \* AI_CACHE_TTL_SECONDS, in ticks
    MaxStarted, \* bound on the requests ever made
    MaxChanges, \* bound on the changes of plan
    MaxErrors,  \* bound on the calls that do not reach Redis
    MaxTime     \* bound on the clock

Kinds   == {"parse", "enhance", "build", "skills", "letter", "export"}
Buckets == {"ai_build", "ai_enhance", "bulk_export"}
Texts   == {"usable", "unusable", "empty"}

ASSUME ConstantsAssumption ==
    /\ Asked \subseteq Kinds
    /\ Free \in Plans
    /\ None \notin Buckets \cup Texts \cup [text: Texts, expires: Nat]
    /\ Cap \in [Buckets -> [Plans -> Nat]]
    /\ {Attempts, Providers, Day, Second, Minute, CacheLife} \subseteq Nat \ {0}
    /\ Second <= Minute
    /\ {MaxStarted, MaxChanges, MaxErrors, MaxTime} \subseteq Nat

VARIABLES
    now,      \* the clock
    plan,     \* the user's plan
    used,     \* quota:<bucket>:<user>:<day>: the count and when it expires
    cache,    \* ai:prompt:<hash>, by kind of prompt: text and expiry
    request,  \* what each open request is doing
    started,  \* number of requests ever made
    changes,  \* number of changes of plan
    errors,   \* number of calls that did not reach Redis
    tally,    \* history: admitted and refused by each counter, and if it lapsed
    paid      \* history: when a provider last gave a text for each prompt
vars == <<now, plan, used, cache, request, started, changes, errors, tally, paid>>

Days == 0..(MaxTime \div Day)

BucketOf(k) == CASE k = "build" -> "ai_build"
                 [] k \in {"skills", "letter"} -> "ai_enhance"
                 [] k = "export" -> "bulk_export"
                 [] OTHER -> None
\* require_plan(Plan.PRO)
NeedsPro(k) == k \in {"skills", "letter"}
PlanAllows(k) == NeedsPro(k) => plan # Free
Cached(k) == k \notin {"letter", "export"}

\* plan, day and ttl: what consume() works with.  blind: history of the current
\* attempt, it could not look in the cache, or a text came for it after it had.
Request == [pc: {"idle", "keyed", "calling", "asking", "answered"},
            kind: Kinds \cup {None}, plan: Plans, day: Days, ttl: Nat,
            attempt: 1..Attempts, provider: 1..Providers,
            text: Texts \cup {None}, blind: BOOLEAN]
Idle == [pc |-> "idle", kind |-> None, plan |-> Free, day |-> 0, ttl |-> 0,
         attempt |-> 1, provider |-> 1, text |-> None, blind |-> FALSE]
At(q, pc) == request[q].pc = pc

NoCount == [n |-> 0, expires |-> None]

\* A call to Redis fails; every caller goes on without.
Unreachable == /\ errors < MaxErrors
               /\ errors' = errors + 1

-----------------------------------------------------------------------------
Init ==
    /\ now = 0
    /\ plan = Free
    /\ used = [b \in Buckets |-> [d \in Days |-> NoCount]]
    /\ cache = [k \in Kinds |-> None]
    /\ request = [q \in Requests |-> Idle]
    /\ started = 0 /\ changes = 0 /\ errors = 0
    /\ tally = [b \in Buckets |-> [d \in Days |->
                  [spent |-> 0, turned |-> {}, lapsed |-> FALSE]]]
    /\ paid = [k \in Kinds |-> None]

\* _seconds_until_utc_midnight, in whole seconds.
SecondsLeft == Max({Minute, Second * ((Day - (now % Day)) \div Second)})

\* The user is loaded, and consume() names the counter and how long it shall live.
Enter(q, k) ==
    /\ At(q, "idle")
    /\ started < MaxStarted
    /\ PlanAllows(k)
    /\ request' = [request EXCEPT ![q] =
         IF BucketOf(k) = None THEN [Idle EXCEPT !.pc = "calling", !.kind = k]
         ELSE [Idle EXCEPT !.pc = "keyed", !.kind = k, !.plan = plan,
                           !.day = now \div Day, !.ttl = SecondsLeft]]
    /\ started' = started + 1
    /\ UNCHANGED <<now, plan, used, cache, changes, errors, tally, paid>>

Exceeded_OffByOne(n, cap) == n > cap + 1
Exceeded(n, cap) == n > cap

Admit(q) == [request EXCEPT ![q] =
    [Idle EXCEPT !.kind = request[q].kind,
                 !.pc = IF request[q].kind = "export" THEN "answered" ELSE "calling"]]

\* INCRBY and EXPIRE in one transaction; a refused request has counted too.
Count(q) ==
    LET b == BucketOf(request[q].kind)
        d == request[q].day
        n == used[b][d].n + 1
        cap == Cap[b][request[q].plan]
    IN
    /\ At(q, "keyed")
    /\ used' = [used EXCEPT ![b][d] = [n |-> n, expires |-> now + request[q].ttl]]
    /\ IF Exceeded(n, cap)
       THEN /\ request' = [request EXCEPT ![q] = Idle]
            /\ tally' = [tally EXCEPT ![b][d].turned = @ \cup {cap}]
       ELSE /\ request' = Admit(q)
            /\ tally' = [tally EXCEPT ![b][d].spent = @ + 1]
    /\ UNCHANGED <<now, plan, cache, started, changes, errors, paid>>

\* Fail-open: a request is admitted if its count did not arrive, and if it did and the
\* reply was lost.
CountFails(q) ==
    LET b == BucketOf(request[q].kind)
        d == request[q].day
    IN
    /\ At(q, "keyed")
    /\ Unreachable
    /\ \/ UNCHANGED <<used, tally>>
       \/ /\ used' = [used EXCEPT ![b][d] = [n |-> @.n + 1, expires |-> now + request[q].ttl]]
          /\ tally' = [tally EXCEPT ![b][d].spent = @ + 1]
    /\ request' = Admit(q)
    /\ UNCHANGED <<now, plan, cache, started, changes, paid>>

\* The file has no text that could be parsed; the upload asks no provider.
Unreadable(q) ==
    /\ At(q, "calling")
    /\ request[q].kind = "parse" /\ request[q].attempt = 1
    /\ request' = [request EXCEPT ![q] = Idle]
    /\ UNCHANGED <<now, plan, used, cache, started, changes, errors, tally, paid>>

-----------------------------------------------------------------------------
(* call_ai *)
Hit(k) == Cached(k) /\ cache[k] # None

LookUp(q) ==
    LET k == request[q].kind IN
    /\ At(q, "calling")
    /\ request' = [request EXCEPT ![q] =
         [@ EXCEPT !.pc = IF Hit(k) THEN "answered" ELSE "asking",
                   !.text = IF Hit(k) THEN cache[k].text ELSE None, !.blind = FALSE]]
    /\ UNCHANGED <<now, plan, used, cache, started, changes, errors, tally, paid>>

LookUpFails(q) ==
    /\ At(q, "calling")
    /\ Cached(request[q].kind)
    /\ Unreachable
    /\ request' = [request EXCEPT ![q] =
         [@ EXCEPT !.pc = "asking", !.text = None, !.blind = TRUE]]
    /\ UNCHANGED <<now, plan, used, cache, started, changes, tally, paid>>

Cacheable_Never(t) == FALSE
Cacheable(t) == t # "empty"

Stores(k, t) == Cached(k) /\ Cacheable(t)
Entry(t) == [text |-> t, expires |-> now + CacheLife]

\* History: the others that look for the same text now do so too late.
Answered(q, t) == [r \in Requests |->
    IF r = q THEN [request[q] EXCEPT !.pc = "answered", !.text = t, !.provider = 1]
    ELSE IF /\ t \notin {None, "empty"}
            /\ At(r, "asking") /\ request[r].kind = request[q].kind
         THEN [request[r] EXCEPT !.blind = TRUE] ELSE request[r]]

\* A provider answers and the text is cached.  Gemini without text has failed.
Ask(q, t) ==
    LET k == request[q].kind IN
    /\ At(q, "asking")
    /\ request[q].provider = 1 => t # "empty"
    /\ cache' = IF Stores(k, t) THEN [cache EXCEPT ![k] = Entry(t)] ELSE cache
    /\ paid' = IF t # "empty" THEN [paid EXCEPT ![k] = now] ELSE paid
    /\ request' = Answered(q, t)
    /\ UNCHANGED <<now, plan, used, started, changes, errors, tally>>

\* The text could not be cached, or Redis cached it and did not say so.
StoreFails(q, t) ==
    LET k == request[q].kind IN
    /\ At(q, "asking")
    /\ Stores(k, t)
    /\ request[q].provider = 1 => t # "empty"
    /\ Unreachable
    /\ cache' \in {cache, [cache EXCEPT ![k] = Entry(t)]}
    /\ request' = Answered(q, t)
    /\ UNCHANGED <<now, plan, used, started, changes, tally, paid>>

\* Not configured, an error status, a timeout: the next provider, if there is one.
ProviderFails(q) ==
    /\ At(q, "asking")
    /\ request' = [request EXCEPT ![q] =
         IF @.provider < Providers THEN [request[q] EXCEPT !.provider = @ + 1]
         ELSE [request[q] EXCEPT !.pc = "answered", !.text = None, !.provider = 1]]
    /\ UNCHANGED <<now, plan, used, cache, started, changes, errors, tally, paid>>

-----------------------------------------------------------------------------
(* What the callers do with the text *)
\* parse_resume_with_claude sleeps and calls again.
Again(q) ==
    /\ At(q, "answered")
    /\ request[q].kind = "parse"
    /\ request[q].text # "usable"
    /\ request[q].attempt < Attempts
    /\ request' = [request EXCEPT ![q].pc = "calling", ![q].attempt = @ + 1]
    /\ UNCHANGED <<now, plan, used, cache, started, changes, errors, tally, paid>>

\* A parsed resume, one built from the answer or from the form, suggestions or
\* none, a letter or 502, or, after the last attempt, no parse.
Deliver(q) ==
    /\ At(q, "answered")
    /\ request[q].kind # "export"
    /\ ~(/\ request[q].kind = "parse"
         /\ request[q].text # "usable"
         /\ request[q].attempt < Attempts)
    /\ request' = [request EXCEPT ![q] = Idle]
    /\ UNCHANGED <<now, plan, used, cache, started, changes, errors, tally, paid>>

\* The archive of the portfolios, which asks no provider: its quota is spent even
\* if making it fails.
Archive(q) ==
    /\ At(q, "answered")
    /\ request[q].kind = "export"
    /\ request' = [request EXCEPT ![q] = Idle]
    /\ UNCHANGED <<now, plan, used, cache, started, changes, errors, tally, paid>>

\* The user subscribes, or a subscription ends.
ChangePlan ==
    /\ changes < MaxChanges
    /\ plan' \in Plans \ {plan}
    /\ changes' = changes + 1
    /\ UNCHANGED <<now, used, cache, request, started, errors, tally, paid>>

\* Redis drops the keys whose time has come.
Tick ==
    LET Over(entry) == entry # None /\ entry.expires = now + 1 IN
    /\ now < MaxTime
    /\ now' = now + 1
    /\ used' = [b \in Buckets |-> [d \in Days |->
         IF Over(used[b][d]) THEN NoCount ELSE used[b][d]]]
    /\ cache' = [k \in Kinds |-> IF Over(cache[k]) THEN None ELSE cache[k]]
    /\ tally' = [b \in Buckets |-> [d \in Days |->
         [tally[b][d] EXCEPT !.lapsed = @ \/ (Over(used[b][d]) /\ (now + 1) \div Day = d)]]]
    /\ UNCHANGED <<plan, request, started, changes, errors, paid>>

-----------------------------------------------------------------------------
RequestStep(q) ==
    \/ Count(q) \/ CountFails(q) \/ Unreadable(q)
    \/ LookUp(q) \/ LookUpFails(q) \/ ProviderFails(q)
    \/ \E t \in Texts : Ask(q, t) \/ StoreFails(q, t)
    \/ Again(q) \/ Deliver(q) \/ Archive(q)

Next ==
    \/ \E q \in Requests : RequestStep(q) \/ \E k \in Asked : Enter(q, k)
    \/ ChangePlan
    \/ Tick

Spec == Init /\ [][Next]_vars

-----------------------------------------------------------------------------
(* Properties                                                              *)

\* The type invariant.  No empty text is ever in the cache.
TypeOK ==
    /\ now \in 0..MaxTime
    /\ plan \in Plans
    /\ used \in [Buckets -> [Days -> [n: Nat, expires: Nat \cup {None}]]]
    /\ cache \in [Kinds -> [text: Texts \ {"empty"}, expires: Nat] \cup {None}]
    /\ request \in [Requests -> Request]
    /\ started \in 0..MaxStarted
    /\ changes \in 0..MaxChanges
    /\ errors \in 0..MaxErrors
    /\ tally \in [Buckets -> [Days -> [spent: Nat, turned: SUBSET Nat, lapsed: BOOLEAN]]]
    /\ paid \in [Kinds -> Nat \cup {None}]

Tally(q) == tally[BucketOf(request[q].kind)][request[q].day]
CapOf(q) == Cap[BucketOf(request[q].kind)][request[q].plan]

\* The daily cap is exact.  A request is admitted only while fewer than the cap of
\* its plan were admitted on that day -- unless Redis was not reached, the request
\* named its counter before midnight and was counted after it, or the counter, whose
\* life is cut to whole seconds, lapsed in the last second of the day.  And it is
\* refused only when the cap was used up -- unless a request refused before, under a
\* smaller cap, was counted with those that were served.
CapIsExact ==
    [][\A q \in Requests : At(q, "keyed") =>
         /\ request'[q].pc \in {"calling", "answered"}
              => \/ Tally(q).spent < CapOf(q)
                 \/ Tally(q).lapsed
                 \/ request[q].day # now \div Day
                 \/ errors' # errors
         /\ request'[q] = Idle
              => \/ Tally(q).spent >= CapOf(q)
                 \/ \E cap \in Tally(q).turned : cap < CapOf(q)]_vars

\* A text is paid for once: a provider answers a request only if none gave a text for
\* the same prompt, usable or not, in the life of a cache entry before -- unless the
\* request could not look in the cache, or had looked before that text came, or that
\* text could not be stored.  It holds for new requests and for the retries of a parse.
PaidOnce ==
    [][\A q \in Requests : At(q, "asking") /\ request'[q].text \in {"usable", "unusable"} =>
         LET k == request[q].kind
         IN \/ ~Cached(k)
            \/ paid[k] = None
            \/ now >= paid[k] + CacheLife
            \/ request[q].blind]_vars

=============================================================================
