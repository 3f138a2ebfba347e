------------------------------ MODULE RateLimits ------------------------------
(***************************************************************************)
(* The guard in front of expensive endpoints: a sliding window of requests  *)
(* per endpoint and caller, and a progressive lockout of callers that keep  *)
(* running into it (core/rate_limit.py).                                    *)
(*                                                                         *)
(* RateLimitCheck reads the lock, reads the clock, lets a script in Redis   *)
(* count and record the request, and for a refused one counts a failure,    *)
(* renews the counter's expiry and sets a lock -- five calls, with other    *)
(* requests of the same caller between any two of them, and any of them may *)
(* find Redis unreachable.  Callers do not affect each other, so the model  *)
(* has one.  The lockout by e-mail address, which no endpoint asks for, is  *)
(* the same code with another key and is left out.                          *)
(*                                                                         *)
(* Redis is external: INCR, EXPIRE, SET NX and TTL are what it documents.    *)
(***************************************************************************)
EXTENDS Integers, FiniteSets, FiniteSetsExt

CONSTANTS
    Prefixes,    \* the guarded endpoints
    Requests,    \* requests open at the same time
    None,        \* no time limit, no promise
    Limit,       \* max_per_ip of each endpoint
    Window,      \* window_seconds, in ticks
    Second,      \* ticks in a second
    Day,         \* life of the failure counter, in ticks
    Tiers,       \* the lockout tiers: from how many failures on, how long
    MaxServed,   \* bound on the requests ever admitted
    MaxFailures, \* bound on the failures ever counted
    MaxErrors,   \* bound on the calls that do not reach Redis
    MaxTime      \* bound on the clock

ASSUME ConstantsAssumption ==
    /\ Limit \in [Prefixes -> Nat \ {0}]
    /\ {Window, Second, Day} \subseteq Nat \ {0}
    /\ Second <= Window
    /\ Tiers \subseteq [fails: Nat \ {0}, ban: Nat \ {0}]
    /\ IsFiniteSet(Tiers)
    /\ None \notin Nat
    /\ {MaxServed, MaxFailures, MaxErrors, MaxTime} \subseteq Nat

VARIABLES
    now,        \* the clock
    window,     \* rl:sw: the members and when the key expires, by endpoint
    fails,      \* rl:fails: the counter and when it expires
    lock,       \* rl:lock: when it expires, 0 if there is none
    request,    \* what each open request is doing
    errors,     \* number of calls that did not reach Redis
    served,     \* requests admitted by the script, by endpoint
    late,       \* endpoints with a request counted too long after its stamp
    promise,    \* the Retry-After of the last refusal by the window, by endpoint
    told,       \* until when the last refusal by the lock said to wait
    last,       \* when the counter of failures was last touched
    cut         \* the last EXPIRE of the counter did not reach Redis
vars == <<now, window, fails, lock, request, errors, served, late, promise, told,
          last, cut>>

redisVars == <<window, fails, lock>>
ghostVars == <<served, late, promise, told, last, cut>>

Time   == 0..MaxTime
Member == [n: 1..MaxServed, stamp: Time]
NoKey  == [n |-> 0, expires |-> None]
NoWindow == [members |-> {}, expires |-> None]
\* fails: what INCR returned.  banned: history, a lock was set since the request
\* read the clock, or it could not see the one that was there.
Request == [pc: {"idle", "stamped", "refused", "failed", "counted", "locking"},
            prefix: Prefixes \cup {None}, stamp: Time, fails: 0..MaxFailures,
            banned: BOOLEAN]
Idle == [pc |-> "idle", prefix |-> None, stamp |-> 0, fails |-> 0, banned |-> FALSE]
At(q, pc) == request[q].pc = pc
Finish(q) == request' = [request EXCEPT ![q] = Idle]

\* TTL rounds to the nearest second.
Ttl == IF lock = 0 THEN 0 ELSE (2 * (lock - now) + Second) \div (2 * Second)

\* A call to Redis fails: the connection or the two-second timeout.
Unreachable == /\ errors < MaxErrors
               /\ errors' = errors + 1
Reached == UNCHANGED errors

-----------------------------------------------------------------------------
Init ==
    /\ now = 0
    /\ window = [p \in Prefixes |-> NoWindow]
    /\ fails = NoKey
    /\ lock = 0
    /\ request = [q \in Requests |-> Idle]
    /\ errors = 0
    /\ served = [p \in Prefixes |-> {}]
    /\ late = {}
    /\ promise = [p \in Prefixes |-> None]
    /\ told = None
    /\ last = 0
    /\ cut = FALSE

\* A caller that is locked out is told for how long, and nothing is counted.
LockedOut(q) ==
    /\ At(q, "idle")
    /\ Reached
    /\ Ttl > 0
    /\ told' = now + Second * Ttl
    /\ UNCHANGED <<now, redisVars, request, served, late, promise, last, cut>>

\* _get_lockout_ttl finds no lock, then now_ms.
CheckLock(q, p) ==
    /\ At(q, "idle")
    /\ \/ Reached /\ Ttl = 0
       \/ Unreachable
    /\ request' = [request EXCEPT
         ![q] = [Idle EXCEPT !.pc = "stamped", !.prefix = p, !.stamp = now,
                             !.banned = Ttl # 0]]
    /\ UNCHANGED <<now, redisVars, ghostVars>>

-----------------------------------------------------------------------------
(* The sliding window *)
Recent(es, stamp) == {e \in es : e.stamp > stamp - Window}

HasRoom_OneMore(p, kept) == Cardinality(kept) <= Limit[p]
HasRoom(p, kept) == Cardinality(kept) < Limit[p]

\* The script: ZREMRANGEBYSCORE 0 now_ms - win_ms, ZCARD, ZADD, PEXPIRE.
Evaluate(q) ==
    LET p == request[q].prefix
        stamp == request[q].stamp
        kept == Recent(window[p].members, stamp)
        new == [n |-> Cardinality(served[p]) + 1, stamp |-> stamp]
    IN
    /\ At(q, "stamped")
    /\ Reached
    /\ IF HasRoom(p, kept)
       THEN /\ Cardinality(served[p]) < MaxServed
            /\ window' = [window EXCEPT ![p] = [members |-> kept \cup {new},
                                                expires |-> now + Window]]
            /\ served' = [served EXCEPT ![p] = @ \cup {new}]
            /\ late' = IF \/ \E e \in served[p] : e.stamp > stamp
                          \/ window[p] = NoWindow /\ Recent(served[p], stamp) # {}
                       THEN late \cup {p} ELSE late
            /\ promise' = [promise EXCEPT ![p] = None]
            /\ Finish(q)
       ELSE /\ window' = [window EXCEPT ![p] = [@ EXCEPT !.members = kept]]
            /\ request' = [request EXCEPT ![q].pc = "refused"]
            /\ UNCHANGED <<served, late, promise>>
    /\ UNCHANGED <<now, fails, lock, told, last, cut>>

\* Redis is not reached, here or for the oldest member: the request is allowed.
FailOpen(q) ==
    /\ At(q, "stamped") \/ At(q, "refused")
    /\ Unreachable
    /\ Finish(q)
    /\ UNCHANGED <<now, redisVars, ghostVars>>

\* max(1, int(ms / 1000)), in ticks.
RetryAfter_Floor(rest) == Second * (rest \div Second)
RetryAfter(rest) == Second * Max({1, rest \div Second})
\* Whether that is less than the rest: a fraction of a second is dropped.
Truncated(rest) == rest > Second /\ rest % Second # 0

\* ZRANGE key 0 0: the refusal names the seconds until the oldest member leaves
\* the window, or the whole window if they are all gone.  History: until when it
\* says to wait, whether that falls short, and whether a lock stands in the way.
ReadOldest(q) ==
    LET p == request[q].prefix
        left == window[p].members
        rest == Min({e.stamp : e \in left}) + Window - request[q].stamp
    IN
    /\ At(q, "refused")
    /\ Reached
    /\ promise' = [promise EXCEPT ![p] =
         [until  |-> now + (IF left = {} THEN Window ELSE RetryAfter(rest)),
          short  |-> left # {} /\ Truncated(rest),
          banned |-> request[q].banned]]
    /\ request' = [request EXCEPT ![q].pc = "failed"]
    /\ UNCHANGED <<now, redisVars, served, late, told, last, cut>>

-----------------------------------------------------------------------------
(* _record_failure *)
\* INCR keeps the expiry of a counter that exists.
CountFailure(q) ==
    /\ At(q, "failed")
    /\ Reached
    /\ fails.n < MaxFailures
    /\ fails' = [fails EXCEPT !.n = @ + 1]
    /\ last' = now
    /\ request' = [request EXCEPT
         ![q] = [@ EXCEPT !.pc = "counted", !.fails = fails.n + 1]]
    /\ UNCHANGED <<now, window, lock, served, late, promise, told, cut>>

RenewCounter_Never == fails
RenewCounter == IF fails = NoKey THEN NoKey ELSE [fails EXCEPT !.expires = now + Day]

KeepCounter(q) ==
    /\ At(q, "counted")
    /\ Reached
    /\ fails' = RenewCounter
    /\ last' = now
    /\ cut' = FALSE
    /\ request' = [request EXCEPT ![q].pc = "locking"]
    /\ UNCHANGED <<now, window, lock, served, late, promise, told>>

Ban(n) == Max({0} \cup {t.ban : t \in {u \in Tiers : u.fails <= n}})

\* SET rl:lock EX ban NX: a lock that is there stays as it is.
LockedUntil_Reset(until) == until
LockedUntil(until) == IF lock = 0 THEN until ELSE lock

\* History: what is under way, and what a caller was told, did not know of a new lock.
SetLock(q) ==
    LET ban == Ban(request[q].fails) IN
    /\ At(q, "locking")
    /\ Reached
    /\ lock' = IF ban > 0 THEN LockedUntil(now + ban) ELSE lock
    /\ IF ban > 0 /\ lock = 0
       THEN /\ request' = [r \in Requests |->
                 IF r = q \/ At(r, "idle") THEN Idle
                 ELSE [request[r] EXCEPT !.banned = TRUE]]
            /\ promise' = [p \in Prefixes |->
                 IF promise[p] = None THEN None ELSE [promise[p] EXCEPT !.banned = TRUE]]
            /\ told' = None
       ELSE /\ Finish(q)
            /\ UNCHANGED <<promise, told>>
    /\ UNCHANGED <<now, window, fails, served, late, last, cut>>

\* The rest of _record_failure is skipped; the caller is refused all the same.
RecordFails(q) ==
    /\ request[q].pc \in {"failed", "counted", "locking"}
    /\ Unreachable
    /\ cut' = (cut \/ At(q, "counted"))
    /\ Finish(q)
    /\ UNCHANGED <<now, redisVars, served, late, promise, told, last>>

\* Redis drops the keys whose time has come.
Tick ==
    /\ now < MaxTime
    /\ now' = now + 1
    /\ window' = [p \in Prefixes |->
         IF window[p].expires = now + 1 THEN NoWindow ELSE window[p]]
    /\ fails' = IF fails.expires = now + 1 THEN NoKey ELSE fails
    /\ lock' = IF lock = now + 1 THEN 0 ELSE lock
    /\ last' = IF fails' = NoKey THEN 0 ELSE last
    /\ UNCHANGED <<request, errors, served, late, promise, told, cut>>

-----------------------------------------------------------------------------
RequestStep(q) ==
    \/ Evaluate(q) \/ FailOpen(q) \/ ReadOldest(q)
    \/ CountFailure(q) \/ KeepCounter(q) \/ SetLock(q) \/ RecordFails(q)

Next ==
    \/ \E q \in Requests : \/ LockedOut(q)
                           \/ \E p \in Prefixes : CheckLock(q, p)
                           \/ RequestStep(q)
    \/ Tick

Spec == Init /\ [][Next]_vars

-----------------------------------------------------------------------------
(* Properties                                                              *)

\* The type invariant.  A window never holds more than its limit.
TypeOK ==
    /\ now \in Time
    /\ window \in [Prefixes -> [members: SUBSET Member, expires: Nat \cup {None}]]
    /\ \A p \in Prefixes : /\ window[p].members \subseteq served[p]
                           /\ Cardinality(window[p].members) <= Limit[p]
    /\ fails \in [n: 0..MaxFailures, expires: Nat \cup {None}]
    /\ lock \in Nat
    /\ request \in [Requests -> Request]
    /\ errors \in 0..MaxErrors
    /\ served \in [Prefixes -> SUBSET Member]
    /\ late \subseteq Prefixes
    /\ promise \in [Prefixes -> [until: Nat, short: BOOLEAN, banned: BOOLEAN] \cup {None}]
    /\ told \in Nat \cup {None}
    /\ last \in Time
    /\ cut \in BOOLEAN

\* In no window of time are more requests let through than the limit, wherever the
\* window begins -- but for requests let through because Redis was not reached,
\* and endpoints where a request was counted after one that was stamped later.
WindowHolds ==
    \A p \in Prefixes \ late : \A t \in Time :
        Cardinality({e \in served[p] : e.stamp > t - Window /\ e.stamp <= t}) <= Limit[p]

\* "Too many requests. Please wait before trying again": a caller that waits as long
\* as it was told, and whom nobody overtakes, is not refused by the window again --
\* unless the wait was cut to whole seconds -- nor by a lock -- unless one was set
\* since the refused request read the clock, as that refusal itself does when it is
\* the failure that fills a tier, or Redis was not there to show it the lock.
RetryAfterIsEnough ==
    /\ [][\A q \in Requests : At(q, "stamped") /\ request'[q].pc = "refused" =>
            LET good == promise[request[q].prefix]
            IN good = None \/ good.short \/ request[q].stamp < good.until]_vars
    /\ [](\A p \in Prefixes : promise[p] # None =>
            now < promise[p].until \/ promise[p].banned \/ lock = 0)

\* "Failure counter resets after 24 h of no activity" -- unless the connection
\* was lost between counting a failure and renewing the counter's expiry.
ResetsAfterADay ==
    fails.n > 0 => now < last + Day \/ cut \/ \E q \in Requests : At(q, "counted")

\* A caller that is locked out and waits as long as it was told is not locked out any
\* more, however the rest is rounded: the failures of requests that were past the
\* lock check when the lock was set do not prolong it.  Only a lock set after that
\* one ended is not covered.
LockEndsAsTold == told # None /\ now >= told => Ttl = 0

=============================================================================
