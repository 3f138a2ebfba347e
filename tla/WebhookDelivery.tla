--------------------------- MODULE WebhookDelivery ---------------------------
(***************************************************************************)
(* Outbound webhooks: emit() enqueues a webhooks.deliver task for every     *)
(* matching endpoint, and the workers post the event, log the attempt and   *)
(* let Celery retry.                                                       *)
(*                                                                         *)
(* A delivery is an endpoint with an occurrence of an event.  The task      *)
(* inserts a row in webhook_deliveries (its fresh uuid is the delivery id   *)
(* the receiver sees), posts, and commits the row with the answer.  While   *)
(* the inserted row is uncommitted its foreign key holds a share lock on    *)
(* the endpoint, so deleting the endpoint waits.  The task is acknowledged  *)
(* late but not rejected on worker loss: the death of a pool process loses  *)
(* the message, the death of the whole worker returns it to the queue.      *)
(*                                                                         *)
(* Time is a minute counter, which is all the throttle looks at.            *)
(***************************************************************************)
EXTENDS Integers, FiniteSets

CONSTANTS
    Endpoints,    \* ids of webhook endpoints
    Events,       \* occurrences of events, the manual ping among them
    Ping,         \* the event of POST /webhooks/{id}/test
    Subscribed,   \* the deliveries events ask for, by the endpoints' event lists
    Workers,      \* Celery pool processes
    None,         \* Python's None
    MaxRetries,   \* max_retries (6 in the code)
    MinuteLimit,  \* deliveries per endpoint and minute (60 in the code)
    MaxMinutes,   \* bound on the minutes that pass
    MaxManual,    \* bound on manual tests and replays
    MaxCrashes,   \* bound on worker deaths
    MaxFaults     \* bound on Redis, broker and database failures

ASSUME ConstantsAssumption ==
    /\ Ping \in Events
    /\ Subscribed \subseteq Endpoints \X (Events \ {Ping})
    /\ None \notin Endpoints \X Events
    /\ IsFiniteSet(Workers)
    /\ {MaxRetries, MinuteLimit, MaxMinutes, MaxManual, MaxCrashes, MaxFaults}
         \subseteq Nat

VARIABLES
    endpoint,  \* life of each row of webhook_endpoints
    emitting,  \* endpoints an emit() in progress has still to enqueue, by event
    emitted,   \* events emit() was called for
    queue,     \* messages in the broker, by delivery and retry count
    worker,    \* what each pool process is doing
    attempts,  \* rows ever inserted for each delivery: the last delivery id
    log,       \* committed rows of webhook_deliveries
    seen,      \* delivery ids that reached the receiver
    minute,    \* the clock
    admitted,  \* wh:rate:<endpoint>:<minute> of the current minute
    sent,      \* posts to each endpoint in the current minute
    accepted,  \* deliveries whose task was enqueued
    throttled, \* deliveries dropped by the throttle
    manual,    \* deliveries tested or replayed by the user
    crashes,   \* worker deaths so far
    faults,    \* failures so far
    struck     \* deliveries hit by a death or a failure
vars == <<endpoint, emitting, emitted, queue, worker, attempts, log, seen,
          minute, admitted, sent, accepted, throttled, manual, crashes, faults,
          struck>>

sourceVars == <<endpoint, emitting, emitted, accepted, manual>>
clockVars  == <<minute, admitted, sent>>
rowVars    == <<attempts, log, seen>>
faultVars  == <<crashes, faults, struck>>

Deliveries == Subscribed \cup (Endpoints \X {Ping})
EndpointOf(d) == d[1]
Retries == 0..MaxRetries

\* 2xx; 3xx or 4xx; 5xx; no connection; a timeout after the receiver got the event.
Answers  == {"ok", "refused", "server", "silence", "timeout"}
WorkerPC == {"idle", "taken", "admitted", "posting", "answered", "recorded",
             "settled"}
WorkerState == [pc: WorkerPC, d: Deliveries \cup {None}, n: Retries, id: Nat,
                answer: Answers \cup {"none"}]
Idle == [pc |-> "idle", d |-> None, n |-> 0, id |-> 0, answer |-> "none"]

-----------------------------------------------------------------------------
(* Helpers                                                                 *)

Live(e) == endpoint[e] = "live"
At(w, pc)   == worker[w].pc = pc
Goto(w, pc) == worker' = [worker EXCEPT ![w].pc = pc]

\* The foreign key of an uncommitted delivery row locks its endpoint.
Locked(e) == \E w \in Workers : /\ worker[w].pc \in {"posting", "answered"}
                                /\ EndpointOf(worker[w].d) = e

Publish(d, n) == queue' = [queue EXCEPT ![<<d, n>>] = @ + 1]
Available(d, n) == queue[<<d, n>>] > 0

\* Mutated: one delivery too many.
Throttled_OffByOne(count) == count > MinuteLimit + 1
Throttled(count) == count > MinuteLimit

\* The answers after which httpx.HTTPError leaves the task.  Mutated: only a
\* status raises; every answer but success is retried.
Retryable_StatusOnly(answer) == answer = "server"
Retryable_Refused(answer) == answer # "ok"
Retryable(answer) == answer \in {"server", "silence", "timeout"}

\* The retry count of the message after this one.  Mutated: the task is enqueued
\* afresh.
NextTry_Afresh(n) == 0
NextTry(n) == n + 1

\* The committed log of a delivery.  Mutated: a transport error rolls back.
LogAfter_AnswersOnly(d, id, answer) ==
    IF answer \in {"silence", "timeout"} THEN log[d]
    ELSE log[d] \cup {[id |-> id, answer |-> answer]}
LogAfter(d, id, answer) == log[d] \cup {[id |-> id, answer |-> answer]}

Fault(ds) ==
    /\ faults < MaxFaults
    /\ faults' = faults + 1
    /\ struck' = struck \cup ds
    /\ UNCHANGED crashes
NoFault == UNCHANGED faultVars

-----------------------------------------------------------------------------
Init ==
    /\ endpoint  = [e \in Endpoints |-> "new"]
    /\ emitting  = [v \in Events |-> {}]
    /\ emitted   = {}
    /\ queue     = [m \in Deliveries \X Retries |-> 0]
    /\ worker    = [w \in Workers |-> Idle]
    /\ attempts  = [d \in Deliveries |-> 0]
    /\ log       = [d \in Deliveries |-> {}]
    /\ seen      = [d \in Deliveries |-> {}]
    /\ minute    = 0
    /\ admitted  = [e \in Endpoints |-> 0]
    /\ sent      = [e \in Endpoints |-> 0]
    /\ accepted  = {}
    /\ throttled = {}
    /\ manual    = {}
    /\ crashes   = 0
    /\ faults    = 0
    /\ struck    = {}

(* Endpoints and the sources of events                                     *)

CreateEndpoint(e) ==
    /\ endpoint[e] = "new"
    /\ endpoint' = [endpoint EXCEPT ![e] = "live"]
    /\ UNCHANGED <<emitting, emitted, accepted, manual, queue, worker, throttled>>
    /\ UNCHANGED <<rowVars, clockVars, faultVars>>

\* The log goes with the endpoint (ON DELETE CASCADE); queued tasks stay.
DeleteEndpoint(e) ==
    /\ Live(e)
    /\ ~Locked(e)
    /\ endpoint' = [endpoint EXCEPT ![e] = "gone"]
    /\ log' = [d \in Deliveries |-> IF EndpointOf(d) = e THEN {} ELSE log[d]]
    /\ UNCHANGED <<emitting, emitted, accepted, manual, queue, worker, throttled,
                   attempts, seen>>
    /\ UNCHANGED <<clockVars, faultVars>>

\* emit() reads the matching endpoints, then enqueues one task after another.
Match(v) ==
    /\ v \notin emitted \cup {Ping}
    /\ emitted' = emitted \cup {v}
    /\ emitting' = [emitting EXCEPT
                      ![v] = {e \in Endpoints : Live(e) /\ <<e, v>> \in Subscribed}]
    /\ UNCHANGED <<endpoint, accepted, manual, queue, worker, throttled>>
    /\ UNCHANGED <<rowVars, clockVars, faultVars>>

Enqueue(v, e) ==
    /\ e \in emitting[v]
    /\ emitting' = [emitting EXCEPT ![v] = @ \ {e}]
    /\ Publish(<<e, v>>, 0)
    /\ accepted' = accepted \cup {<<e, v>>}
    /\ UNCHANGED <<endpoint, emitted, manual, worker, throttled>>
    /\ UNCHANGED <<rowVars, clockVars, faultVars>>

\* The broker fails: the exception leaves emit(), and its callers swallow it.
EmitFails(v) ==
    /\ emitting[v] # {}
    /\ emitting' = [emitting EXCEPT ![v] = {}]
    /\ Fault({<<e, v>> : e \in emitting[v]})
    /\ UNCHANGED <<endpoint, emitted, accepted, manual, queue, worker, throttled>>
    /\ UNCHANGED <<rowVars, clockVars>>

\* POST /webhooks/{id}/test and .../deliveries/{delivery_id}/replay, once for a
\* delivery.
Dispatch(d) ==
    /\ Cardinality(manual) < MaxManual
    /\ d \notin manual
    /\ Live(EndpointOf(d))
    /\ Publish(d, 0)
    /\ manual' = manual \cup {d}
    /\ accepted' = accepted \cup {d}
    /\ UNCHANGED <<endpoint, emitting, emitted, worker, throttled>>
    /\ UNCHANGED <<rowVars, clockVars, faultVars>>
TestEndpoint(e) == Dispatch(<<e, Ping>>)
Replay(d) == log[d] # {} /\ Dispatch(d)

(* The task                                                                *)

Take(w) ==
    /\ At(w, "idle")
    /\ \E d \in Deliveries, n \in Retries :
         /\ Available(d, n)
         /\ queue' = [queue EXCEPT ![<<d, n>>] = @ - 1]
         /\ worker' = [worker EXCEPT ![w] = [Idle EXCEPT !.pc = "taken", !.d = d,
                                                         !.n = n]]
    /\ UNCHANGED <<throttled>>
    /\ UNCHANGED <<sourceVars, rowVars, clockVars, faultVars>>

\* INCR of the minute's counter; above the limit the task returns.
PassThrottle(w) ==
    LET d == worker[w].d
        e == EndpointOf(d)
        count == admitted[e] + 1
    IN  /\ At(w, "taken")
        /\ admitted' = [admitted EXCEPT ![e] = count]
        /\ Goto(w, IF Throttled(count) THEN "settled" ELSE "admitted")
        /\ throttled' = IF Throttled(count) THEN throttled \cup {d} ELSE throttled
        /\ UNCHANGED <<queue, minute, sent>>
        /\ UNCHANGED <<sourceVars, rowVars, faultVars>>

\* A Redis failure is swallowed and the task goes on unthrottled.
ThrottleFails(w) ==
    /\ At(w, "taken")
    /\ Goto(w, "admitted")
    /\ Fault({})
    /\ UNCHANGED <<queue, throttled>>
    /\ UNCHANGED <<sourceVars, rowVars, clockVars>>

\* Loads the endpoint and inserts the delivery row (flushed, not committed).
InsertDelivery(w) ==
    LET d == worker[w].d
    IN  /\ At(w, "admitted")
        /\ IF Live(EndpointOf(d))
             THEN /\ attempts' = [attempts EXCEPT ![d] = @ + 1]
                  /\ worker' = [worker EXCEPT
                                   ![w] = [@ EXCEPT !.pc = "posting", !.id = attempts'[d]]]
             ELSE /\ Goto(w, "settled")
                  /\ UNCHANGED attempts
        /\ UNCHANGED <<queue, throttled, log, seen>>
        /\ UNCHANGED <<sourceVars, clockVars, faultVars>>

Post(w) ==
    LET d == worker[w].d
    IN  /\ At(w, "posting")
        /\ sent' = [sent EXCEPT ![EndpointOf(d)] = @ + 1]
        /\ \E answer \in Answers :
             /\ worker' = [worker EXCEPT
                              ![w] = [@ EXCEPT !.pc = "answered", !.answer = answer]]
             /\ seen' = IF answer = "silence" THEN seen
                        ELSE [seen EXCEPT ![d] = @ \cup {worker[w].id}]
        /\ UNCHANGED <<queue, throttled, attempts, log, minute, admitted>>
        /\ UNCHANGED <<sourceVars, faultVars>>

RecordAttempt(w) ==
    LET d == worker[w].d
        answer == worker[w].answer
    IN  /\ At(w, "answered")
        /\ log' = [log EXCEPT ![d] = LogAfter(d, worker[w].id, answer)]
        /\ Goto(w, IF Retryable(answer) THEN "recorded" ELSE "settled")
        /\ UNCHANGED <<queue, throttled, attempts, seen>>
        /\ UNCHANGED <<sourceVars, clockVars, faultVars>>

\* The insert or a commit fails: no httpx error, so the task is not retried.
DatabaseFails(w) ==
    /\ worker[w].pc \in {"admitted", "answered", "recorded"}
    /\ Goto(w, "settled")
    /\ Fault({worker[w].d})
    /\ UNCHANGED <<queue, throttled>>
    /\ UNCHANGED <<sourceVars, rowVars, clockVars>>

\* After a 5xx the error is written to the row in a second commit, which raises
\* StaleDataError when the endpoint and the row went in between.
Retry(w) ==
    LET d == worker[w].d
        n == worker[w].n
    IN  /\ At(w, "recorded")
        /\ Goto(w, "settled")
        /\ IF /\ n < MaxRetries
              /\ worker[w].answer = "server" => Live(EndpointOf(d))
             THEN Publish(d, NextTry(n))
             ELSE UNCHANGED queue
        /\ UNCHANGED <<throttled>>
        /\ UNCHANGED <<sourceVars, rowVars, clockVars, faultVars>>

Acknowledge(w) ==
    /\ At(w, "settled")
    /\ worker' = [worker EXCEPT ![w] = Idle]
    /\ UNCHANGED <<queue, throttled>>
    /\ UNCHANGED <<sourceVars, rowVars, clockVars, faultVars>>

Crash(w) ==
    /\ ~At(w, "idle")
    /\ crashes < MaxCrashes
    /\ crashes' = crashes + 1
    /\ struck' = struck \cup {worker[w].d}
    /\ worker' = [worker EXCEPT ![w] = Idle]
    /\ UNCHANGED <<throttled, faults>>
    /\ UNCHANGED <<sourceVars, rowVars, clockVars>>
LoseProcess(w) == Crash(w) /\ UNCHANGED queue
LoseWorker(w)  == Crash(w) /\ Publish(worker[w].d, worker[w].n)

NextMinute ==
    /\ minute < MaxMinutes
    /\ minute' = minute + 1
    /\ admitted' = [e \in Endpoints |-> 0]
    /\ sent' = [e \in Endpoints |-> 0]
    /\ UNCHANGED <<queue, worker, throttled>>
    /\ UNCHANGED <<sourceVars, rowVars, faultVars>>

-----------------------------------------------------------------------------
Next ==
    \/ \E e \in Endpoints : CreateEndpoint(e) \/ DeleteEndpoint(e) \/ TestEndpoint(e)
    \/ \E v \in Events : Match(v) \/ EmitFails(v)
    \/ \E v \in Events, e \in Endpoints : Enqueue(v, e)
    \/ \E d \in Deliveries : Replay(d)
    \/ \E w \in Workers :
         \/ Take(w) \/ PassThrottle(w) \/ ThrottleFails(w) \/ InsertDelivery(w)
         \/ Post(w) \/ RecordAttempt(w) \/ DatabaseFails(w) \/ Retry(w)
         \/ Acknowledge(w) \/ LoseProcess(w) \/ LoseWorker(w)
    \/ NextMinute

Spec == Init /\ [][Next]_vars

-----------------------------------------------------------------------------
(* Properties                                                              *)

\* The type invariant.
TypeOK ==
    /\ endpoint \in [Endpoints -> {"new", "live", "gone"}]
    /\ emitting \in [Events -> SUBSET Endpoints]
    /\ emitted \subseteq Events \ {Ping}
    /\ queue \in [Deliveries \X Retries -> Nat]
    /\ worker \in [Workers -> WorkerState]
    /\ \A w \in Workers : At(w, "idle") <=> worker[w].d = None
    /\ attempts \in [Deliveries -> Nat]
    /\ DOMAIN log = Deliveries /\ DOMAIN seen = Deliveries
    /\ \A d \in Deliveries :
         /\ log[d] \subseteq [id: 1..attempts[d], answer: Answers]
         /\ seen[d] \subseteq 1..attempts[d]
    /\ minute \in 0..MaxMinutes
    /\ admitted \in [Endpoints -> Nat]
    /\ sent \in [Endpoints -> Nat]
    /\ {accepted, throttled, manual, struck} \subseteq SUBSET Deliveries
    /\ crashes \in 0..MaxCrashes
    /\ faults \in 0..MaxFaults

Queued(d)   == \E n \in Retries : queue[<<d, n>>] > 0
Working(d)  == \E w \in Workers : worker[w].d = d /\ ~At(w, "settled")
IsFinal(r)  == r.answer \in {"ok", "refused"}

\* Nothing vanishes: a delivery that was enqueued for an endpoint that still
\* exists has a task under way, or was answered, or used up all its retries with
\* every attempt on record -- unless the throttle dropped it or a death or a
\* failure struck it.
NoSilentLoss ==
    \A d \in accepted \ (throttled \cup struck) :
        Live(EndpointOf(d)) =>
            \/ Queued(d) \/ Working(d)
            \/ \E r \in log[d] : IsFinal(r)
            \/ Cardinality(log[d]) > MaxRetries

\* Whatever reached the receiver of an endpoint that still exists is in the
\* delivery log or about to be, unless a death or a failure struck the delivery.
ReceiptsAreLogged ==
    \A d \in Deliveries \ struck :
        Live(EndpointOf(d)) =>
            \A id \in seen[d] :
                \/ \E r \in log[d] : r.id = id
                \/ \E w \in Workers : /\ At(w, "answered")
                                      /\ worker[w].d = d /\ worker[w].id = id

\* A delivery that was answered with 2xx or 4xx is over: no task of it is under
\* way and no later attempt was made, unless the user replayed it or a death
\* returned its message.
AnsweredIsOver ==
    \A d \in Deliveries \ (manual \cup struck) :
        \A r \in log[d] : IsFinal(r) =>
            ~Queued(d) /\ ~Working(d) /\ r.id = attempts[d]

\* An event is attempted once and once for each retry, even when attempts overlap
\* with the deletion of the endpoint, unless the user replayed it or a death or a
\* failure struck it.
AttemptsAreBounded ==
    \A d \in Deliveries \ (manual \cup struck) : attempts[d] <= MaxRetries + 1

\* A minute sees at most the limit and one post of every worker that was let
\* through in an earlier minute, but for the tasks a Redis failure let through.
PacedPosts ==
    \A e \in Endpoints :
        sent[e] <= MinuteLimit + Cardinality(Workers) + faults

=============================================================================
