---------------------------- MODULE PortfolioJobs ----------------------------
(***************************************************************************)
(* Portfolio generation: the handler of POST /portfolio/generate, the      *)
(* Celery queue on Redis, the workers that run generate_portfolio_task,    *)
(* and the deletions that race with them.                                  *)
(*                                                                         *)
(* The database shows committed rows only.  The handler inserts its row,   *)
(* enqueues the task, and the row is committed afterwards by get_db, so a  *)
(* worker can run the task while the row is still invisible.  Tasks are    *)
(* acknowledged late: a worker that dies returns its message to the queue. *)
(*                                                                         *)
(* A request is identified with the portfolio id (a fresh uuid) it creates.*)
(* The template, the text and the rendered page are abstracted: a request  *)
(* refused for its template or its resume leaves no trace, and whether     *)
(* rendering raises is a choice.                                           *)
(***************************************************************************)
EXTENDS Integers, FiniteSets

CONSTANTS
    Users,               \* accounts
    FreeUsers,           \* those on Plan.FREE (plans are the subject of Billing)
    Resumes,             \* resume ids
    ResumeOwner,         \* the user each resume belongs to
    Portfolios,          \* ids that generate requests may create
    Workers,             \* Celery worker processes
    None,                \* Python's None
    MaxRetries,          \* the task's max_retries (3 in the code)
    FreePortfolioLimit,  \* FREE_PORTFOLIO_LIMIT (3 in the code)
    MaxInFlight,         \* generate requests a user has open at a time
    PromptCommit,        \* environment: brokers deliver only after the commit
    MaxCrashes,          \* bound on worker deaths
    MaxFaults            \* bound on database and broker failures

ASSUME ConstantsAssumption ==
    /\ FreeUsers \subseteq Users
    /\ ResumeOwner \in [Resumes -> Users]
    /\ None \notin Users \cup Resumes \cup Portfolios
    /\ MaxRetries \in Nat
    /\ FreePortfolioLimit \in Nat
    /\ MaxInFlight \in Nat \ {0}
    /\ PromptCommit \in BOOLEAN
    /\ MaxCrashes \in Nat
    /\ MaxFaults \in Nat

VARIABLES
    request,   \* progress of the generate request that creates each portfolio
    owner,     \* portfolios.user_id
    source,    \* portfolios.resume_id
    status,    \* portfolios.status of the committed row, "absent" without one
    hosted,    \* portfolios whose html_url is not NULL
    resume,    \* what generation needs to know of each resume
    queue,     \* messages in the broker, by portfolio and retry count
    worker,    \* what each worker is doing
    announced, \* webhook events handed to the delivery task, by portfolio
    outrun,    \* portfolios whose task ran before their row was committed
    crashes,   \* worker deaths so far
    faults,    \* database and broker failures so far
    struck     \* portfolios hit by one of those failures
vars == <<request, owner, source, status, hosted, resume, queue, worker,
          announced, outrun, crashes, faults, struck>>

ghostVars   == <<announced, outrun>>
faultVars   == <<crashes, faults, struck>>

RequestPC == {"unused", "admitted", "inserted", "enqueued", "done", "aborted"}
RowStatus == {"absent", "queued", "generating", "published", "failed"}
WorkerPC  == {"idle", "received", "loaded", "generating", "rendered",
              "published", "failing", "failed", "raised", "settled"}
Retries   == 0..MaxRetries

\* A worker's local state: the message it holds (unacknowledged), whether the
\* status it loaded differs from "generating", and the resume_id it loaded.
WorkerState == [pc: WorkerPC, p: Portfolios \cup {None}, n: Retries,
                dirty: BOOLEAN, resume: Resumes \cup {None}]
Idle == [pc |-> "idle", p |-> None, n |-> 0, dirty |-> FALSE, resume |-> None]

-----------------------------------------------------------------------------
(* Helpers                                                                 *)

Row(p)      == status[p] # "absent"
RowsOf(u)   == {p \in Portfolios : Row(p) /\ owner[p] = u}
OpenRequests(u) ==
    {p \in Portfolios : request[p] \in {"admitted", "inserted", "enqueued"}
                        /\ owner[p] = u}

\* Mutated: one portfolio too many.
UnderPlanLimit_OffByOne(u) ==
    u \in FreeUsers => Cardinality(RowsOf(u)) <= FreePortfolioLimit
UnderPlanLimit(u) ==
    u \in FreeUsers => Cardinality(RowsOf(u)) < FreePortfolioLimit

\* s3_service refuses every upload that is not a resume document, and every
\* presigned URL that would live longer than a week.
AllowedMimeTypes == {"application/pdf", "application/msword",
    "application/vnd.openxmlformats-officedocument.wordprocessingml.document"}
PresignedMaxHours == 168
HtmlUploadSucceeds ==
    "text/html" \in AllowedMimeTypes /\ 24 * 365 <= PresignedMaxHours

\* An UPDATE by primary key finds its row (if not, SQLAlchemy raises
\* StaleDataError).  Mutated: a merge that inserts the missing row again.
UpdateFindsRow_Merge(p) == TRUE
UpdateFindsRow(p) == Row(p)

\* The task goes on with the row it loaded.  Mutated: a portfolio that is
\* already published is taken for done.
Runnable_SkipPublished(p) == Row(p) /\ status[p] # "published"
Runnable(p) == Row(p)

\* Where an exception inside the try block leads.  Mutated: it is logged only.
OnError_LogOnly == "settled"
OnError == "failing"

\* The queue.  Mutated: the message of a dead worker was acknowledged early; an
\* ended task is not acknowledged.
Available(p, n)  == queue[<<p, n>>] > 0
Publish(p, n)    == queue' = [queue EXCEPT ![<<p, n>>] = @ + 1]
Redeliver_AckedEarly(p, n) == UNCHANGED queue
Redeliver(p, n)  == Publish(p, n)
Release_NoAck(p, n) == Publish(p, n)
Release(p, n)    == UNCHANGED queue

At(w, pc)   == worker[w].pc = pc
Goto(w, pc) == worker' = [worker EXCEPT ![w].pc = pc]

\* A database or broker failure, charged to the portfolio whose work it hits.
Fault(p) ==
    /\ faults < MaxFaults
    /\ faults' = faults + 1
    /\ struck' = struck \cup {p}
    /\ UNCHANGED crashes
NoFault == UNCHANGED faultVars

-----------------------------------------------------------------------------
Init ==
    /\ request = [p \in Portfolios |-> "unused"]
    /\ owner   = [p \in Portfolios |-> None]
    /\ source  = [p \in Portfolios |-> None]
    /\ status  = [p \in Portfolios |-> "absent"]
    /\ hosted  = {}
    /\ resume  = [r \in Resumes |-> "pending"]
    /\ queue   = [m \in Portfolios \X Retries |-> 0]
    /\ worker  = [w \in Workers |-> Idle]
    /\ announced = [p \in Portfolios |-> {}]
    /\ outrun  = {}
    /\ crashes = 0
    /\ faults  = 0
    /\ struck  = {}

-----------------------------------------------------------------------------
(* The API: POST /portfolio/generate                                       *)

\* The checks of the handler: the plan limit counts committed rows, the
\* resume must be the caller's and parsed.
AdmitRequest(p, r) ==
    LET u == ResumeOwner[r] IN
    /\ request[p] = "unused"
    /\ Cardinality(OpenRequests(u)) < MaxInFlight
    /\ UnderPlanLimit(u)
    /\ resume[r] = "done"
    /\ request' = [request EXCEPT ![p] = "admitted"]
    /\ owner' = [owner EXCEPT ![p] = u]
    /\ source' = [source EXCEPT ![p] = r]
    /\ UNCHANGED <<status, hosted, resume, queue, worker>>
    /\ UNCHANGED ghostVars /\ NoFault

\* get_db rolls the transaction back: no row is left of the request.
Rollback(p) ==
    /\ request' = [request EXCEPT ![p] = "aborted"]
    /\ owner' = [owner EXCEPT ![p] = None]
    /\ source' = [source EXCEPT ![p] = None]

\* db.flush(): the INSERT needs its resume (a foreign key) and locks it.
InsertRow(p) ==
    /\ request[p] = "admitted"
    /\ IF resume[source[p]] = "deleted"
       THEN Rollback(p)
       ELSE /\ request' = [request EXCEPT ![p] = "inserted"]
            /\ UNCHANGED <<owner, source>>
    /\ UNCHANGED <<status, hosted, resume, queue, worker>>
    /\ UNCHANGED ghostVars /\ NoFault

\* generate_portfolio_task.delay(...), still before the commit.  A broker that
\* refuses the message is logged and the request goes on.
EnqueueTask(p) ==
    /\ request[p] = "inserted"
    /\ request' = [request EXCEPT ![p] = "enqueued"]
    /\ \/ Publish(p, 0) /\ NoFault
       \/ Fault(p) /\ UNCHANGED queue
    /\ UNCHANGED <<owner, source, status, hosted, resume, worker>>
    /\ UNCHANGED ghostVars

\* get_db commits after the handler has returned.
CommitRow(p) ==
    /\ request[p] = "enqueued"
    /\ request' = [request EXCEPT ![p] = "done"]
    /\ status' = [status EXCEPT ![p] = "queued"]
    /\ UNCHANGED <<owner, source, hosted, resume, queue, worker>>
    /\ UNCHANGED ghostVars /\ NoFault

\* The commit fails or the API process dies before it: get_db rolls back.
LoseRequest(p) ==
    /\ request[p] \in {"admitted", "inserted", "enqueued"}
    /\ Rollback(p)
    /\ Fault(p)
    /\ UNCHANGED <<status, hosted, resume, queue, worker>>
    /\ UNCHANGED ghostVars

-----------------------------------------------------------------------------
(* The API: deletions, and the end of parsing                              *)

\* DELETE /portfolio/{id}; a worker holding the portfolio is not told.
DeletePortfolio(p) ==
    /\ Row(p)
    /\ status' = [status EXCEPT ![p] = "absent"]
    /\ hosted' = hosted \ {p}
    /\ owner' = [owner EXCEPT ![p] = None]
    /\ source' = [source EXCEPT ![p] = None]
    /\ UNCHANGED <<request, resume, queue, worker>>
    /\ UNCHANGED ghostVars /\ NoFault

\* DELETE /resume/{id}: waits for uncommitted rows that refer to the resume
\* (their foreign-key lock) and sets resume_id of the committed ones to NULL.
DeleteResume(r) ==
    /\ resume[r] # "deleted"
    /\ \A p \in Portfolios :
          source[p] = r => request[p] \notin {"inserted", "enqueued"}
    /\ resume' = [resume EXCEPT ![r] = "deleted"]
    /\ source' = [p \in Portfolios |->
                     IF source[p] = r /\ Row(p) THEN None ELSE source[p]]
    /\ UNCHANGED <<request, owner, status, hosted, queue, worker>>
    /\ UNCHANGED ghostVars /\ NoFault

\* The upload handler or parse_resume_task stores parsed_data (see Resumes).
ResumeParsed(r) ==
    /\ resume[r] = "pending"
    /\ resume' = [resume EXCEPT ![r] = "done"]
    /\ UNCHANGED <<request, owner, source, status, hosted, queue, worker>>
    /\ UNCHANGED ghostVars /\ NoFault

-----------------------------------------------------------------------------
(* The worker: generate_portfolio_task and _generate_async                 *)

Receive(w, p, n) ==
    /\ At(w, "idle")
    /\ Available(p, n)
    /\ PromptCommit => request[p] \notin {"inserted", "enqueued"}
    /\ queue' = [queue EXCEPT ![<<p, n>>] = @ - 1]
    /\ worker' = [worker EXCEPT ![w] = [Idle EXCEPT !.pc = "received", !.p = p, !.n = n]]
    /\ UNCHANGED <<request, owner, source, status, hosted, resume>>
    /\ UNCHANGED ghostVars /\ NoFault

\* db.get(Portfolio, ...): without a row the task logs and succeeds.
LoadPortfolio(w) ==
    LET p == worker[w].p IN
    /\ At(w, "received")
    /\ worker' = [worker EXCEPT ![w] =
                     IF Runnable(p)
                     THEN [@ EXCEPT !.pc = "loaded", !.resume = source[p],
                                    !.dirty = status[p] # "generating"]
                     ELSE [@ EXCEPT !.pc = "settled"]]
    /\ outrun' = IF request[p] \in {"inserted", "enqueued"}
                 THEN outrun \cup {p} ELSE outrun
    /\ UNCHANGED <<request, owner, source, status, hosted, resume, queue>>
    /\ UNCHANGED announced /\ NoFault

\* status = "generating"; commit.  The UPDATE is sent only if it changes the
\* value that was loaded, and an UPDATE of a deleted row raises.
MarkGenerating(w) ==
    LET p == worker[w].p IN
    /\ At(w, "loaded")
    /\ IF worker[w].dirty /\ ~UpdateFindsRow(p)
       THEN Goto(w, "raised") /\ UNCHANGED status
       ELSE /\ Goto(w, "generating")
            /\ status' = IF worker[w].dirty THEN [status EXCEPT ![p] = "generating"]
                                            ELSE status
    /\ UNCHANGED <<request, owner, source, hosted, resume, queue>>
    /\ UNCHANGED ghostVars /\ NoFault

\* Read the resume, enhance, render.  A missing resume raises; so may the
\* template injector, whatever the resume.
Render(w) ==
    /\ At(w, "generating")
    /\ \/ /\ worker[w].resume # None
          /\ resume[worker[w].resume] = "done"
          /\ Goto(w, "rendered")
       \/ Goto(w, OnError)
    /\ UNCHANGED <<request, owner, source, status, hosted, resume, queue>>
    /\ UNCHANGED ghostVars /\ NoFault

\* Upload (its exceptions are swallowed), content, status = "published";
\* commit.  On a deleted row the commit raises, and the handler's own commit
\* in the same session raises again.
CommitPublished(w) ==
    LET p == worker[w].p IN
    /\ At(w, "rendered")
    /\ IF UpdateFindsRow(p)
       THEN /\ Goto(w, "published")
            /\ status' = [status EXCEPT ![p] = "published"]
            /\ hosted' = IF HtmlUploadSucceeds THEN hosted \cup {p} ELSE hosted \ {p}
       ELSE Goto(w, "raised") /\ UNCHANGED <<status, hosted>>
    /\ UNCHANGED <<request, owner, source, resume, queue>>
    /\ UNCHANGED ghostVars /\ NoFault

\* except Exception: status = "failed"; commit.
CommitFailed(w) ==
    LET p == worker[w].p IN
    /\ At(w, "failing")
    /\ IF UpdateFindsRow(p)
       THEN /\ Goto(w, "failed")
            /\ status' = [status EXCEPT ![p] = "failed"]
       ELSE Goto(w, "raised") /\ UNCHANGED status
    /\ UNCHANGED <<request, owner, source, hosted, resume, queue>>
    /\ UNCHANGED ghostVars /\ NoFault

\* emit_webhook(...) after either commit; its failure is swallowed.
Announce(w, event, next) ==
    LET p == worker[w].p IN
    /\ At(w, event)
    /\ Goto(w, next)
    /\ \/ announced' = [announced EXCEPT ![p] = @ \cup {event}] /\ NoFault
       \/ UNCHANGED announced /\ Fault(p)
    /\ UNCHANGED <<request, owner, source, status, hosted, resume, queue, outrun>>
AnnouncePublished(w) == Announce(w, "published", "settled")
AnnounceFailed(w)    == Announce(w, "failed", "raised")

\* The exception reaches Celery: publish a retry with one more try on its
\* counter, unless the retries are used up (the dead letter is a log line).
\* A retry the broker refuses rejects the message for good.
RetryOrDeadLetter(w) ==
    LET p == worker[w].p  n == worker[w].n IN
    /\ At(w, "raised")
    /\ Goto(w, "settled")
    /\ \/ n < MaxRetries /\ Publish(p, n + 1) /\ NoFault
       \/ n < MaxRetries /\ UNCHANGED queue /\ Fault(p)
       \/ n >= MaxRetries /\ UNCHANGED queue /\ NoFault
    /\ UNCHANGED <<request, owner, source, status, hosted, resume>>
    /\ UNCHANGED ghostVars

\* acks_late: the message leaves the broker when the task has ended.
Acknowledge(w) ==
    /\ At(w, "settled")
    /\ worker' = [worker EXCEPT ![w] = Idle]
    /\ Release(worker[w].p, worker[w].n)
    /\ UNCHANGED <<request, owner, source, status, hosted, resume>>
    /\ UNCHANGED ghostVars /\ NoFault

\* A database failure at any of the awaits: neither this transaction nor the
\* one of the exception handler commits, and the exception reaches Celery.
DatabaseFails(w) ==
    /\ worker[w].pc \in {"received", "loaded", "generating", "rendered", "failing"}
    /\ Goto(w, "raised")
    /\ Fault(worker[w].p)
    /\ UNCHANGED <<request, owner, source, status, hosted, resume, queue>>
    /\ UNCHANGED ghostVars

\* reject_on_worker_lost, or the broker's visibility timeout: the message of a
\* dead worker is delivered again with the same retry count.
Crash(w) ==
    LET p == worker[w].p  n == worker[w].n IN
    /\ worker[w].pc # "idle"
    /\ crashes < MaxCrashes
    /\ crashes' = crashes + 1
    /\ Redeliver(p, n)
    /\ worker' = [worker EXCEPT ![w] = Idle]
    /\ UNCHANGED <<request, owner, source, status, hosted, resume, faults, struck>>
    /\ UNCHANGED ghostVars

-----------------------------------------------------------------------------
HandlerStep(p) == InsertRow(p) \/ EnqueueTask(p) \/ CommitRow(p)

WorkerStep(w) ==
    \/ \E p \in Portfolios, n \in Retries : Receive(w, p, n)
    \/ LoadPortfolio(w)
    \/ MarkGenerating(w)
    \/ Render(w)
    \/ CommitPublished(w)
    \/ CommitFailed(w)
    \/ AnnouncePublished(w)
    \/ AnnounceFailed(w)
    \/ RetryOrDeadLetter(w)
    \/ Acknowledge(w)

Next ==
    \/ \E p \in Portfolios :
         \/ \E r \in Resumes : AdmitRequest(p, r)
         \/ HandlerStep(p)
         \/ LoseRequest(p)
         \/ DeletePortfolio(p)
    \/ \E r \in Resumes : ResumeParsed(r) \/ DeleteResume(r)
    \/ \E w \in Workers : WorkerStep(w) \/ DatabaseFails(w) \/ Crash(w)

Spec == Init /\ [][Next]_vars

\* Handlers run to their end and workers keep consuming; nothing is assumed of
\* users, of crashes or of faults.
Fairness ==
    /\ \A p \in Portfolios : WF_vars(HandlerStep(p))
    /\ \A w \in Workers : WF_vars(WorkerStep(w))
FairSpec == Spec /\ Fairness

-----------------------------------------------------------------------------
(* Properties                                                              *)

\* Every variable has its type; a queued message never carries more retries
\* than max_retries, and a worker with a message knows its portfolio.
TypeOK ==
    /\ request \in [Portfolios -> RequestPC]
    /\ owner \in [Portfolios -> Users \cup {None}]
    /\ source \in [Portfolios -> Resumes \cup {None}]
    /\ status \in [Portfolios -> RowStatus]
    /\ hosted \subseteq Portfolios
    /\ resume \in [Resumes -> {"pending", "done", "deleted"}]
    /\ queue \in [Portfolios \X Retries -> Nat]
    /\ worker \in [Workers -> WorkerState]
    /\ \A w \in Workers : worker[w].pc # "idle" => worker[w].p \in Portfolios
    /\ announced \in [Portfolios -> SUBSET {"published", "failed"}]
    /\ outrun \subseteq Portfolios
    /\ crashes \in Nat
    /\ faults \in Nat
    /\ struck \subseteq Portfolios

Queued(p) == \E n \in Retries : queue[<<p, n>>] > 0
Holding(w, p) == ~At(w, "idle") /\ worker[w].p = p
\* A message in the broker, or a worker that has yet to decide on its outcome.
Live(p) ==
    \/ Queued(p)
    \/ \E w \in Workers : Holding(w, p) /\ ~At(w, "settled")
InProgress(p) == status[p] \in {"queued", "generating"}

\* No job is forgotten: a row shown as queued or generating has a task that
\* will still act on it.  The only exceptions are a task that ran before its
\* row was committed and a database or broker failure; worker crashes,
\* retries, redelivered duplicates and deletions are none (acks_late).
NoForgottenJob ==
    \A p \in Portfolios : InProgress(p) => Live(p) \/ p \in outrun \cup struck

\* At-least-once outcome events: once nothing is left to run for a portfolio,
\* the subscribers of the outcome its row shows have been told, in spite of
\* crashes between the commit and the event.
OutcomeAnnounced ==
    \A p \in Portfolios :
        status[p] \in {"published", "failed"} /\ ~Live(p) /\ p \notin struck
            => status[p] \in announced[p]

LiveCopies(p) ==
    Cardinality({w \in Workers : Holding(w, p) /\ ~At(w, "settled")})
    + Cardinality({m \in Retries \X (1..(MaxCrashes + 1)) : m[2] <= queue[<<p, m[1]>>]})

\* Only a worker's death duplicates a task: the messages of a portfolio that
\* are queued or being worked on are at most one more than the crashes.
DuplicatesNeedCrashes ==
    \A p \in Portfolios : LiveCopies(p) <= 1 + crashes

\* The check of FREE_PORTFOLIO_LIMIT reads a count that is stale by the time
\* the row is committed: a FREE user can exceed the limit, by no more than the
\* requests that were open together, less one, and never when one is at a time.
FreePlanLimit ==
    \A u \in FreeUsers :
        Cardinality(RowsOf(u)) + Cardinality(OpenRequests(u))
            <= FreePortfolioLimit + MaxInFlight - 1

\* As long as no worker has died, a row only moves queued -> generating ->
\* published or failed, from failed back to generating (a retry), and is never
\* changed by a worker once it is published.
Advances(old, new) ==
    \/ new = old
    \/ new = "absent"
    \/ old = "absent" /\ new = "queued"
    \/ old \in {"queued", "failed"} /\ new = "generating"
    \/ old = "generating" /\ new \in {"published", "failed"}
StatusAdvances ==
    [][crashes' = 0 => \A p \in Portfolios : Advances(status[p], status'[p])]_vars

\* How the database shows the lifecycle: a row that is missing although its
\* request was committed is a deleted portfolio.
Stage == [p \in Portfolios |->
            IF Row(p) THEN status[p]
            ELSE IF request[p] = "done" THEN "deleted" ELSE "none"]
Lifecycle == INSTANCE PortfolioLifecycle WITH stage <- Stage

\* The job machinery implements the lifecycle its users are promised, under
\* any crashes, faults, redeliveries and deletions.
ImplementsLifecycle == Lifecycle!SafeSpec

\* Every accepted request comes to rest published, failed or deleted, and
\* stays so: crashes and retries delay this, they do not prevent it.
EveryRequestSettles == Lifecycle!Settles

=============================================================================
