# A TLA+ model of VyroPortify

VyroPortify turns an uploaded resume into a hosted portfolio page: a FastAPI
backend on PostgreSQL, Redis as cache, rate-limit store and Celery broker, Clerk
for identities, Stripe for payments, S3/R2 for files, and a Next.js frontend.
This directory holds TLA+ modules translated from that code, TLC configurations
that check them on small instances, and TLAPS proofs of the most important
properties for every instance.

## 1. The system

| Component | State | Operations | Interacts with | Hard behaviour | What makes it correct |
|---|---|---|---|---|---|
| **Portfolio jobs** (`routers/portfolio.py`, `workers/tasks/generate_portfolio.py`, `celery_app.py`, `database.py`) | rows of `portfolios`, messages in Redis, the running tasks | generate, delete, the task with its retries, late acknowledgement | storage, AI, webhooks, resumes | commit after enqueue; redelivery; retries; deletion under a running task; a count that is stale when used | no waiting row without a task; a deleted row stays deleted; every outcome announced; every request settles |
| **Public page cache** (`core/cache.py`, `routers/portfolio.py`) | Redis entries, `is_public`, `status`, the rows | public read, publish toggle, delete, sitemap | portfolio jobs, account deletion | cache filled from a row read before an invalidation; Redis failures swallowed; the generation and the account deletion do not invalidate | a hidden page goes dark; a page at rest is shown and listed as it is |
| **Billing** (`routers/billing.py`, `services/stripe_service.py`) | `users.plan`, customer ids, idempotency keys in Redis | checkout, portal, webhook events | Stripe, webhooks | a search for the customer that lags; duplicated, reordered and failed deliveries; the key is set before the commit | plan and organization follow the subscription; one customer, one subscription |
| **Webhook delivery** (`routers/webhooks.py`, `services/webhooks.py`, `workers/tasks/deliver_webhook.py`) | endpoints, deliveries, a counter per minute | register, delete, emit, test, replay, deliver with retries | the event sources | at-least-once, retries, deaths, endpoints deleted under a delivery | nothing vanishes; what was received is logged; the throttle holds |
| **Organizations** (`routers/organization.py`, `core/authz.py`) | memberships with roles | create, invite, change role, remove | portfolios, resumes | check-then-act on the number of owners | an organization keeps an owner |
| **Resumes** (`routers/resume.py`, `workers/tasks/parse_resume.py`, `export_resume_pdf.py`) | resumes, export rows, S3 objects | upload, build, export, delete | storage, AI, jobs | S3 and database changed without a common transaction; parse retries; the account deleted under both | rows and files agree; no work is forgotten; a PDF shows what its key says |
| **User mirror** (`security.py`, `routers/clerk_webhook.py`) | users by Clerk id and e-mail, personal organizations | first request, Clerk's events, account deletion | Clerk | a user inserted twice at a time; events reordered and repeated | one row per account; the table settles in lockstep with Clerk |
| **OAuth provider, API keys, public API** (`routers/oauth.py`, `api_keys.py`, `public_api.py` and their services) | apps, codes, tokens, keys | consent, exchange, revoke, call | the user's data | overlapping exchanges; revocation and deletion during a call; expiry | a code is good once; what ended is refused; a withdrawn app is out |
| **Marketplace, payouts** (`routers/marketplace.py`, `connect.py`) | templates, reviews, rating columns, Stripe accounts | submit, decide, review, onboard | Stripe | an aggregate computed from the reviews one transaction sees; read-then-write decisions | the rating is that of the reviews; a decision is final |
| **Rate limits, lockout** (`core/rate_limit.py`) | window, failure counter and lock in Redis | the guard of expensive endpoints | billing, upload | five calls to Redis with others in between; whole-second waits; Redis failures | the window holds; a wait that was named is enough; bans are served |
| **Quota, AI client** (`services/quota.py`, `ai_client.py`, `resume_parser.py`, `ai_resume_builder.py`) | daily counters and a prompt cache in Redis | count, look up, ask three providers, store | resume endpoints, parser | counting refused requests; counters that lapse early; answers cached before they are checked | the cap is exact; a text is paid for once |
| **Account deletion, export** (`routers/compliance.py`, `bulk_export.py`) | all of a user's rows | delete, export | cache, jobs, keys | running work of a deleted account; stores the cascade does not reach | no row comes back, no credential works; the files stay (section 5) |
| **Custom domains** (`services/domain_verification.py`) | `portfolios.custom_domain` | attach, verify, detach | DNS | two users claim a domain | a domain belongs to one portfolio |
| **SSO, admin, analytics, audit** | connections, counters, log | CRUD, reports | organizations | little | scopes are checked |
| **PDF rendering, mail, images, templates** (`services/`) | none | conversions, calls | external services | failures | a failure is reported |
| **Frontend** (`frontend/src`) | React state | job polling, autosave, preview | the API | a late answer after a newer one | the view shows the newest state |
| **Configuration, telemetry, migrations, start-up** | none | wiring | all | none | – |

## 2. The modules

| Module | Component | Proofs |
|---|---|---|
| `PortfolioLifecycle` | what a user is promised about one portfolio (abstract) | – |
| `PortfolioJobs` | portfolio jobs; `INSTANCE PortfolioLifecycle WITH stage <- Stage` | `PortfolioJobs_proofs` |
| `PublicPage` | public page cache, and what account deletion does to it | `PublicPage_proofs` |
| `Billing` | checkout and Stripe's events | `Organization_proofs` (as `Bl`) |
| `WebhookDelivery` | webhook delivery | `WebhookDelivery_proofs` |
| `Membership` | what an organization promises about its members (abstract) | – |
| `Organization` | organizations and memberships; `INSTANCE Membership` | `Organization_proofs` |
| `Resumes` | resumes, their files, parses and PDF exports | `Resumes_proofs` |
| `UserMirror` | users as a mirror of Clerk | `UserMirror_proofs` |
| `AccessGrants` | what a user who grants access may rely on (abstract) | – |
| `ApiAccess` | OAuth apps, keys, the public API; `INSTANCE AccessGrants` | `ApiAccess_proofs` |
| `Marketplace` | templates, reviews, payouts | `PublicPage_proofs` (as `Mk`) |
| `RateLimits` | sliding window and lockout | `RateLimits_proofs` |
| `AiRequests` | quota, prompt cache, providers, and the callers | `RateLimits_proofs` (as `Ai`) |
| `MC*` | small instances for TLC | – |

Three proof modules hold two components each, the second taken in with `INSTANCE`:
the plan of an organization is set by `Billing`, `Marketplace` publishes what
`PublicPage` shows, and `RateLimits` and `AiRequests` are the two ways a request is
counted and turned away.

Each module has one action per step between two points where another process
can run: an `await` of the database, of Redis, of the broker or of a service ends
an action. The database is modelled as the application sees it: committed rows
only (READ COMMITTED), statements by primary key, a session that keeps the object
it has loaded and sends only the columns that changed, `StaleDataError` for an
UPDATE that finds no row, unique indexes that make the second insert wait for the
first, foreign keys with their locks and cascades. Celery is modelled by the
options of each task: late acknowledgement, what a worker's death does to the
message, retries as new messages with a larger counter.

Variables called history in their comments have no counterpart in the code. They
record which of the known races or failures has happened, and name the *only*
exceptions the properties make. An operator whose name ends in `_Something` next
to the one it varies is a deliberately wrong variant; no action uses it. It
documents what a property would notice.

### 2.1 PortfolioJobs

| Source | Actions |
|---|---|
| `routers/portfolio.py` generate: checks, `flush`, `.delay`, the commit of `get_db` | `AdmitRequest`, `InsertRow`, `EnqueueTask`, `CommitRow`, `LoseRequest` |
| delete portfolio, delete resume | `DeletePortfolio`, `DeleteResume` |
| `generate_portfolio.py`, in order | `Receive`, `LoadPortfolio`, `MarkGenerating`, `Render`, `CommitPublished` / `CommitFailed`, `AnnouncePublished` / `AnnounceFailed`, `RetryOrDeadLetter`, `Acknowledge` |
| the environment | `DatabaseFails`, `Crash`, `ResumeParsed` |

A committed row is `status[p]`; the request that creates it is `request[p]`, so
the window between enqueueing and commit is explicit. The `dirty` field of a
worker records whether SQLAlchemy will send the first UPDATE. `outrun` and
`struck` are history: portfolios whose task ran before their row existed, and
those a database or broker failure has hit.

`PortfolioLifecycle` says what the machinery is for: accepted, worked on, ended,
perhaps deleted, never back from the dead, and no wait without an end. `Stage`
maps a missing row whose request was committed to `deleted`.

### 2.2 PublicPage

A row has its visibility (`row`), the status of its generation (`progress`) and the
number of its committed changes (`epoch`), which stands for what the page shows. A
read is three steps (lookup, query, fill), a toggle three (load, commit, invalidate),
a deletion three in another order (load, invalidate, commit after the handler).
`GET /p/{slug}` asks only whether the page is public (`Visible`) and so shows it in
every status; the sitemap lists what is published too (`Listed`). `Generate` is a
commit of the generation task, which changes what the page shows and does not tell
the cache.

`raced` and `undropped` are history, about entries and not about pages. `raced` are
those written by a reader whom a change had overtaken: at the time of the fill the
row was hidden already, or its deletion had dropped the entry and was about to commit
(`Overtaken`). A toggle or deletion that merely finds an entry excuses nothing.
`undropped` are entries that outlived a change the cache was not told of: a failing
Redis, which `core/cache.py` swallows, or an account deletion.

### 2.3 Billing

Stripe is external: customers, open checkout sessions, subscriptions and a log of
events, each delivered at least once and in any order. A checkout is
`OpenCheckout`, `Search`, `Create`, `OpenSession`, `CommitCheckout`; `Search` may
miss a customer that was just created, as Stripe's search index lags. A delivery
is `Deliver` (the look-up of the idempotency key), `LoadUser`,
`LoadOrganization`, `SetKey`, `Commit`, with `Fail` at any point. Event types that
lead to the same branch are one kind. `reopened` and `missed`
are history: two checkouts, or one beside a subscription; a customer a search could
not find yet. So is `disturbed`, the users whose deliveries overlapped, came after a
newer one was answered, or failed after their key was set; but it does not last. The
user's newest event, handled from end to end without another one of that user
(`PutsRight`; `crossed` are the requests that met one), writes both rows and lifts it.
`PlanIsRight` and `OrgMirrorsPlan` therefore say what such a race can spoil and also
that the next event repairs it.

### 2.4 WebhookDelivery

`Match` and `Enqueue` are `emit()`; `TestEndpoint` and `Replay` are the manual
dispatches; `Take` to `Acknowledge` are the task in order, with the uncommitted
row that locks its endpoint, the second commit after a 5xx, and two kinds of
death: `acks_late` without `reject_on_worker_lost` loses the message of a pool
process that dies and returns the message of a worker that dies. Time is the
minute counter of the throttle.

### 2.5 Organization

A request is `Authorize`, `LoadMember` or `CheckInvitee`, `CountOwners`, and one
of the commits; any other request can come between. A request about the caller's
own membership works with the role that the authorization loaded, as the session
does. `stale` is history: the requests whose reads are older than a change.

`Membership` is the same organization served one request at a time: found, join,
appoint, leave, close. Accounts, existence and roles are shared with it, so the
refinement needs no mapping but for `overlapped`, the members whose removal was
decided before another change (the targets of stale removals): of these the last
owner may go. The requests' reads and locals disappear, and what is left says that
their writes, made from old reads, still look like single steps. `About` carries
the point: a request that loaded a member which went in between finds no row.

### 2.6 Resumes

| Source | Actions |
|---|---|
| `upload_resume`, the commit of `get_db` | `StoreObject` / `StoreFails`, `ParseInline`, `EnqueueParse`, `CommitUpload` / `LoseUpload` |
| `build_resume` | `BuildResume` |
| `delete_resume`, the commit of `get_db` | `DeleteObject` / `DeleteObjectFails`, `CommitDelete` / `LoseDelete` |
| `export_resume_pdf_endpoint` | `MissCache`, `InsertExport`, `DispatchExport` |
| both tasks, as Celery runs them | `Take`, `RetryOrGiveUp`, `Acknowledge`, `DatabaseFails`, `LoseWorker`, `LoseProcess` |
| `parse_resume.py` | `LoadResume`, `MarkProcessing`, `ParseFile`, `CommitParsed`, `CommitFailed` |
| `export_resume_pdf.py` | `LoadExport`, `RenderPdf`, `CommitExport` |
| `delete_my_account`, Clerk's `user.deleted` | `DeleteAccount` |

Three stores are compared: the rows, the uploaded files (`objects`) and the PDFs
by the hash in their key (`pdf`). What a parse yields is a member of `Contents`
chosen each time, and `HashOf` says which contents have the same hash. The two
tasks differ in one option, which `RejectedOnLoss` states: the message of a parse
survives its pool process, that of an export does not. The model has one user and
one template, and the storage configured (without it the handlers write to
`/tmp`, a development mode). The query of the export cache is one step with the
read of the resume: a change in between leads to a state that the step's other
order has as well.

`DeleteAccount` is what both deletions of an account do here: the cascades of
`models/user.py:53` and `models/resume.py:26` take the rows of resumes and exports at
once, while objects, PDFs, messages and running tasks stay. An upload that has flushed
its row holds the user's row through the foreign key, and the deletion waits for it;
an insert that comes later fails (`account`). The files left so are one of the
exceptions of `RowsAndFilesAgree`, and section 5 says what that means.

### 2.7 UserMirror

Clerk and svix are external: `SignUp`, `ChangeAddress` and `CloseAccount` emit one
event each, delivered at least once and in any order. `ReceiveEvent` and
`FirstRequest` look a row up, `InsertUser` inserts it with its personal
organization, and the unique indexes decide at that point: a second insert waits
for the first (`MustWait`) and fails if that commits. `CommitInsert`,
`CommitUpdate`, `CommitDelete` and `CommitLeave` end the transactions; a request
commits only if its endpoint does not raise (`RequestFails`). An address that no
token carried is `clerk_id@clerk.local` (`Placeholder`). `overtaken`,
`overlapped`, `left`, `buried` and `revived` are history.

### 2.8 ApiAccess

`GrantConsent` issues a code, `LoadCode` and `CommitExchange` turn it into a
token, `RevokeGrant` and `RevokeKey` end credentials, `DeleteApp` and `DeleteUser`
cascade. A call is `LoadCredential`, `ReadOwner`, `Authorize`, `Respond`; a key's
UPDATE of `last_used_at` locks its row (`Locked`), which is why its revocation
has to wait. `shared`, `ended`, `withdrawn` and `leftover` are history. The proofs
a client gives (secret, PKCE verifier, redirect URI) only refuse.

`AccessGrants` knows neither rows nor exchanges nor time. A code is none, open,
spent or gone, a credential none, active or ended, and both stand for a user, an
app and a set of scopes. `CodeGrant` and `CredGrant` read that off the rows: an id
not yet issued grants nothing yet, one whose row is missing, revoked or expired
nothing any more. `Redeem` gives a token what its code stood for; an exchange does it
with the values it read earlier (`StillThere` is its UPDATE, which fails when the row
is gone).

### 2.9 Marketplace

Every request is a load and a commit. A review is `LoadForReview`, `Upsert`
(which locks the row of a user's own review), `Compute` and `CommitReview`; the
average is kept in hundredths, as the column does, and the UPDATE sends only what
differs from the row as loaded (`Stored`). Onboarding creates the Stripe account
before its id is committed. `mingled`, `departed`, `contested` and `doubled` are
history.

### 2.10 RateLimits

`CheckLock` reads the TTL of the lock, rounded as Redis does, and the clock;
`Evaluate` is the Lua script; `ReadOldest` names the wait; `CountFailure`,
`KeepCounter` and `SetLock` are `_record_failure`. `FailOpen` and `RecordFails` are
the calls that do not reach Redis. Callers do not affect each other, so there is
one. The window's members keep the stamps their requests brought along, not the
time the script ran.

What a caller was told is history. `promise` is the last refusal by the window, with
the moment it named, whether that was cut to whole seconds (`short`), and whether a
lock was set since the refused request read the clock, by that very refusal or by
another one (`banned`). `told` is the moment named by the last refusal by the lock,
until a new lock is set. `late` are windows counted out of order, `last` and `cut` the
last touch of the failure counter and a lost renewal of its expiry.

### 2.11 AiRequests

`Enter` is the endpoint up to the name of the counter, `Count` the INCRBY and
EXPIRE with the decision, `LookUp` the prompt cache, `Ask` and `ProviderFails` the
three providers, `Again` the parser's retry, `Deliver` and `Archive` the end. A call
that fails may have been executed: `CountFails` may raise the counter and `StoreFails`
may store the text, with only the reply lost. Texts are usable, unusable or empty;
the parser, the builder, the suggestions, the letter and the archive differ in what
they do with one. `tally` and `paid` are history: what each counter admitted and
refused, and when a provider last gave a text for each prompt; `blind` marks a
request that could not look in the cache, or looked before that text came.

## 3. The runs

| Run | Instance | What it shows | Properties |
|---|---|---|---|
| `jobs_safety` | 2 portfolios whose requests may overlap, 2 workers, 2 retries, a death and a fault | no job is forgotten unless its task ran before the commit or a failure hit it; every outcome is announced; only deaths duplicate tasks and move a row back; the whole implements the lifecycle | `NoForgottenJob`, `OutcomeAnnounced`, `DuplicatesNeedCrashes`, `StatusAdvances`, `ImplementsLifecycle` |
| `jobs_settle` | 3 portfolios of a FREE user, 2 requests open at a time, a worker, a retry, a death, broker slower than the commit | requests that overlap do exceed the FREE limit of 1, by what was open together less one and no more, also after deletions and with a third request; every accepted request comes to rest | `FreePlanLimit`, `EveryRequestSettles` |
| `page_cache` | 1 page, 3 requests, 3 changes, a Redis failure | a hidden page is in the cache only until its request has told the cache, but for entries written by an overtaken reader or left by an untold change; hidden pages go dark; a page at rest is shown and listed as it is, though the generation tells the cache nothing | `StaleNeedsARace`, `HiddenPagesGoDark`, `SettledPagesAreRight` |
| `billing_plans` | 1 user, 2 customers, 2 sessions, 3 events in any order, 2 requests, a mishap | the plan is the one Stripe bills and the organization mirrors it, but for the named races, and again after the next event that is handled by itself; one customer and one subscription but for the races of checkouts | `PlanIsRight`, `OrgMirrorsPlan`, `OnceAtStripe` |
| `webhook_delivery` | 1 endpoint, an event and a ping, 2 workers, a retry, a replay, a death, a fault, a minute | no delivery vanishes, is repeated, unlogged, tried too often or too early, but for the named causes | `NoSilentLoss`, `ReceiptsAreLogged`, `AnsweredIsOver`, `AttemptsAreBounded`, `PacedPosts` |
| `org_owners` | 3 users, 2 requests, 3 roles | an organization loses its last owner only by a demotion, an account deletion or overlapping requests, and does not get one back; overlapping requests change its members one at a time | `LastOwnerIsKept`, `OwnerlessIsFinal`, `ImplementsMembership` |
| `resume_files` | 1 resume, 2 exports, 2 workers, 2 contents, a retry of each task, a death, a fault, a deletion of the account | rows, files and tasks stay together but for incomplete uploads and the deletion of the account, after which no row comes back; a PDF shows the content of its hash and a parsed resume is final unless a parse was redelivered | `NoForgottenWork`, `RowsAndFilesAgree`, `PdfMatchesItsHash`, `ParsedIsFinal` |
| `user_mirror` | 2 accounts, 2 addresses, 2 handlers, 3 events in any order, one repeated | one row per account; the table settles in lockstep with Clerk but for four named races | `OneRowPerAccount`, `InLockstep` |
| `api_access` | a user, a developer, an app, 2 codes, 2 tokens, a key, at most 4 of the 5 issued, 2 exchanges, a call | a code is good once unless two exchanges overlap; what ended is refused; a withdrawn app gets in only with a code that was open; tokens and keys allow what was consented to until they end | `CodesAreOneTime`, `EndedIsRefused`, `WithdrawnIsOut`, `ImplementsGrants` |
| `market` | 3 users, one an author, 2 requests, 2 ratings, 2 Stripe accounts | the rating is that of the reviews, a decision is final, an author has one account, but for named overlaps | `RatingIsRight`, `OneAccountPerAuthor`, `DecisionIsFinal` |
| `rate_limits` | 1 endpoint, 2 requests, 2 tiers, a failing call, 5 ticks | the window and the life of the failure counter hold but for named overlaps and failures; who waits as told meets room, and no lock but one set meanwhile; who waits for a lock as told meets none, though late failures try to renew it | `WindowHolds`, `RetryAfterIsEnough`, `ResetsAfterADay`, `LockEndsAsTold` |
| `ai_requests` | 3 requests of four kinds, 2 at a time, 2 plans, a failing call, a day that ends | the daily cap is exact but for named lapses; a text is paid for once in the life of a cache entry, by retries and by overlapping requests | `CapIsExact`, `PaidOnce` |

The instances are the smallest in which every action fires and every named
exception is needed; the constants that differ from the code are these.

- `FreePortfolioLimit` is 1 and not 3, with two requests open together and a third
  one to come: the bound, two rows, is reached and could be passed. The
  theorem `LimitBounded` covers every value.
- `MaxRetries` is 2 or 1 and not 3 (jobs), 1 and not 6 (webhooks), `ParseRetries`
  and `ExportRetries` are 1 and not 3 and 2, `Attempts` at parsing 2 and not 3,
  `Providers` 2 and not 3: the first, one in the middle or none, and the last
  already differ.
- `MinuteLimit` and `Limit` are 1 and not 60 or 5 to 20, the quotas 1 and 2: the
  properties depend on the count only through the limit, and the two plans differ.
- `FourIssued` in `api_access`, a constraint: of two codes, two tokens and the key
  four are issued, which leaves two codes with a token each, one with two, and the
  key beside any three of them. The theorems know no such bound.
- Clocks are ticks. What matters is the order of the durations and whether a
  duration is a whole number of seconds. `rate_limits` has 2 ticks in a second and a
  window of 4, whole seconds as in the code, so that a request stamped one tick later
  leaves half a second to be cut; a ban of 2 and one of 4, and a day of 5.
  `ai_requests` has 2 in a second and 3 in a day, with a clock that crosses the day's
  end. Codes and tokens live one tick, of one.
- `MaxEpoch` 3: a page that is generated and published or given up, and then hidden
  or shown.
- `MaxEvents` 3: for Stripe a subscription, a loss and a return, or two
  subscriptions and a loss; for Clerk an account, its change and its end.
- `MaxCrashes`, `MaxFaults`, `MaxRedisFaults`, `MaxMishaps`, `MaxErrors`,
  `MaxDuplicates`, `MaxManual`, `MaxChanges`: one each. The properties state what
  one failure may cost; the theorems hold for any number.
- One user, one page, one endpoint, one resume, one template: the handlers share
  no state across them except the plan limit (one user with several portfolios),
  the keys of the PDFs (two exports of one resume), the addresses (two accounts),
  the rating (three users) and the workers.

Symmetry is used in runs without liveness only. Deadlock is not checked: ids,
events and clocks run out, and the model ends where the system would go on.

**Fairness.** `jobs_settle` assumes that a handler that was started runs to its end
and that each worker keeps taking steps (`FairSpec` of `PortfolioJobs`): asyncio
and Celery's consumer loop do that as long as their process lives, and a death is
an action of its own, after which the worker consumes again. Nothing is assumed of
users, deaths or failures. `page_cache` assumes that handlers end and that Redis
expires the entries of pages and of the sitemap, which have a TTL; nothing is assumed
of owners or of the generation. `PromptCommit` in `jobs_settle` is not fairness: it
restricts the environment to brokers that deliver after the commit, which the code
does not ensure. Without it `EveryRequestSettles` fails, which is the exception
`outrun` of `NoForgottenJob`.

The type invariant of every module is a theorem, and so are `NothingOutlivesItsOwner`
and `ErrorsNeedARace` of `ApiAccess`; no run repeats them.

## 4. What is proved

`tlapm` checks these theorems for all values of the constants that satisfy the
modules' assumptions: any number of users, workers, requests, retries, deaths and
failures, any limits and tiers. Each proof has an inductive invariant, a lemma per
action that it is kept, and the properties as consequences of it. Every safety
invariant and every action property of the runs is stated by a theorem.

**PortfolioJobs_proofs.** `TypeCorrect` is the type invariant, which is inductive.
`NoJobForgotten` is not: that a row in progress has a live task depends on what
workers past the load know. `JobInv` adds that a row exists only for a committed
request (`RowsAreCommitted`), that a worker between the load and its outcome holds
a portfolio whose request was committed (`LoadedAreCommitted`), and that every row
in progress, and already every enqueued request, has a message, a worker before
its outcome, or one of the named exceptions (`JobsAttended`). `Implementation` is
step simulation of `PortfolioLifecycle!SafeSpec`. A worker may set a row back to
`generating` and to an outcome, and the abstract `Begin` and `Finish` allow that
only from certain stages: `LifeInv` adds that the portfolio of a worker past
`MarkGenerating`, or about to skip its UPDATE, is not shown as queued
(`PastQueued`). `Touches` lists what a step can do to one stage, and
`TouchesRefines` maps each case to an abstract step or a stutter. `LimitBounded`
counts: `LimitInv` bounds the rows and open requests of a user, and
`OnlyAdmissionGives` shows that no other step adds one. `OutcomeTold` rests on
`OutcomesFollowed`: while the outcome of a row is not announced, a message, a worker
before its outcome or a worker that holds just this outcome will announce one; a
worker that dies there leaves a message. `CopiesBounded` counts the messages and
the workers of a portfolio (`CopiesOK`, as two finite sets): a retry gives its own
copy up, so only a death adds one. `AdvancesOnly` follows from that: without a death
there is one copy, so what its worker read of the row stays true until the worker
writes it (`SoleCopyKnows`).

**PublicPage_proofs.** `StaleNeedsARace` is not inductive: a deletion drops the entry
first and hides the page later, without telling the cache again. `PageInv` adds that
whatever such a deletion leaves behind at its commit is in `raced` or `undropped`
already (`DropOK`), as only a fill after the drop, which `Overtaken` sees, or a failed
drop can have left it there. A toggle is excused by `Telling` between its commit and
its drop and by nothing else. `StaleByRaceOnly` follows.

**Marketplace, in PublicPage_proofs.** `MkInv` says of a request that it knows a
template and a rating (`CallsOK`); that a review which nothing has mingled with is the
only one open and has read the stored rating (`AlonesOK`); that this rating is that
of the committed reviews unless reviews mingled or a reviewer left, and never counts
more than there are (`RatingsOK`); that an uncontested decision is alone with a
pending template (`DecisionsOK`); and that an account at Stripe is the stored one or
one about to be stored (`AccountsOK`). `RatingKept`,
`OneAccount` and `DecisionStands` follow. The average is a sum over a set. That
such a sum is a number (`SumsAreNatural`) would be an induction on the set; it is
proved by the least size for which it fails.

**WebhookDelivery_proofs.** `DeliveryInv` says that a delivery that no death, fault
or replay has touched has one task, a message or a worker (`SingleOK`), that every
retry has an attempt on record (`BudgetOK`, from which "used up all retries" follows
by counting), that the id of an uncommitted row is its own (`RowsOK`), and that
posts made and in flight are covered by what the throttle admitted, by the workers
it admitted in an earlier minute, and by its failures (`PaceOK`, an argument by
cardinalities). `NothingVanishes`, `ReceiptsLogged`, `OverWhenAnswered` and `Paced`
are consequences. `Bounded` needs more than one task: `TriesOK` says that the retry
count which this task carries, as a message or in a worker, is at least the number of
attempts made before it. `InsertTries` is where the single task is needed, as the
row it inserts must be no other worker's.

**Organization_proofs.** `OrgInv` is the type invariant and, for each request, what
its program counter implies (`RequestOK`) and what it may still believe (`ReadsOK`:
a removal that is ready and not stale is about a member who is no owner, or there
are at least two owners). From it `OwnersAreKept` (a fresh removal leaves one of at
least two owners, lemmas `OneOfSeveral` and `FreshRemoval`) and `OwnerlessStays`
(only a request that an owner authorized can assign the role) follow action by
action. `MembershipImplemented` is step simulation: at the commit, `RequestOK` gives the
abstract `Join` and `Appoint` their guards, in particular that a request still `alive`
is about somebody who is a member, and `ReadsOK` gives `Leave` its own (`InviteJoins`,
`UpdateAppoints`, `RemovalLeaves`). `OneMemberAtATime` is read off the abstract steps.

**Billing, in Organization_proofs.** `BillInv` has five parts besides the types.
`WorkOK` and `HoldersOK` say what a request at work knows, and that the customer on
a user's row is that user's. `OnceOK`: a user whom no search has missed has one
customer, and one who was not sent to a second checkout has one open session or
subscription, never both; `OnceOnly` follows. `LogOK`: a subscription begins
with a checkout event, and the newest event of a user tells whether Stripe bills.
`TurnsOK` is about users who are not disturbed: their deliveries are handled one at a
time, never an event older than an answered one (`InTurn`), the organization's plan is
the user's, also in the session of a delivery (`Mirrored`), and the plan is the one the
newest answered event asks for (`AppliedOK`). An event that finds no user changes
nothing: it has an older one that is not settled (`BlindOK`), as a settled checkout
leaves the customer in the row (`KnownOK`). `SettledOf` counts an event whose key is
set as settled even without an answer, since its next delivery is answered without
being handled; `InTurn` allows such a key once a newer event has made it good.

`AloneOK` holds of every user and carries the repair: a delivery that met no other one
is the user's only one, and what it has loaded is still so. When it is of the newest
event, its commit (case `PutsRight` in `CommitStep`) makes all of `TurnsOK` true again
for a user it was not true for. `OrgFollows` is `Mirrored`. `PlansFollow` combines
`AppliedOK` and `LogOK`: when all events are answered, the newest answered one is
Stripe's newest.

**Resumes_proofs.** `TypeCorrect` is not inductive by itself: an export task reads
the data of `source[e]`, which is a resume's only because no export is of a resume
that was never created (`ExportOK`), and a worker that parses or renders holds a
message of that task (`WorkerOK`). `FilesInv` adds `FileOK`: a row belongs to a
completed upload, the object is in the bucket before the row is committed, a
deletion takes the object before the row, and a closed account has no row.
`FilesBehindRows` and `DeletionsAreThorough` follow from it. `NothingComesBack`, that
no request or task puts anything back into a closed account, needs `SoleInv` below:
the data of a resume and the rows of exports go with the row of the resume.
`RowsFollowFiles` is the three together.
`WorkInv` adds what makes waiting work safe: a worker past the load knows that the
upload was committed (`LoadedOK`), an export that has a row has a resume with data,
so that its task cannot find nothing and succeed (`ExportData`), and every waiting
job, an enqueued upload included, has a message, a worker that can still help it,
or an excuse (`Served`). `WorkRemembered` is what a reader sees of it. `SoleInv`
says that a resume whose parse was not redelivered has at most one message or
worker, and none once its data is there (`SoleOK`); `ParsedStays` follows. `HashInv`
builds on it: the hash of an export stays that of its resume's data (`HashOK`), since
parsed data does not change, a worker that renders holds content of that hash
(`RenderOK`), and there is none for an export nobody asked for (`Asked`).
`PdfsMatch` follows.

**UserMirror_proofs.** One row per account is the work of the unique indexes, but
an index sees committed rows and the one insert it waits for. `MirrorInv` says that
open inserts differ pairwise in id, account and address (`Apart`) and from the table
(`NewOK`), that ids are not reused, and that a loaded row keeps its account
(`FoundOK`). `OneRow` also covers the personal organizations. `LockInv` adds that
every account has a newest event, which says what Clerk says now and is pending
until it is applied; once it is, the table matches but for the four exceptions
(`Newest`, `Tracked`). A handler works for the account of its event and writes what
that event said (`SourceOK`). When nothing is pending the newest event is applied,
which is `Lockstep`.

**ApiAccess_proofs.** `AccessInv` says that ids are given once, that an unused code
has no token, that a code that is not shared is held by one exchange (`ExchangeOK`),
that what has ended is not active (`EndedOK`), what each open call may have seen
(`CallsOK`), and that whatever an app can still do for a user who withdrew it does
with a code open then (`WithdrawnOK`). `OneTime`, `OwnersOutlive`, `Refused`,
`Withdrawn` and `ErrorsExplained` follow.

`GrantsImplemented` is step simulation of `AccessGrants`. `RowsAreShown` replaces the
choice of a row by its id with the row itself, as ids are unique. `ExchangeOK` carries
what the exchange needs at its commit: the row has kept its user, app and scopes since
it was read, and is unused unless the code is shared. `GivingNothing` covers all steps
that only take away, an abstract `EndSome`: deletions with their cascades, revocations
and the clock, where a row once gone or expired has to stay so (`CodesGo`,
`TokensEnd`, `KeysEnd`). `ConsentGrants`, `KeyIsIssued` and `ExchangeRedeems` are the
steps that give. `RightsKept` follows from the abstract steps: no right is
changed, and a token begins with a code that stands for a consent.

**RateLimits_proofs.** `WindowKept` says that no window of time exceeds the limit,
wherever it begins. It is about all requests ever served, of which Redis remembers
some. `MembersOK` says which: those since some moment that is no later than the stamp of one of them, or as
many as the limit. `KeptIsComplete` shows that a request nobody overtook sees every
request of its window, and `AdmitKeepsWindow` that admitting it keeps `WindowHolds`.
`ExpiryOK` (the counter's expiry is a day from its last touch unless an EXPIRE was
lost) gives `ResetInADay`. `WaitIsRewarded` is about two requests, the one that was told
how long to wait and the one that comes back, and has two halves, the window and the
lock. `PromisesOK` carries the fact between them: what
the window holds now leaves room at the moment promised, unless the wait was cut to
whole seconds. A request that is served ends the promise, one that is refused renews it. `OldestMakesRoom` shows that for the stamp the script reads,
`RoomStays` that it lasts, and `WaitIsEnough` that a wait that is not cut is long
enough. For the lock, `LocksOK` says that one which was not set since the refused
request read the clock is one which that request saw ending: TTL rounds to the nearest
second, so it is over in less than half a second (`TtlIsClose`), and every wait is at
least a second (`RetryAfterIsLong`). The same part of `LocksOK` for what a refusal by
the lock has named gives `LockoutsEnd`: SET NX does not move a lock that is there,
whatever failures come late, and the rounding leaves nothing that TTL would still show.

**AiRequests, in RateLimits_proofs.** `AiInv` says that the counter of a day that
has not lapsed has counted what was admitted, and counted more only if a request
found a cap used up (`CountOK`); that a request which is counted knows its bucket and
a day that has begun (`AskerOK`); that a text paid for stays in the cache for the life
of an entry (`KeptOK`: an overlapping answer replaces it by one that lives longer); and
that a request which asks, and is not `blind`, has seen the cache without one (`DueOK`).
`CapHolds` and `TextsArePaidOnce` follow.

**Assumptions.** The theorems use what the modules assume of their constants:
bounds are naturals, limits and durations positive where the code's are, sets of ids
disjoint where their columns differ, and `None` not among the values it stands in
for. The last says more in `UserMirror`, `AiRequests` and `Billing`, where `None` is
to differ from records and from plans too, as Python's `None` does.

**Only model-checked.** Liveness under fairness, `EveryRequestSettles`,
`HiddenPagesGoDark` and `SettledPagesAreRight`, and whatever needs ENABLED: the prover has no rule for it. The
temporal part of `PortfolioLifecycle`'s specification is not proved for the same
reason; `Implementation` is about `SafeSpec`. Induction over data is out of reach as
well; where a proof needs one (`SumsAreNatural` of the ratings, `LastExists` for the
newest of a set of events), it takes a least counterexample.

## 5. What the models show of the code

The exceptions the properties name are things the code does. Where a hazard is itself
such an exception, its property does not exclude it but says how far it reaches: so
`CodesAreOneTime`, `WithdrawnIsOut`, `EndedIsRefused`, `OneAccountPerAuthor`,
`DecisionIsFinal`, `ResetsAfterADay` and the two halves of `OnceAtStripe`. Some of the
exceptions disagree with what the repository says elsewhere.

- `routers/portfolio.py:154` and `routers/resume.py:433` enqueue a task before the
  row is committed. A worker that is faster finds nothing and reports success, and
  the row waits for ever (`outrun`). `NoForgottenJob` and `NoForgottenWork` show
  what else can lose work. `docs/PAPER.md:259` says of exports and webhook
  deliveries that they are rejected on worker loss; their tasks do not set it.
- `workers/tasks/generate_portfolio.py:70` uploads the page through a function that
  refuses HTML; the exception is swallowed, and no published portfolio has a stored
  page (`hosted` stays empty).
- `routers/portfolio.py:297` fills the cache from a row that may have been made
  private since (`raced`); the page is served until the entry expires, while
  `backend/tests/integration/test_portfolio_router.py:344` expects a 404 of a private page.
- The page of a portfolio is public before it is generated (`routers/portfolio.py:248`
  asks for `is_public` only), and `generate_portfolio.py:92` commits the content
  without telling the cache. Who comes too early leaves the unfinished page there for
  an hour; `SettledPagesAreRight` says that this passes.
- Deleting an account (`routers/compliance.py:132`, `routers/clerk_webhook.py:135`)
  removes the rows of resumes and exports by cascade and never asks the storage: the
  uploaded files and the PDFs stay in the bucket, and no row is left that names them.
  `README.md:119` of the repository calls it "right-to-erasure with cascaded cleanup".
  The cached page stays until it expires, too.
- `routers/billing.py:317` sets the idempotency key before the commit; if that
  fails, the repeated event is skipped (`disturbed`). Overlapping or reordered
  events can leave the wrong plan. The user's next event, if it is handled by itself,
  puts it right; a subscription may send none for a month.
- `workers/tasks/deliver_webhook.py:64` makes a new delivery id for each attempt,
  while `docs/PAPER.md:746` promises a stable one.
- Two owners can remove each other, and a sole owner can demote himself
  (`OwnerlessIsFinal`).
- A user event that arrives late creates a deleted user again, or writes an older
  address, and nothing repairs it.
- Two overlapping exchanges of one code both get a token; revoking the last token
  leaves an unused code good. `/public/me` fails for every access token, since it
  reads the key's prefix (`ErrorsNeedARace`).
- Two concurrent reviews leave a rating without one of them until the next review.
- A `Retry-After` is cut to whole seconds: who comes back exactly then is refused
  again, and the refusal counts towards a ban.
- From the fifth refusal on, a refusal that finds no lock sets one
  (`core/rate_limit.py:298`, 181-183), of 15 minutes or more, and answers with the short
  wait of the window all the same (299-306): who waits as told is refused by the lock
  (279-289). It is the exception `banned` of
  `RetryAfterIsEnough`; the refusal by the lock then names a wait that is enough
  (`LockEndsAsTold`).
- The daily counter can lapse in the last second of its day, and requests it refused
  count against the larger cap after an upgrade. `services/quota.py:16` lists
  `/portfolio/generate`, which consumes no quota.
- `services/resume_parser.py:266` promises "Retries up to 3 times". An unusable answer
  is cached before it is parsed, so that the retries read it back and ask nobody, unless
  it has expired, was not stored, or another parse of the same text, under way at the
  same time, has put its own answer there. `PaidOnce` states this from the side of cost.
  `services/ai_client.py:7` names two providers; the code asks three, Gemini first.
- A worker's death can publish a portfolio twice; a redelivered parse can take a
  finished resume back to `failed`.

Met on the way and outside the instances: the payload that `routers/resume.py:649`
hashes has no location while the one the task renders has
(`export_resume_pdf.py:43`), so two resumes of a user that differ only there share a
key; no code deletes a PDF when its resume goes; `suggest-skills` and
`cover-letter` call the AI client synchronously and hold up the event loop.

## 6. What is not modelled

Data is abstracted throughout: the content of resumes, templates, pages, mails and
payloads, HTTP status codes beyond their effect, logging and metrics.
Authentication is taken as given: the key cache of `verify_clerk_token` and the
signature checks of the webhooks only refuse.

- *Custom domains.* A unique index decides between two claims; verification is a
  DNS lookup that stores nothing. That setting one drops the cached page is an
  action of `PublicPage`.
- *SSO, admin, analytics, audit.* SSO is a stub; the others are single statements
  and reports, and the view counter is one atomic UPDATE.
- *PDF rendering, mail, images, templates.* Conversions of data and calls of
  services, whose outcome the jobs and exports model as a choice.
- *Frontend.* Pages over the API. `useJobStatus.ts:65` stops polling when it gets
  no token, which is visible in the one function.
- *Configuration, telemetry, migrations, start-up.* Wiring without a state machine.
- *Parts of modelled components.* The lockout by e-mail address, which no route
  asks for; the fixed limits of `limiter.py`, a decorator of a library; listings
  and branding of organizations; the export of an account, which only reads.
