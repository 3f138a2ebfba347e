------------------------------- MODULE Billing -------------------------------
(***************************************************************************)
(* Subscriptions: create_checkout, the Stripe webhook and the plan columns *)
(* of a user and of the user's personal organization.                      *)
(*                                                                         *)
(* Stripe is external: it keeps customers, checkout sessions and           *)
(* subscriptions; a search may miss a customer that was just created.      *)
(* Each change of a subscription is an event, delivered at least once and  *)
(* in any order until it is answered with 200.                             *)
(*                                                                         *)
(* A request is a checkout (search or create the customer, open a session, *)
(* commit) or a delivery (read the idempotency key, load the user and then *)
(* the organization, set the key, and only then commit).  Sessions of the  *)
(* database write the columns that differ from what they loaded.           *)
(***************************************************************************)
EXTENDS Integers, Sequences, FiniteSetsExt

CONSTANTS
    Users,
    Handlers,       \* requests in progress at the API
    None,
    MaxCustomers,   \* bound on the customers ever created at Stripe
    MaxSessions,    \* bound on the checkout sessions ever opened
    MaxEvents,      \* bound on the events of the log
    MaxMishaps      \* bound on repeated deliveries, failed requests and
                    \* failures of Redis, all together

ASSUME BillingAssumption ==
    /\ None \notin Users \cup Nat \cup {"free", "pro"}
    /\ {MaxCustomers, MaxSessions, MaxEvents, MaxMishaps} \subseteq Nat

VARIABLES
    owner,        \* Stripe: the user each customer was created for, oldest first
    sessions,     \* Stripe: the number of open checkout sessions, by customer
    subs,         \* Stripe: the subscriptions, oldest first
    log,          \* Stripe: the events, oldest first; an index is an event id
    answered,     \* Stripe: the events answered with 200
    customer,     \* users.stripe_customer_id
    plan,         \* users.plan
    orgPlan,      \* organizations.plan of the personal organization
    processed,    \* idempotency keys in Redis
    handler,      \* requests in progress
    disturbed,    \* history: users whose events overlapped, came late or were lost,
                  \* and whom no event has put right since
    crossed,      \* history: requests that met another one about the same user
    reopened,     \* history: users with two checkouts, or one beside a subscription
    missed,       \* history: users whose customer a search could not find yet
    mishaps       \* number of mishaps so far
vars == <<owner, sessions, subs, log, answered, customer, plan, orgPlan,
          processed, handler, disturbed, crossed, reopened, missed, mishaps>>

stripeVars == <<sessions, subs, log>>
rowVars    == <<customer, plan, orgPlan>>
ghostVars  == <<disturbed, crossed, reopened, missed>>

\* What an event means to the handler: checkout.session.completed, invoice.paid,
\* customer.subscription.updated to active or trialing, and the downgrades
\* (deleted, paused, updated to canceled, unpaid or past_due).
Kinds     == {"checkout", "paid", "active", "lost"}
SubStates == {"active", "suspended", "canceled"}
Plans     == {"free", "pro"}
Customers == 1..MaxCustomers
EventIds  == 1..MaxEvents
Idle      == [pc |-> "idle", e |-> None, user |-> None,
              hadPlan |-> None, hadOrg |-> None, hadCustomer |-> None, customer |-> None]
At(h, pc) == handler[h].pc = pc

CustomersOf(u) == {c \in 1..Len(owner) : owner[c] = u}
CustomerOf(e)  == subs[log[e].sub].customer
UserOf(e)      == owner[CustomerOf(e)]
Live(u)        == {s \in 1..Len(subs) : /\ owner[subs[s].customer] = u
                                        /\ subs[s].state # "canceled"}
Billed(u)      == {s \in Live(u) : subs[s].state = "active"}
EventsOf(u)    == {e \in 1..Len(log) : UserOf(e) = u}
BusyWith(u)    == {h \in Handlers : handler[h].e # None /\ UserOf(handler[h].e) = u}

\* Mutated: every kind of event finds its user by the customer in the row.
Recipients_ByCustomer(e) == {u \in Users : customer[u] = CustomerOf(e)}
Recipients(e) == {u \in Users : IF log[e].kind = "checkout" THEN u = UserOf(e)
                                 ELSE customer[u] = CustomerOf(e)}

\* Mutated: a downgrade leaves the organization's plan alone.
OrgPlanAfter_UpgradesOnly(kind) == "pro"
OrgPlanAfter(kind) == IF kind = "lost" THEN "free" ELSE "pro"
PlanAfter(kind) == IF kind = "lost" THEN "free" ELSE "pro"

Mishap ==
    /\ mishaps < MaxMishaps
    /\ mishaps' = mishaps + 1
NoMishap == UNCHANGED mishaps

Init ==
    /\ owner = <<>>
    /\ sessions = [c \in Customers |-> 0]
    /\ subs = <<>>
    /\ log = <<>>
    /\ answered = {}
    /\ customer = [u \in Users |-> None]
    /\ plan = [u \in Users |-> "free"]
    /\ orgPlan = [u \in Users |-> "free"]
    /\ processed = {}
    /\ handler = [h \in Handlers |-> Idle]
    /\ disturbed = {} /\ crossed = {} /\ reopened = {} /\ missed = {}
    /\ mishaps = 0

-----------------------------------------------------------------------------
(* Stripe *)

Emit(s, kind) ==
    /\ Len(log) < MaxEvents
    /\ log' = Append(log, [kind |-> kind, sub |-> s])
    /\ UNCHANGED <<owner, answered, rowVars, processed, handler, ghostVars,
                   mishaps>>

\* The customer pays on the page that create_checkout returned.
Subscribe(c) ==
    /\ sessions[c] > 0
    /\ sessions' = [sessions EXCEPT ![c] = @ - 1]
    /\ subs' = Append(subs, [customer |-> c, state |-> "active"])
    /\ Emit(Len(subs) + 1, "checkout")

Change(s, from, to, kind) ==
    /\ subs[s].state = from
    /\ subs' = [subs EXCEPT ![s].state = to]
    /\ Emit(s, kind)
    /\ UNCHANGED sessions

Renew(s)   == Change(s, "active", "active", "paid")
Suspend(s) == Change(s, "active", "suspended", "lost")
Resume(s)  == Change(s, "suspended", "active", "active")
GiveUp(s)  == Change(s, "suspended", "canceled", "lost")

\* The portal that get_portal opens is that of the stored customer.
Cancel(s) ==
    /\ customer[owner[subs[s].customer]] = subs[s].customer
    /\ Change(s, "active", "canceled", "lost")

-----------------------------------------------------------------------------
(* POST /billing/create-checkout *)

MaySubscribe(p) == p # "pro"

OpenCheckout(h, u) ==
    /\ At(h, "idle")
    /\ MaySubscribe(plan[u])
    /\ handler' = [handler EXCEPT ![h] =
         [Idle EXCEPT !.pc = IF customer[u] = None THEN "finding" ELSE "opening",
                      !.user = u, !.hadPlan = plan[u],
                      !.hadCustomer = customer[u], !.customer = customer[u]]]
    /\ UNCHANGED <<owner, stripeVars, answered, rowVars, processed, ghostVars,
                   mishaps>>

\* Mutated: what the search found is not used.
Existing_Ignored(found) == {}
Existing(found) == found

InStep(u, pc) == {h \in Handlers : handler[h].user = u /\ handler[h].pc = pc}

\* get_or_create_customer, the search: it may miss what was created shortly before.
Search(h) ==
    LET u == handler[h].user IN
    /\ At(h, "finding")
    /\ \E found \in {CustomersOf(u), {}} :
         /\ \/ \E c \in Existing(found) :
                  handler' = [handler EXCEPT ![h].pc = "opening", ![h].customer = c]
            \/ /\ Existing(found) = {}
               /\ handler' = [handler EXCEPT ![h].pc = "creating"]
         /\ missed' = IF found # CustomersOf(u) \/ InStep(u, "creating") # {}
                      THEN missed \cup {u} ELSE missed
    /\ UNCHANGED <<owner, stripeVars, answered, rowVars, processed, disturbed, crossed,
                   reopened, mishaps>>

Create(h) ==
    /\ At(h, "creating")
    /\ Len(owner) < MaxCustomers
    /\ owner' = Append(owner, handler[h].user)
    /\ handler' = [handler EXCEPT ![h].pc = "opening", ![h].customer = Len(owner) + 1]
    /\ UNCHANGED <<stripeVars, answered, rowVars, processed, ghostVars, mishaps>>

\* create_checkout_session, for the user's first organization.
OpenSession(h) ==
    LET u == handler[h].user  c == handler[h].customer IN
    /\ At(h, "opening")
    /\ Len(subs) + MapThenSumSet(LAMBDA d : sessions[d], Customers) < MaxSessions
    /\ sessions' = [sessions EXCEPT ![c] = @ + 1]
    /\ reopened' = IF \/ \E d \in CustomersOf(u) : sessions[d] > 0
                      \/ Live(u) # {} /\ handler[h].hadPlan # "pro"
                   THEN reopened \cup {u} ELSE reopened
    /\ handler' = [handler EXCEPT ![h].pc = "opened"]
    /\ UNCHANGED <<owner, subs, log, answered, rowVars, processed, disturbed,
                   crossed, missed, mishaps>>

CommitCheckout(h) ==
    /\ At(h, "opened")
    /\ customer' = IF handler[h].hadCustomer = None
                   THEN [customer EXCEPT ![handler[h].user] = handler[h].customer]
                   ELSE customer
    /\ handler' = [handler EXCEPT ![h] = Idle]
    /\ UNCHANGED <<owner, stripeVars, answered, plan, orgPlan, processed,
                   ghostVars, mishaps>>

-----------------------------------------------------------------------------
(* POST /billing/webhook *)

Overtaken(e) == \E d \in EventsOf(UserOf(e)) : d > e /\ d \in answered

Start(h, e) ==
    LET u == UserOf(e)  others == BusyWith(u) IN
    /\ handler' = [handler EXCEPT ![h] = [Idle EXCEPT !.pc = "fresh", !.e = e]]
    /\ disturbed' = IF others # {} \/ Overtaken(e) THEN disturbed \cup {u} ELSE disturbed
    /\ crossed' = IF others # {} THEN crossed \cup others \cup {h} ELSE crossed \ {h}

\* Stripe sends event e (again), and the handler looks its key up: it is there,
\* or it is not, or Redis does not answer.
Deliver(h, e) ==
    LET again == e \in answered \/ \E g \in Handlers : handler[g].e = e IN
    /\ At(h, "idle")
    /\ \/ /\ e \in processed
          /\ IF again THEN Mishap ELSE NoMishap
          /\ answered' = answered \cup {e}
          /\ UNCHANGED <<handler, disturbed, crossed>>
       \/ /\ IF again \/ e \in processed THEN Mishap ELSE NoMishap
          /\ Start(h, e)
          /\ UNCHANGED answered
    /\ UNCHANGED <<owner, stripeVars, rowVars, processed, reopened, missed>>

\* The user is loaded: for a checkout by the id in the metadata, else by customer.
LoadUser(h) ==
    LET found == Recipients(handler[h].e) IN
    /\ At(h, "fresh")
    /\ \/ \E u \in found : handler' = [handler EXCEPT
            ![h] = [@ EXCEPT !.pc = "loaded", !.user = u, !.hadPlan = plan[u],
                             !.hadCustomer = customer[u]]]
       \/ found = {} /\ handler' = [handler EXCEPT ![h].pc = "computed"]
    /\ UNCHANGED <<owner, stripeVars, rowVars, answered, processed, ghostVars,
                   mishaps>>

\* _sync_org_billing loads the organization; a re-activation does so only if
\* the plan changes.
LoadOrganization(h) ==
    /\ At(h, "loaded")
    /\ handler' =
         [handler EXCEPT ![h].pc = "computed",
            ![h].hadOrg = IF log[handler[h].e].kind = "active" /\ handler[h].hadPlan = "pro"
                          THEN None ELSE orgPlan[handler[h].user]]
    /\ UNCHANGED <<owner, stripeVars, rowVars, answered, processed, ghostVars,
                   mishaps>>

\* The mail and the subscription.changed event are dispatched, then cache.set;
\* a failing Redis is swallowed.
SetKey(h) ==
    /\ At(h, "computed")
    /\ \/ processed' = processed \cup {handler[h].e} /\ NoMishap
       \/ UNCHANGED processed /\ Mishap
    /\ handler' = [handler EXCEPT ![h].pc = "keyed"]
    /\ UNCHANGED <<owner, stripeVars, rowVars, answered, ghostVars>>

\* The user's newest event, handled from end to end with no other one of the user's,
\* has reached both rows.
PutsRight(h) ==
    LET e == handler[h].e IN
    /\ h \notin crossed /\ handler[h].hadOrg # None
    /\ \A d \in EventsOf(UserOf(e)) : d <= e

\* get_db commits the columns that changed, and Stripe gets its 200.
Commit(h) ==
    LET e == handler[h].e  kind == log[e].kind  u == handler[h].user IN
    /\ At(h, "keyed")
    /\ plan' = IF handler[h].hadPlan \in Plans \ {PlanAfter(kind)}
               THEN [plan EXCEPT ![u] = PlanAfter(kind)] ELSE plan
    /\ orgPlan' = IF handler[h].hadOrg \in Plans \ {OrgPlanAfter(kind)}
                  THEN [orgPlan EXCEPT ![u] = OrgPlanAfter(kind)] ELSE orgPlan
    /\ customer' = IF kind = "checkout" /\ handler[h].hadCustomer # CustomerOf(e)
                   THEN [customer EXCEPT ![u] = CustomerOf(e)] ELSE customer
    /\ answered' = answered \cup {e}
    /\ disturbed' = IF PutsRight(h) THEN disturbed \ {UserOf(e)} ELSE disturbed
    /\ handler' = [handler EXCEPT ![h] = Idle]
    /\ UNCHANGED <<owner, stripeVars, processed, crossed, reopened, missed, mishaps>>

\* A call to Stripe or the commit fails, or the process dies: the rows stay as
\* they were, Stripe gets no 200, and the key stays if it was set.
Fail(h) ==
    LET e == handler[h].e IN
    /\ ~At(h, "idle")
    /\ Mishap
    /\ handler' = [handler EXCEPT ![h] = Idle]
    /\ disturbed' = IF e \in processed THEN disturbed \cup {UserOf(e)} ELSE disturbed
    /\ UNCHANGED <<owner, stripeVars, rowVars, answered, processed, crossed,
                   reopened, missed>>

\* WEBHOOK_IDEMPOTENCY_TTL_SECONDS have passed: a day, which no delivery lasts.
ExpireKey(e) ==
    /\ e \in processed
    /\ \A h \in Handlers : handler[h].e # e
    /\ processed' = processed \ {e}
    /\ UNCHANGED <<owner, stripeVars, rowVars, answered, handler, ghostVars,
                   mishaps>>

-----------------------------------------------------------------------------
CheckoutStep(h) == Search(h) \/ Create(h) \/ OpenSession(h) \/ CommitCheckout(h)
HandlerStep(h) == LoadUser(h) \/ LoadOrganization(h) \/ SetKey(h) \/ Commit(h)

Next ==
    \/ \E c \in 1..Len(owner) : Subscribe(c)
    \/ \E s \in 1..Len(subs) : Renew(s) \/ Suspend(s) \/ Resume(s) \/ GiveUp(s) \/ Cancel(s)
    \/ \E h \in Handlers :
         \/ \E u \in Users : OpenCheckout(h, u)
         \/ \E e \in 1..Len(log) : Deliver(h, e)
         \/ CheckoutStep(h) \/ HandlerStep(h)
         \/ Fail(h)
    \/ \E e \in processed : ExpireKey(e)

Spec == Init /\ [][Next]_vars

-----------------------------------------------------------------------------
(* Properties                                                              *)

\* The type invariant.
TypeOK ==
    /\ owner \in Seq(Users) /\ Len(owner) <= MaxCustomers
    /\ sessions \in [Customers -> Nat]
    /\ subs \in Seq([customer: 1..Len(owner), state: SubStates])
    /\ log \in Seq([kind: Kinds, sub: 1..Len(subs)]) /\ Len(log) <= MaxEvents
    /\ answered \subseteq 1..Len(log)
    /\ customer \in [Users -> 1..Len(owner) \cup {None}]
    /\ plan \in [Users -> Plans]
    /\ orgPlan \in [Users -> Plans]
    /\ processed \subseteq 1..Len(log)
    /\ handler \in [Handlers ->
         [pc: {"idle", "finding", "creating", "opening", "opened",
               "fresh", "loaded", "computed", "keyed"},
          e: EventIds \cup {None}, user: Users \cup {None},
          hadPlan: Plans \cup {None}, hadOrg: Plans \cup {None},
          hadCustomer: Customers \cup {None}, customer: Customers \cup {None}]]
    /\ {disturbed, reopened, missed} \subseteq SUBSET Users /\ crossed \subseteq Handlers
    /\ mishaps \in 0..MaxMishaps

\* Nothing of the user's is under way: all events are answered.
Quiet(u) == EventsOf(u) \subseteq answered /\ BusyWith(u) = {}

\* Once all its events are answered a user is on the plan that Stripe bills,
\* although events are sent twice and single deliveries fail; it takes two
\* deliveries at a time, a late event, a failure after the key was set, a second
\* customer or a second checkout to make it wrong, and after the first three the
\* user's next event, handled by itself, makes it right again.
PlanIsRight ==
    \A u \in Users : Quiet(u) /\ u \notin disturbed \cup reopened \cup missed
                        => (plan[u] = "pro" <=> Billed(u) # {})

\* The plan of the personal organization mirrors the user's at every commit,
\* unless deliveries for the user overlap, come late or are lost, and again once an
\* event has put that right.
OrgMirrorsPlan ==
    \A u \in Users : u \notin disturbed => orgPlan[u] = plan[u]

\* Stripe has everything of a user once, whatever fails and overlaps.  "You're
\* already on the Pro plan": nobody is billed for two subscriptions -- unless a
\* checkout was opened while another was open, or beside a subscription that the plan
\* did not (yet, or any more) show.  get_or_create_customer: a user has one customer
\* -- unless a search missed the first one, or two searches came before it was
\* created.
OnceAtStripe ==
    \A u \in Users :
        /\ u \notin reopened => Cardinality(Billed(u)) <= 1
        /\ u \notin missed => Cardinality(CustomersOf(u)) <= 1

=============================================================================
