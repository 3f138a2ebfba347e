----------------------------- MODULE Marketplace -----------------------------
(***************************************************************************)
(* The template marketplace: submission, moderation, reviews with the       *)
(* rating kept on the template, and the payout accounts of its authors.     *)
(*                                                                         *)
(* Every endpoint of routers/marketplace.py and routers/connect.py reads,   *)
(* decides and writes in one transaction without a lock, so two requests    *)
(* may decide on the same state.  The rating of a template is not counted   *)
(* by the database: add_review computes it from the reviews its own         *)
(* transaction sees and stores it with its commit.  Deleting an account     *)
(* takes its reviews along and leaves its templates without author.         *)
(*                                                                         *)
(* The model has one template id, several requests open at a time, and      *)
(* Stripe, where accounts are created and never found again.                *)
(***************************************************************************)
EXTENDS Integers, Sequences, FiniteSets, FiniteSetsExt

CONSTANTS
    Users,     \* accounts
    Authors,   \* those that submit templates and want to be paid
    Ratings,   \* what a review may give
    Requests,  \* requests open at the same time
    None,      \* Python's None
    MaxAccounts \* bound on the Stripe accounts ever created

ASSUME ConstantsAssumption ==
    /\ Authors \subseteq Users
    /\ Ratings \subseteq Nat \ {0}
    /\ None \notin Users \cup Nat
    /\ MaxAccounts \in Nat

VARIABLES
    user,      \* existing accounts
    status,    \* Template.status, "none" before it is submitted
    author,    \* Template.author_user_id
    reviews,   \* committed rows of template_reviews, by user
    rating,    \* Template.rating_average and rating_count
    request,   \* what each open request is doing
    stripe,    \* accounts created at Stripe, by number, with their user
    payout,    \* User.stripe_account_id
    mingled,   \* the rating was last written by a review that was not alone
    departed,  \* an account has taken its review along since
    contested, \* two moderators have read the template pending
    doubled    \* users whose payout account was created twice, or in vain
vars == <<user, status, author, reviews, rating, request, stripe, payout, mingled,
          departed, contested, doubled>>

template  == <<status, author, reviews, rating>>
accounts  == <<stripe, payout>>
ghostVars == <<mingled, departed, contested, doubled>>

\* The average is kept in hundredths.
NoRating == [average |-> 0, count |-> 0]
Rating   == [average: Nat, count: Nat]
\* user: the caller; rating, decision: what it sends; seen: the rating of the
\* template as loaded; computed: the one to be stored; account: at Stripe;
\* alone: history, nothing else has touched the reviews since the load.
Request == [pc: {"idle", "submit", "decide", "review", "upserted", "computed",
                 "onboard", "created"},
            user: Users \cup {None}, rating: Ratings \cup {None},
            decision: {"none", "approved", "rejected"},
            seen: Rating, computed: Rating, account: 0..MaxAccounts, alone: BOOLEAN]
Idle == [pc |-> "idle", user |-> None, rating |-> None, decision |-> "none",
         seen |-> NoRating, computed |-> NoRating, account |-> 0, alone |-> FALSE]

Finish(q) == request' = [request EXCEPT ![q] = Idle]
At(q, pc) == request[q].pc = pc
Open(pcs) == {q \in Requests : request[q].pc \in pcs}
Reviewing == Open({"review", "upserted", "computed"})
\* An upsert holds its own row and a share of its user's until the commit.
Upserting(u) == \E q \in Open({"upserted", "computed"}) : request[q].user = u

-----------------------------------------------------------------------------
Init ==
    /\ user = Users
    /\ status = "none"
    /\ author = None
    /\ reviews = [u \in Users |-> None]
    /\ rating = NoRating
    /\ request = [q \in Requests |-> Idle]
    /\ stripe = <<>>
    /\ payout = [u \in Users |-> 0]
    /\ mingled = FALSE
    /\ departed = FALSE
    /\ contested = FALSE
    /\ doubled = {}

(* submit_template *)
LoadForSubmit(q, u) ==
    /\ At(q, "idle")
    /\ u \in user
    /\ status = "none"
    /\ request' = [request EXCEPT ![q] = [Idle EXCEPT !.pc = "submit", !.user = u]]
    /\ UNCHANGED <<user, template, accounts, ghostVars>>

\* The primary key decides; the IntegrityError of the second is answered with 409.
CommitSubmit(q) ==
    /\ At(q, "submit")
    /\ IF status = "none" /\ request[q].user \in user
       THEN status' = "pending" /\ author' = request[q].user
       ELSE UNCHANGED <<status, author>>
    /\ Finish(q)
    /\ UNCHANGED <<user, reviews, rating, accounts, ghostVars>>

(* moderate_template, after _require_moderator *)
Decidable_Any == status # "none"
Decidable == status = "pending"

LoadForDecision(q, d) ==
    /\ At(q, "idle")
    /\ Decidable
    /\ request' = [request EXCEPT ![q] = [Idle EXCEPT !.pc = "decide", !.decision = d]]
    /\ contested' = (contested \/ Open({"decide"}) # {})
    /\ UNCHANGED <<user, template, accounts, mingled, departed, doubled>>

\* The UPDATE names the template by its id alone.
CommitDecision(q) ==
    /\ At(q, "decide")
    /\ status' = request[q].decision
    /\ Finish(q)
    /\ UNCHANGED <<user, author, reviews, rating, accounts, ghostVars>>

-----------------------------------------------------------------------------
(* add_review *)
Reviewable == status = "approved"

\* History: another request touches the reviews.
Disturb(f) == [q \in Requests |-> [f[q] EXCEPT !.alone = FALSE]]

LoadForReview(q, u, r) ==
    /\ At(q, "idle")
    /\ u \in user
    /\ Reviewable
    /\ author # u
    /\ request' = [Disturb(request) EXCEPT ![q] =
         [Idle EXCEPT !.pc = "review", !.user = u, !.rating = r, !.seen = rating,
                      !.alone = Reviewing = {}]]
    /\ UNCHANGED <<user, template, accounts, ghostVars>>

\* INSERT ... ON CONFLICT DO UPDATE.  It waits for an open upsert of the same
\* row, and the foreign key refuses a user who has gone.
Upsert(q) ==
    /\ At(q, "review")
    /\ ~Upserting(request[q].user)
    /\ IF request[q].user \in user
       THEN request' = [request EXCEPT ![q].pc = "upserted"]
       ELSE Finish(q)
    /\ UNCHANGED <<user, template, accounts, ghostVars>>

\* Reviews as the transaction of q sees them: those committed, and its own.
Visible_Committed(q) == reviews
Visible(q) == [reviews EXCEPT ![request[q].user] = request[q].rating]

\* Decimal.quantize: to the nearest hundredth, a half to the even one.
Hundredths(sum, n) ==
    LET q == (100 * sum) \div n  r == (100 * sum) % n
    IN IF 2 * r > n \/ (2 * r = n /\ q % 2 = 1) THEN q + 1 ELSE q

RatingOf(rs) ==
    LET givers == {u \in Users : rs[u] # None}  n == Cardinality(givers)
    IN IF n = 0 THEN NoRating
       ELSE [average |-> Hundredths(MapThenSumSet(LAMBDA u : rs[u], givers), n),
             count |-> n]

\* SELECT avg(rating), count(id).
Compute(q) ==
    /\ At(q, "upserted")
    /\ request' = [request EXCEPT ![q].pc = "computed",
                                  ![q].computed = RatingOf(Visible(q))]
    /\ UNCHANGED <<user, template, accounts, ghostVars>>

\* The UPDATE sets only the columns that differ from the row as loaded: a column
\* another review has changed since keeps that review's value.
Stored(old, seen, new) ==
    [average |-> IF new.average = seen.average THEN old.average ELSE new.average,
     count   |-> IF new.count = seen.count THEN old.count ELSE new.count]

CommitReview(q) ==
    LET me == request[q] IN
    /\ At(q, "computed")
    /\ reviews' = [reviews EXCEPT ![me.user] = me.rating]
    /\ rating' = Stored(rating, me.seen, me.computed)
    /\ mingled' = ~me.alone
    /\ departed' = (departed /\ ~me.alone)
    /\ Finish(q)
    /\ UNCHANGED <<user, status, author, accounts, contested, doubled>>

-----------------------------------------------------------------------------
(* connect.onboard *)
NeedsAccount_Always(u) == TRUE
NeedsAccount(u) == payout[u] = 0

LoadForOnboard(q, u) ==
    /\ At(q, "idle")
    /\ u \in user
    /\ NeedsAccount(u)
    /\ request' = [request EXCEPT ![q] = [Idle EXCEPT !.pc = "onboard", !.user = u]]
    /\ doubled' = IF \E r \in Open({"onboard", "created"}) : request[r].user = u
                  THEN doubled \cup {u} ELSE doubled
    /\ UNCHANGED <<user, template, accounts, mingled, departed, contested>>

\* stripe.Account.create; the user's row is not read again.
CreateAccount(q) ==
    /\ At(q, "onboard")
    /\ Len(stripe) < MaxAccounts
    /\ stripe' = Append(stripe, request[q].user)
    /\ request' = [request EXCEPT ![q].pc = "created", ![q].account = Len(stripe) + 1]
    /\ UNCHANGED <<user, template, payout, ghostVars>>

\* StaleDataError when the user has gone.
CommitAccount(q) ==
    LET u == request[q].user IN
    /\ At(q, "created")
    /\ payout' = IF u \in user THEN [payout EXCEPT ![u] = request[q].account] ELSE payout
    /\ Finish(q)
    /\ UNCHANGED <<user, template, stripe, ghostVars>>

\* The call to Stripe raises, or the process dies before the commit.
OnboardFails(q) ==
    /\ request[q].pc \in {"onboard", "created"}
    /\ doubled' = IF At(q, "created") THEN doubled \cup {request[q].user} ELSE doubled
    /\ Finish(q)
    /\ UNCHANGED <<user, template, accounts, mingled, departed, contested>>

\* delete_my_account: the user's reviews go, the templates stay.  It waits for
\* an open upsert of the user.
DeleteUser(u) ==
    /\ u \in user
    /\ ~Upserting(u)
    /\ user' = user \ {u}
    /\ author' = IF author = u THEN None ELSE author
    /\ reviews' = [reviews EXCEPT ![u] = None]
    /\ payout' = [payout EXCEPT ![u] = 0]
    /\ request' = Disturb(request)
    /\ departed' = (departed \/ reviews[u] # None)
    /\ UNCHANGED <<status, rating, stripe, mingled, contested, doubled>>

-----------------------------------------------------------------------------
RequestStep(q) ==
    \/ CommitSubmit(q) \/ CommitDecision(q)
    \/ Upsert(q) \/ Compute(q) \/ CommitReview(q)
    \/ CreateAccount(q) \/ CommitAccount(q) \/ OnboardFails(q)

Next ==
    \/ \E q \in Requests :
         \/ \E u \in Authors : LoadForSubmit(q, u) \/ LoadForOnboard(q, u)
         \/ \E u \in Users, r \in Ratings : LoadForReview(q, u, r)
         \/ \E d \in {"approved", "rejected"} : LoadForDecision(q, d)
         \/ RequestStep(q)
    \/ \E u \in Users : DeleteUser(u)

Spec == Init /\ [][Next]_vars

-----------------------------------------------------------------------------
(* Properties                                                              *)

\* The type invariant.
TypeOK ==
    /\ user \subseteq Users
    /\ status \in {"none", "pending", "approved", "rejected"}
    /\ author \in user \cup {None}
    /\ reviews \in [Users -> Ratings \cup {None}]
    /\ \A u \in Users \ user : reviews[u] = None
    /\ rating \in Rating
    /\ request \in [Requests -> Request]
    /\ stripe \in Seq(Users)
    /\ payout \in [Users -> 0..Len(stripe)]
    /\ {mingled, departed, contested} \subseteq BOOLEAN
    /\ doubled \subseteq Users

\* The stored average and count are those of the stored reviews once no review is
\* under way -- unless the last review to write them overlapped with another, or an
\* account took its review along since.  Even then the count is never more than the
\* reviews there are, until an account leaves: what races lose, they never invent.
RatingIsRight ==
    ~departed => /\ rating.count <= RatingOf(reviews).count
                 /\ Reviewing = {} /\ ~mingled => rating = RatingOf(reviews)

\* "Template is {status}, not pending": a decision is not overruled by a later
\* one, unless two moderators had read the template pending together.
DecisionIsFinal ==
    [][~contested /\ status \in {"approved", "rejected"} => status' = status]_vars

\* "Create or refresh": a user has at most one account at Stripe, and it is the
\* one stored -- unless two onboardings overlapped or one died half-way.
OneAccountPerAuthor ==
    \A u \in user \ doubled :
        \A n \in 1..Len(stripe) : stripe[n] = u =>
            payout[u] = n \/ \E q \in Requests : At(q, "created") /\ request[q].account = n

=============================================================================
