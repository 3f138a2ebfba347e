----------------------------- MODULE PublicPage -----------------------------
(***************************************************************************)
(* The anonymous page of a portfolio and its Redis cache: the public read, *)
(* the publish toggle, the deletions and the sitemap.                      *)
(*                                                                         *)
(* The cache is filled from a row that was read earlier and is invalidated *)
(* by the owner's requests, each in several steps of concurrent handlers;  *)
(* Redis failures are swallowed.  Each committed change of a row starts a  *)
(* new epoch, which stands for what its page shows: whether it is public,  *)
(* how far its generation has come, and the content that it wrote.         *)
(***************************************************************************)
EXTENDS Naturals, FiniteSets

CONSTANTS
    Portfolios,      \* portfolios whose generation was requested
    Handlers,        \* requests in progress at the API
    None,
    MaxEpoch,        \* bound on the committed changes of one row
    MaxRedisFaults   \* bound on failed cache writes and deletions

ASSUME PageAssumption ==
    /\ None \notin Portfolios \cup Nat
    /\ MaxEpoch \in Nat
    /\ MaxRedisFaults \in Nat

VARIABLES
    row,         \* "public", "private", or "absent" once deleted
    progress,      \* the status column, the progress of its generation
    epoch,       \* how often the row has changed
    cache,       \* portfolio:public:<slug>, the epoch it was filled from
    sitemap,     \* portfolio:sitemap, the pages it lists
    handler,     \* what each request is doing
    raced,       \* entries filled from a row that a change has overtaken
    undropped,   \* entries that outlived a change: the cache was not told
    redisFaults
vars == <<row, progress, epoch, cache, sitemap, handler, raced, undropped,
          redisFaults>>
rowVars == <<row, progress, epoch>>
ghosts  == <<raced, undropped>>

HandlerPC == {"idle", "querying", "filling", "listing", "toggling",
              "attaching", "invalidating", "deleting", "dropped"}
RowState  == {"public", "private", "absent"}
Status    == {"queued", "generating", "published", "failed"}
\* A reader remembers the epoch it saw, an owner's request the row's state.
Idle == [pc |-> "idle", p |-> None, seen |-> None, was |-> None, list |-> {}]

\* The page is shown to strangers in every status, from the first on.
Visible(p) == row[p] = "public"

\* The sitemap lists it once it is published.  Mutated: in every status.
Listed_AnyStatus(p) == Visible(p)
Listed(p) == Visible(p) /\ progress[p] = "published"

Flip(state) == IF state = "public" THEN "private" ELSE "public"

Become(h, pc, p) ==
    handler' = [handler EXCEPT ![h] = [Idle EXCEPT !.pc = pc, !.p = p]]
Finish(h) == handler' = [handler EXCEPT ![h] = Idle]

RedisFails ==
    /\ redisFaults < MaxRedisFaults
    /\ redisFaults' = redisFaults + 1

\* A committed change of a row.
Change(p, visibility, reached) ==
    /\ epoch[p] < MaxEpoch
    /\ row' = [row EXCEPT ![p] = visibility]
    /\ progress' = [progress EXCEPT ![p] = reached]
    /\ epoch' = [epoch EXCEPT ![p] = @ + 1]

\* An entry is gone, and what was the matter with it.
Emptied(p) ==
    /\ cache' = [cache EXCEPT ![p] = None]
    /\ raced' = raced \ {p} /\ undropped' = undropped \ {p}

Init ==
    /\ row = [p \in Portfolios |-> "public"]
    /\ progress = [p \in Portfolios |-> "queued"]
    /\ epoch = [p \in Portfolios |-> 0]
    /\ cache = [p \in Portfolios |-> None]
    /\ sitemap = {}
    /\ handler = [h \in Handlers |-> Idle]
    /\ raced = {} /\ undropped = {} /\ redisFaults = 0

-----------------------------------------------------------------------------
(* GET /portfolio/p/{slug}                                                 *)

\* cache.get: a hit is the answer; a miss, or a failing Redis, asks the
\* database.
StartRead(h, p) ==
    /\ handler[h].pc = "idle"
    /\ Become(h, "querying", p)
    /\ UNCHANGED <<rowVars, ghosts, cache, sitemap, redisFaults>>

\* 404 unless the row is public.
QueryRow(h) ==
    LET p == handler[h].p IN
    /\ handler[h].pc = "querying"
    /\ IF Visible(p)
       THEN handler' = [handler EXCEPT ![h] = [@ EXCEPT !.pc = "filling", !.seen = epoch[p]]]
       ELSE Finish(h)
    /\ UNCHANGED <<rowVars, ghosts, cache, sitemap, redisFaults>>

\* A change overtakes the readers of p that fill the cache now: the row is hidden
\* already, or its deletion has dropped the entry and is about to commit.
Overtaken(p) ==
    \/ row[p] # "public"
    \/ \E h \in Handlers : handler[h].pc = "dropped" /\ handler[h].p = p

\* The view is counted (whatever that raises is swallowed), then cache.set.
FillCache(h) ==
    LET p == handler[h].p IN
    /\ handler[h].pc = "filling"
    /\ \/ /\ cache' = [cache EXCEPT ![p] = handler[h].seen]
          /\ raced' = IF Overtaken(p) THEN raced \cup {p} ELSE raced \ {p}
          /\ undropped' = undropped \ {p}
          /\ UNCHANGED redisFaults
       \/ RedisFails /\ UNCHANGED <<cache, ghosts>>
    /\ Finish(h)
    /\ UNCHANGED <<rowVars, sitemap>>

\* GET /portfolio/sitemap; an empty list is not a hit, and not a listing.
StartSitemap(h) ==
    /\ handler[h].pc = "idle"
    /\ sitemap = {}
    /\ handler' = [handler EXCEPT ![h] = [Idle EXCEPT !.pc = "listing",
                       !.list = {p \in Portfolios : Listed(p)}]]
    /\ UNCHANGED <<rowVars, ghosts, cache, sitemap, redisFaults>>
FillSitemap(h) ==
    /\ handler[h].pc = "listing"
    /\ \/ sitemap' = handler[h].list /\ UNCHANGED redisFaults
       \/ RedisFails /\ UNCHANGED sitemap
    /\ Finish(h)
    /\ UNCHANGED <<rowVars, ghosts, cache>>

\* The TTL of an entry: an hour for a page, a day for the sitemap.  Mutated:
\* an entry without a TTL.
Expires_Never == FALSE
Expires == TRUE
ExpirePage(p) ==
    /\ Expires /\ cache[p] # None
    /\ Emptied(p)
    /\ UNCHANGED <<rowVars, sitemap, handler, redisFaults>>
ExpireSitemap ==
    /\ Expires /\ sitemap # {}
    /\ sitemap' = {}
    /\ UNCHANGED <<rowVars, ghosts, cache, handler, redisFaults>>

-----------------------------------------------------------------------------
(* The owner's requests                                                    *)

\* _get_portfolio_or_404 of PUT /portfolio/{id}/publish, of the custom-domain
\* routes and of DELETE /portfolio/{id}.
LoadRow(h, p, pc) ==
    /\ handler[h].pc = "idle"
    /\ row[p] # "absent"
    /\ handler' = [handler EXCEPT ![h] = [Idle EXCEPT !.pc = pc, !.p = p,
                       !.was = IF pc = "toggling" THEN row[p] ELSE None]]
    /\ UNCHANGED <<rowVars, ghosts, cache, sitemap, redisFaults>>
StartToggle(h, p) == LoadRow(h, p, "toggling")
StartDomain(h, p) == LoadRow(h, p, "attaching")
StartDelete(h, p) == LoadRow(h, p, "deleting")

\* is_public = not is_public; commit.  The new value is computed from the one
\* that was loaded.  The UPDATE of a row deleted meanwhile raises.
CommitToggle(h) ==
    LET p == handler[h].p IN
    /\ handler[h].pc = "toggling"
    /\ IF row[p] = "absent"
       THEN Finish(h) /\ UNCHANGED rowVars
       ELSE Change(p, Flip(handler[h].was), progress[p]) /\ Become(h, "invalidating", p)
    /\ UNCHANGED <<ghosts, cache, sitemap, redisFaults>>

\* custom_domain = ...; commit.  The page itself does not show the domain.
CommitDomain(h) ==
    LET p == handler[h].p IN
    /\ handler[h].pc = "attaching"
    /\ IF row[p] = "absent" THEN Finish(h) ELSE Become(h, "invalidating", p)
    /\ UNCHANGED <<rowVars, ghosts, cache, sitemap, redisFaults>>

\* cache.delete.  Mutated: of another key than the one that was filled.
Dropped_OtherKey(p) == UNCHANGED <<cache, ghosts>>
Dropped(p) == Emptied(p)
DropEntry(p) ==
    \/ Dropped(p) /\ UNCHANGED redisFaults
    \/ RedisFails /\ undropped' = undropped \cup {p} /\ UNCHANGED <<cache, raced>>

Invalidate(h) ==
    /\ handler[h].pc = "invalidating"
    /\ DropEntry(handler[h].p)
    /\ Finish(h)
    /\ UNCHANGED <<rowVars, sitemap>>

\* Deletion drops the entry first; get_db commits after the handler.
DropBeforeDelete(h) ==
    /\ handler[h].pc = "deleting"
    /\ DropEntry(handler[h].p)
    /\ Become(h, "dropped", handler[h].p)
    /\ UNCHANGED <<rowVars, sitemap>>
CommitDelete(h) ==
    /\ handler[h].pc = "dropped"
    /\ row' = [row EXCEPT ![handler[h].p] = "absent"]
    /\ Finish(h)
    /\ UNCHANGED <<progress, epoch, ghosts, cache, sitemap, redisFaults>>

-----------------------------------------------------------------------------
(* What changes rows without a word to the cache                           *)

\* DELETE /compliance/me: the cascade removes the row.
DeleteAccount(p) ==
    /\ row[p] # "absent"
    /\ row' = [row EXCEPT ![p] = "absent"]
    /\ undropped' = undropped \cup {p}
    /\ UNCHANGED <<progress, epoch, cache, sitemap, handler, raced, redisFaults>>

\* The commits of the generation task (PortfolioJobs), of its retries and
\* redeliveries: "generating", then the content with "published", or "failed".
Generate(p) ==
    /\ row[p] # "absent"
    /\ \E next \in Status \ {"queued"} :
         /\ progress[p] = "queued" => next = "generating"
         /\ next # "published" => next # progress[p]
         /\ Change(p, row[p], next)
    /\ UNCHANGED <<ghosts, cache, sitemap, handler, redisFaults>>

-----------------------------------------------------------------------------
HandlerStep(h) ==
    \/ QueryRow(h) \/ FillCache(h) \/ FillSitemap(h)
    \/ CommitToggle(h) \/ CommitDomain(h) \/ Invalidate(h)
    \/ DropBeforeDelete(h) \/ CommitDelete(h)

Next ==
    \/ \E h \in Handlers :
         \/ \E p \in Portfolios : \/ StartRead(h, p) \/ StartToggle(h, p)
                                  \/ StartDomain(h, p) \/ StartDelete(h, p)
         \/ StartSitemap(h)
         \/ HandlerStep(h)
    \/ \E p \in Portfolios : ExpirePage(p) \/ DeleteAccount(p) \/ Generate(p)
    \/ ExpireSitemap

Spec == Init /\ [][Next]_vars

\* Requests run to their end, and Redis expires its entries.
Fairness ==
    /\ \A h \in Handlers : WF_vars(HandlerStep(h))
    /\ \A p \in Portfolios : WF_vars(ExpirePage(p))
    /\ WF_vars(ExpireSitemap)
FairSpec == Spec /\ Fairness

-----------------------------------------------------------------------------
(* Properties                                                              *)

TypeOK ==
    /\ row \in [Portfolios -> RowState]
    /\ progress \in [Portfolios -> Status]
    /\ epoch \in [Portfolios -> 0..MaxEpoch]
    /\ cache \in [Portfolios -> 0..MaxEpoch \cup {None}]
    /\ sitemap \subseteq Portfolios
    /\ handler \in [Handlers -> [pc: HandlerPC, p: Portfolios \cup {None},
                                 seen: 0..MaxEpoch \cup {None},
                                 was: RowState \cup {None},
                                 list: SUBSET Portfolios]]
    /\ raced \subseteq Portfolios /\ undropped \subseteq Portfolios
    /\ redisFaults \in 0..MaxRedisFaults

\* A change has been committed and its request is about to tell the cache.
Telling(p) == \E h \in Handlers : handler[h].pc = "invalidating" /\ handler[h].p = p

\* A page that is no longer public is in the cache only while the request that hid
\* it has yet to tell the cache, unless that very entry was written by a reader whom
\* the change had overtaken, or has outlived a change of which the cache was not
\* told (a failing Redis, an account deletion).
StaleNeedsARace ==
    \A p \in Portfolios :
        row[p] # "public" /\ cache[p] # None
            => Telling(p) \/ p \in raced \cup undropped

\* Whatever raced or failed, a page that stays hidden or deleted disappears
\* from the cache and from the sitemap for good.
HiddenPagesGoDark ==
    \A p \in Portfolios :
        <>[](row[p] # "public") => <>[](cache[p] = None /\ p \notin sitemap)

\* The generation does not tell the cache what it commits, so that a visitor who
\* comes too early leaves an unfinished page there.  Once nobody changes a public
\* page any more, strangers are nevertheless shown its last content, and the sitemap
\* does not go on listing it when its generation came to nothing.
SettledPagesAreRight ==
    \A p \in Portfolios :
        <>[][UNCHANGED <<row[p], progress[p], epoch[p]>>]_vars
            => <>[](/\ Visible(p) /\ cache[p] # None => cache[p] = epoch[p]
                    /\ p \in sitemap => row[p] = "public" /\ progress[p] = "published")

=============================================================================
