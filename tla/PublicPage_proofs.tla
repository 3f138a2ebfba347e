--------------------------- MODULE PublicPage_proofs ---------------------------
(***************************************************************************)
(* Proofs about PublicPage, for any number of pages and of overlapping      *)
(* requests, and any number of Redis failures; and, at the end, about       *)
(* Marketplace, the other part of the site that strangers see.              *)
(***************************************************************************)
EXTENDS PublicPage, Sequences, FiniteSetTheorems, WellFoundedInduction, TLAPS

-----------------------------------------------------------------------------
(* The inductive invariant                                                 *)

State == [pc: HandlerPC, p: Portfolios \cup {None}, seen: 0..MaxEpoch \cup {None},
          was: RowState \cup {None}, list: SUBSET Portfolios]

\* A request at work has a page.
StateOK(s) == s.pc \notin {"idle", "listing"} => s.p \in Portfolios

\* What a deletion finds in the cache between its drop and its commit, although the
\* page is still public, is known to be there for a reason.
DropOK(s) ==
    s.pc = "dropped" /\ cache[s.p] # None => s.p \in raced \cup undropped

HandlersOK == \A h \in Handlers : StateOK(handler[h]) /\ DropOK(handler[h])

PageInv == TypeOK /\ HandlersOK /\ StaleNeedsARace

LEMMA Bounds == MaxEpoch \in Nat /\ MaxRedisFaults \in Nat
                  /\ None \notin Portfolios /\ None \notin Nat
  BY PageAssumption

LEMMA IdleOK == Idle \in State /\ Idle.pc = "idle"
  BY DEF Idle, State, HandlerPC

LEMMA TypeForm ==
  TypeOK <=> /\ row \in [Portfolios -> RowState]
             /\ progress \in [Portfolios -> Status]
             /\ epoch \in [Portfolios -> 0..MaxEpoch]
             /\ cache \in [Portfolios -> 0..MaxEpoch \cup {None}]
             /\ sitemap \subseteq Portfolios
             /\ handler \in [Handlers -> State]
             /\ raced \subseteq Portfolios /\ undropped \subseteq Portfolios
             /\ redisFaults \in 0..MaxRedisFaults
  BY DEF TypeOK, State

-----------------------------------------------------------------------------
(* Frames                                                                  *)

\* One request moves to state s.
LEMMA Moves ==
  ASSUME TypeOK, NEW h \in Handlers, NEW s \in State,
         handler' = [handler EXCEPT ![h] = s]
  PROVE  /\ handler' \in [Handlers -> State]
         /\ handler'[h] = s
         /\ \A g \in Handlers \ {h} : handler'[g] = handler[g]
  BY TypeForm

\* A request moves, and neither rows nor cache change.
LEMMA QuietStep ==
  ASSUME PageInv, NEW h \in Handlers, NEW s \in State,
         handler' = [handler EXCEPT ![h] = s],
         UNCHANGED <<rowVars, ghosts, cache>>,
         sitemap' \subseteq Portfolios, redisFaults' \in 0..MaxRedisFaults,
         handler[h].pc # "invalidating",
         StateOK(s), s.pc # "dropped"
  PROVE  PageInv'
<1>1. /\ handler' \in [Handlers -> State] /\ handler'[h] = s
      /\ \A g \in Handlers \ {h} : handler'[g] = handler[g]
  BY Moves DEF PageInv
<1>2. UNCHANGED <<row, progress, epoch, raced, undropped, cache>>
  BY DEF rowVars, ghosts
<1>3. TypeOK'
  BY <1>1, <1>2, TypeForm DEF PageInv, TypeOK, State
<1>4. HandlersOK'
  BY <1>1, <1>2 DEF PageInv, HandlersOK, StateOK, DropOK
<1>5. ASSUME NEW p \in Portfolios, Telling(p) PROVE Telling(p)'
  BY <1>1, <1>5 DEF Telling
<1>6. StaleNeedsARace'
  BY <1>2, <1>5 DEF PageInv, StaleNeedsARace
<1> QED
  BY <1>3, <1>4, <1>6 DEF PageInv

LEMMA QuietEnd ==
  ASSUME PageInv, NEW h \in Handlers, Finish(h),
         UNCHANGED <<rowVars, ghosts, cache>>,
         sitemap' \subseteq Portfolios, redisFaults' \in 0..MaxRedisFaults,
         handler[h].pc # "invalidating"
  PROVE  PageInv'
<1>1. StateOK(Idle) /\ Idle.pc # "dropped"
  BY IdleOK DEF StateOK
<1> QED
  BY <1>1, IdleOK, QuietStep DEF Finish

LEMMA FaultCount == ASSUME TypeOK, RedisFails PROVE redisFaults' \in 0..MaxRedisFaults
  BY Bounds DEF TypeOK, RedisFails

LEMMA BecomeForm ==
  ASSUME TypeOK, NEW h \in Handlers, NEW p \in Portfolios,
         NEW pc \in {"querying", "invalidating", "dropped"}, Become(h, pc, p)
  PROVE  \E s \in State : /\ handler' = [handler EXCEPT ![h] = s]
                          /\ s.pc = pc /\ s.p = p
<1>1. /\ [Idle EXCEPT !.pc = pc, !.p = p] \in State
      /\ [Idle EXCEPT !.pc = pc, !.p = p].pc = pc
      /\ [Idle EXCEPT !.pc = pc, !.p = p].p = p
  BY DEF Idle, State, HandlerPC
<1> QED
  BY <1>1 DEF Become

-----------------------------------------------------------------------------
(* Reads                                                                   *)

LEMMA StartStep ==
  ASSUME PageInv, NEW h \in Handlers, NEW p \in Portfolios,
         \/ StartRead(h, p) \/ StartToggle(h, p) \/ StartDomain(h, p) \/ StartDelete(h, p)
  PROVE  PageInv'
<1>0. TypeOK /\ row[p] \in RowState /\ sitemap \subseteq Portfolios
        /\ redisFaults \in 0..MaxRedisFaults
  BY DEF PageInv, TypeOK
<1>1. CASE StartRead(h, p)
  <2>1. PICK s \in State : /\ handler' = [handler EXCEPT ![h] = s]
                           /\ s.pc = "querying" /\ s.p = p
    BY <1>0, <1>1, BecomeForm DEF StartRead
  <2>2. StateOK(s) /\ s.pc # "dropped" /\ handler[h].pc = "idle"
    BY <1>1, <2>1 DEF StateOK, StartRead
  <2> QED
    BY <1>0, <1>1, <2>1, <2>2, QuietStep DEF StartRead
<1>2. ASSUME NEW pc \in {"toggling", "attaching", "deleting"}, LoadRow(h, p, pc)
      PROVE  PageInv'
  <2>1. PICK s \in State : /\ handler' = [handler EXCEPT ![h] = s]
                           /\ s.pc = pc /\ s.p = p
    <3> DEFINE was == IF pc = "toggling" THEN row[p] ELSE None
    <3>0. was \in RowState \cup {None}
      BY <1>0
    <3> HIDE DEF was
    <3>1. /\ [Idle EXCEPT !.pc = pc, !.p = p, !.was = was] \in State
          /\ [Idle EXCEPT !.pc = pc, !.p = p, !.was = was].pc = pc
          /\ [Idle EXCEPT !.pc = pc, !.p = p, !.was = was].p = p
      BY <3>0 DEF Idle, State, HandlerPC
    <3> QED
      BY <1>2, <3>1 DEF LoadRow, was
  <2>2. StateOK(s) /\ s.pc # "dropped" /\ handler[h].pc = "idle"
    BY <1>2, <2>1 DEF StateOK, LoadRow
  <2> QED
    BY <1>0, <1>2, <2>1, <2>2, QuietStep DEF LoadRow
<1> QED
  BY <1>1, <1>2 DEF StartToggle, StartDomain, StartDelete

LEMMA QueryStep ==
  ASSUME PageInv, NEW h \in Handlers, QueryRow(h)
  PROVE  PageInv'
<1> DEFINE p == handler[h].p
<1>0. /\ TypeOK /\ handler[h] \in State /\ handler[h].pc = "querying" /\ p \in Portfolios
      /\ sitemap \subseteq Portfolios /\ redisFaults \in 0..MaxRedisFaults
      /\ epoch[p] \in 0..MaxEpoch
  BY TypeForm DEF PageInv, HandlersOK, StateOK, QueryRow
<1>1. CASE Visible(p)
  <2>1. PICK s \in State : handler' = [handler EXCEPT ![h] = s] /\ s.pc = "filling" /\ s.p = p
    <3>1. /\ [handler[h] EXCEPT !.pc = "filling", !.seen = epoch[p]] \in State
          /\ [handler[h] EXCEPT !.pc = "filling", !.seen = epoch[p]].pc = "filling"
          /\ [handler[h] EXCEPT !.pc = "filling", !.seen = epoch[p]].p = p
      BY <1>0 DEF State, HandlerPC
    <3> QED
      BY <1>1, <3>1 DEF QueryRow
  <2>2. StateOK(s) /\ s.pc # "dropped"
    BY <1>0, <2>1 DEF StateOK
  <2> QED
    BY <1>0, <2>1, <2>2, QuietStep DEF QueryRow
<1>2. CASE ~Visible(p)
  BY <1>0, <1>2, QuietEnd DEF QueryRow
<1> QED
  BY <1>1, <1>2

\* A new entry is marked when a change has overtaken its reader, and only then.
LEMMA FillStep ==
  ASSUME PageInv, NEW h \in Handlers, FillCache(h)
  PROVE  PageInv'
<1> DEFINE p == handler[h].p
<1>0. /\ TypeOK /\ handler[h] \in State /\ handler[h].pc = "filling" /\ p \in Portfolios
      /\ Finish(h) /\ UNCHANGED <<rowVars, sitemap>>
      /\ sitemap' \subseteq Portfolios
  BY TypeForm DEF PageInv, HandlersOK, StateOK, FillCache
<1>1. CASE UNCHANGED <<cache, ghosts>> /\ RedisFails
  BY <1>0, <1>1, FaultCount, QuietEnd
<1>2. CASE /\ cache' = [cache EXCEPT ![p] = handler[h].seen]
           /\ raced' = IF Overtaken(p) THEN raced \cup {p} ELSE raced \ {p}
           /\ undropped' = undropped \ {p}
           /\ UNCHANGED redisFaults
  <2>1. /\ handler' \in [Handlers -> State] /\ handler'[h] = Idle
        /\ \A g \in Handlers \ {h} : handler'[g] = handler[g]
    BY <1>0, IdleOK, Moves DEF Finish
  <2>2. handler[h].seen \in 0..MaxEpoch \cup {None} /\ UNCHANGED <<row, progress, epoch>>
    BY <1>0 DEF State, rowVars
  <2>3. /\ cache' \in [Portfolios -> 0..MaxEpoch \cup {None}]
        /\ \A q \in Portfolios \ {p} : cache'[q] = cache[q]
    BY <1>0, <1>2, <2>2 DEF TypeOK
  <2>4. /\ raced' \subseteq Portfolios /\ undropped' \subseteq Portfolios
        /\ \A q \in Portfolios \ {p} : q \in raced \cup undropped
                                         => q \in raced' \cup undropped'
    BY <1>0, <1>2 DEF TypeOK
  <2>5. Overtaken(p) => p \in raced'
    BY <1>2
  <2>6. TypeOK'
    BY <1>0, <1>2, <2>1, <2>2, <2>3, <2>4, TypeForm DEF TypeOK, State
  <2>7. HandlersOK'
    <3>1. ASSUME NEW g \in Handlers \ {h} PROVE StateOK(handler[g])' /\ DropOK(handler[g])'
      <4>1. StateOK(handler[g]) /\ DropOK(handler[g]) /\ handler'[g] = handler[g]
        BY <2>1 DEF PageInv, HandlersOK
      <4>2. handler[g].pc = "dropped" /\ handler[g].p = p => p \in raced'
        BY <2>5 DEF Overtaken
      <4> QED
        BY <2>3, <2>4, <4>1, <4>2 DEF StateOK, DropOK
    <3>2. StateOK(handler[h])' /\ DropOK(handler[h])'
      BY <2>1, IdleOK DEF StateOK, DropOK
    <3> QED
      BY <3>1, <3>2 DEF HandlersOK
  <2>8. ASSUME NEW q \in Portfolios, Telling(q) PROVE Telling(q)'
    BY <1>0, <2>1, <2>8 DEF Telling
  <2>9. row[p] # "public" => p \in raced'
    BY <2>5 DEF Overtaken
  <2>10. StaleNeedsARace'
    BY <1>0, <2>2, <2>3, <2>4, <2>8, <2>9 DEF PageInv, StaleNeedsARace
  <2> QED
    BY <2>6, <2>7, <2>10 DEF PageInv
<1> QED
  BY <1>1, <1>2 DEF FillCache

LEMMA SitemapStep ==
  ASSUME PageInv, NEW h \in Handlers, StartSitemap(h) \/ FillSitemap(h)
  PROVE  PageInv'
<1>0. TypeOK /\ handler[h] \in State /\ sitemap \subseteq Portfolios
        /\ redisFaults \in 0..MaxRedisFaults
  BY TypeForm DEF PageInv
<1>1. CASE StartSitemap(h)
  <2> DEFINE ls == {p \in Portfolios : Listed(p)}
  <2>0. ls \subseteq Portfolios
    OBVIOUS
  <2> HIDE DEF ls
  <2>1. PICK s \in State : handler' = [handler EXCEPT ![h] = s] /\ s.pc = "listing"
    <3>1. /\ [Idle EXCEPT !.pc = "listing", !.list = ls] \in State
          /\ [Idle EXCEPT !.pc = "listing", !.list = ls].pc = "listing"
      BY <2>0 DEF Idle, State, HandlerPC
    <3> QED
      BY <1>1, <3>1 DEF StartSitemap, ls
  <2>2. StateOK(s) /\ s.pc # "dropped" /\ handler[h].pc = "idle"
    BY <1>1, <2>1 DEF StateOK, StartSitemap
  <2> QED
    BY <1>0, <1>1, <2>1, <2>2, QuietStep DEF StartSitemap
<1>2. CASE FillSitemap(h)
  <2>1. sitemap' \subseteq Portfolios /\ redisFaults' \in 0..MaxRedisFaults
    BY <1>0, <1>2, FaultCount DEF FillSitemap, State
  <2> QED
    BY <1>2, <2>1, QuietEnd DEF FillSitemap
<1> QED
  BY <1>1, <1>2

-----------------------------------------------------------------------------
(* The owner's requests                                                    *)

LEMMA ChangeForm ==
  ASSUME TypeOK, NEW p \in Portfolios, NEW visibility \in RowState,
         NEW reached \in Status, Change(p, visibility, reached)
  PROVE  /\ row' \in [Portfolios -> RowState] /\ row'[p] = visibility
         /\ \A q \in Portfolios \ {p} : row'[q] = row[q]
         /\ progress' \in [Portfolios -> Status]
         /\ epoch' \in [Portfolios -> 0..MaxEpoch]
<1>1. epoch[p] + 1 \in 0..MaxEpoch
  BY Bounds DEF TypeOK, Change
<1> QED
  BY <1>1 DEF TypeOK, Change

LEMMA ToggleStep ==
  ASSUME PageInv, NEW h \in Handlers, CommitToggle(h)
  PROVE  PageInv'
<1> DEFINE p == handler[h].p
<1>0. /\ TypeOK /\ handler[h].pc = "toggling" /\ p \in Portfolios
      /\ UNCHANGED <<raced, undropped, cache, sitemap, redisFaults>>
      /\ sitemap' \subseteq Portfolios /\ redisFaults' \in 0..MaxRedisFaults
  BY DEF PageInv, HandlersOK, StateOK, CommitToggle, TypeOK, ghosts
<1>1. CASE row[p] = "absent"
  BY <1>0, <1>1, QuietEnd DEF CommitToggle
<1>2. CASE row[p] # "absent"
  <2>1. Change(p, Flip(handler[h].was), progress[p]) /\ Become(h, "invalidating", p)
    BY <1>2 DEF CommitToggle
  <2>2. Flip(handler[h].was) \in RowState /\ progress[p] \in Status
    BY <1>0 DEF Flip, RowState, TypeOK
  <2>3. PICK s \in State : /\ handler' = [handler EXCEPT ![h] = s]
                           /\ s.pc = "invalidating" /\ s.p = p
    BY <1>0, <2>1, BecomeForm
  <2>4. /\ handler' \in [Handlers -> State] /\ handler'[h] = s
        /\ \A g \in Handlers \ {h} : handler'[g] = handler[g]
    BY <1>0, <2>3, Moves
  <2>5. /\ row' \in [Portfolios -> RowState]
        /\ \A q \in Portfolios \ {p} : row'[q] = row[q]
        /\ progress' \in [Portfolios -> Status]
        /\ epoch' \in [Portfolios -> 0..MaxEpoch]
    BY <1>0, <2>1, <2>2, ChangeForm
  <2>6. TypeOK'
    BY <1>0, <2>4, <2>5, TypeForm DEF TypeOK, State
  <2>7. HandlersOK'
    BY <1>0, <2>3, <2>4 DEF PageInv, HandlersOK, StateOK, DropOK
  <2>8. ASSUME NEW q \in Portfolios, q = p PROVE Telling(q)'
    BY <2>3, <2>4, <2>8 DEF Telling
  <2>9. ASSUME NEW q \in Portfolios, Telling(q) PROVE Telling(q)'
    BY <1>0, <2>4, <2>9 DEF Telling
  <2>10. StaleNeedsARace'
    <3>1. ASSUME NEW q \in Portfolios, row'[q] # "public", cache'[q] # None, q # p
          PROVE  Telling(q)' \/ q \in raced' \cup undropped'
      BY <1>0, <2>5, <2>9, <3>1 DEF PageInv, StaleNeedsARace
    <3> QED
      BY <2>8, <3>1 DEF StaleNeedsARace
  <2> QED
    BY <2>6, <2>7, <2>10 DEF PageInv
<1> QED
  BY <1>1, <1>2

LEMMA DomainStep ==
  ASSUME PageInv, NEW h \in Handlers, CommitDomain(h)
  PROVE  PageInv'
<1> DEFINE p == handler[h].p
<1>0. /\ TypeOK /\ handler[h].pc = "attaching" /\ p \in Portfolios
      /\ UNCHANGED <<rowVars, ghosts, cache, sitemap, redisFaults>>
      /\ sitemap' \subseteq Portfolios /\ redisFaults' \in 0..MaxRedisFaults
  BY DEF PageInv, HandlersOK, StateOK, CommitDomain, TypeOK
<1>1. CASE Finish(h)
  BY <1>0, <1>1, QuietEnd
<1>2. CASE Become(h, "invalidating", p)
  <2>1. PICK s \in State : /\ handler' = [handler EXCEPT ![h] = s]
                           /\ s.pc = "invalidating" /\ s.p = p
    BY <1>0, <1>2, BecomeForm
  <2>2. StateOK(s)
    BY <1>0, <2>1 DEF StateOK
  <2> QED
    BY <1>0, <2>1, <2>2, QuietStep
<1> QED
  BY <1>1, <1>2 DEF CommitDomain

\* cache.delete: the entry goes, or is known to have stayed.
LEMMA DropStep ==
  ASSUME PageInv, NEW h \in Handlers, Invalidate(h) \/ DropBeforeDelete(h)
  PROVE  PageInv'
<1> DEFINE p == handler[h].p
<1>0. /\ TypeOK /\ handler[h].pc \in {"invalidating", "deleting"} /\ p \in Portfolios
      /\ DropEntry(p)
      /\ UNCHANGED <<row, progress, epoch, sitemap>>
  BY DEF PageInv, HandlersOK, StateOK, Invalidate, DropBeforeDelete, rowVars
<1>1. PICK s \in State : /\ handler' = [handler EXCEPT ![h] = s]
                         /\ s.pc \in {"idle", "dropped"}
                         /\ s.pc = "dropped" => s.p = p
  <2>1. CASE Invalidate(h)
    BY <2>1, IdleOK DEF Invalidate, Finish
  <2>2. CASE DropBeforeDelete(h)
    BY <1>0, <2>2, BecomeForm DEF DropBeforeDelete
  <2> QED
    BY <2>1, <2>2
<1>2. /\ handler' \in [Handlers -> State] /\ handler'[h] = s
      /\ \A g \in Handlers \ {h} : handler'[g] = handler[g]
  BY <1>0, <1>1, Moves
<1>3. /\ cache' \in [Portfolios -> 0..MaxEpoch \cup {None}]
      /\ \A q \in Portfolios \ {p} :
           cache'[q] = cache[q] /\ (q \in raced \cup undropped => q \in raced' \cup undropped')
      /\ cache'[p] = None \/ p \in undropped'
      /\ raced' \subseteq Portfolios /\ undropped' \subseteq Portfolios
      /\ redisFaults' \in 0..MaxRedisFaults
  BY <1>0, FaultCount DEF DropEntry, Dropped, Emptied, TypeOK
<1>4. TypeOK'
  BY <1>0, <1>2, <1>3, TypeForm DEF TypeOK, State
<1>5. HandlersOK'
  BY <1>0, <1>1, <1>2, <1>3 DEF PageInv, HandlersOK, StateOK, DropOK
<1>6. ASSUME NEW q \in Portfolios \ {p}, Telling(q) PROVE Telling(q)'
  BY <1>2, <1>6 DEF Telling
<1>7. StaleNeedsARace'
  BY <1>0, <1>3, <1>6 DEF PageInv, StaleNeedsARace
<1> QED
  BY <1>4, <1>5, <1>7 DEF PageInv

LEMMA CommitDeleteStep ==
  ASSUME PageInv, NEW h \in Handlers, CommitDelete(h)
  PROVE  PageInv'
<1> DEFINE p == handler[h].p
<1>0. /\ TypeOK /\ handler[h].pc = "dropped" /\ p \in Portfolios
      /\ cache[p] # None => p \in raced \cup undropped
      /\ row' = [row EXCEPT ![p] = "absent"]
      /\ Finish(h)
      /\ UNCHANGED <<progress, epoch, raced, undropped, cache, sitemap, redisFaults>>
  BY DEF PageInv, HandlersOK, StateOK, DropOK, CommitDelete, ghosts
<1>1. /\ handler' \in [Handlers -> State] /\ handler'[h] = Idle
      /\ \A g \in Handlers \ {h} : handler'[g] = handler[g]
  BY <1>0, IdleOK, Moves DEF Finish
<1>2. /\ row' \in [Portfolios -> RowState]
      /\ \A q \in Portfolios \ {p} : row'[q] = row[q]
  BY <1>0 DEF TypeOK, RowState
<1>3. TypeOK'
  BY <1>0, <1>1, <1>2, TypeForm DEF TypeOK, State
<1>4. HandlersOK'
  BY <1>0, <1>1, IdleOK DEF PageInv, HandlersOK, StateOK, DropOK
<1>5. ASSUME NEW q \in Portfolios, Telling(q) PROVE Telling(q)'
  BY <1>0, <1>1, <1>5 DEF Telling
<1>6. StaleNeedsARace'
  BY <1>0, <1>2, <1>5 DEF PageInv, StaleNeedsARace
<1> QED
  BY <1>3, <1>4, <1>6 DEF PageInv

-----------------------------------------------------------------------------
(* Steps of nobody's request                                               *)

LEMMA BackgroundStep ==
  ASSUME PageInv,
         \/ \E p \in Portfolios : ExpirePage(p) \/ DeleteAccount(p) \/ Generate(p)
         \/ ExpireSitemap
  PROVE  PageInv'
<1>0. TypeOK
  BY DEF PageInv
<1>1. ASSUME NEW p \in Portfolios, ExpirePage(p) PROVE PageInv'
  <2>1. /\ cache' = [cache EXCEPT ![p] = None]
        /\ raced' = raced \ {p} /\ undropped' = undropped \ {p}
        /\ UNCHANGED <<row, progress, epoch, sitemap, handler, redisFaults>>
    BY <1>1 DEF ExpirePage, Emptied, rowVars
  <2>2. TypeOK'
    BY <1>0, <2>1 DEF TypeOK
  <2>3. HandlersOK' /\ StaleNeedsARace'
    BY <1>0, <2>1 DEF PageInv, TypeOK, HandlersOK, StateOK, DropOK, StaleNeedsARace, Telling
  <2> QED
    BY <2>2, <2>3 DEF PageInv
<1>2. ASSUME NEW p \in Portfolios, DeleteAccount(p) PROVE PageInv'
  <2>1. /\ row' = [row EXCEPT ![p] = "absent"] /\ undropped' = undropped \cup {p}
        /\ UNCHANGED <<progress, epoch, cache, sitemap, handler, raced, redisFaults>>
    BY <1>2 DEF DeleteAccount
  <2>2. TypeOK'
    BY <1>0, <2>1 DEF TypeOK, RowState
  <2>3. HandlersOK'
    BY <1>0, <2>1 DEF PageInv, HandlersOK, StateOK, DropOK
  <2>4. StaleNeedsARace'
    BY <1>0, <2>1 DEF PageInv, TypeOK, StaleNeedsARace, Telling
  <2> QED
    BY <2>2, <2>3, <2>4 DEF PageInv
<1>3. ASSUME NEW p \in Portfolios, Generate(p) PROVE PageInv'
  <2>1. /\ row[p] \in RowState
        /\ \E next \in Status : Change(p, row[p], next)
        /\ UNCHANGED <<raced, undropped, cache, sitemap, handler, redisFaults>>
    BY <1>0, <1>3 DEF Generate, TypeOK, ghosts
  <2>2. /\ row' \in [Portfolios -> RowState] /\ \A q \in Portfolios : row'[q] = row[q]
        /\ progress' \in [Portfolios -> Status] /\ epoch' \in [Portfolios -> 0..MaxEpoch]
    BY <1>0, <2>1, ChangeForm
  <2>3. TypeOK'
    BY <1>0, <2>1, <2>2 DEF TypeOK
  <2>4. HandlersOK' /\ StaleNeedsARace'
    BY <2>1, <2>2 DEF PageInv, HandlersOK, StateOK, DropOK, StaleNeedsARace, Telling
  <2> QED
    BY <2>3, <2>4 DEF PageInv
<1>4. CASE ExpireSitemap
  <2>1. /\ sitemap' = {}
        /\ UNCHANGED <<row, progress, epoch, raced, undropped, cache, handler, redisFaults>>
    BY <1>4 DEF ExpireSitemap, rowVars, ghosts
  <2>2. TypeOK'
    BY <1>0, <2>1 DEF TypeOK
  <2> QED
    BY <2>1, <2>2 DEF PageInv, HandlersOK, StateOK, DropOK, StaleNeedsARace, Telling
<1> QED
  BY <1>1, <1>2, <1>3, <1>4

-----------------------------------------------------------------------------
(* The theorems                                                            *)

LEMMA InitPage == Init => PageInv
<1> SUFFICES ASSUME Init PROVE PageInv
  OBVIOUS
<1>1. TypeOK
  BY IdleOK, Bounds, TypeForm DEF Init, RowState, Status
<1>2. HandlersOK
  BY IdleOK DEF Init, HandlersOK, StateOK, DropOK
<1>3. StaleNeedsARace
  BY DEF Init, StaleNeedsARace
<1> QED
  BY <1>1, <1>2, <1>3 DEF PageInv

LEMMA NextKeeps == PageInv /\ [Next]_vars => PageInv'
<1> SUFFICES ASSUME PageInv, [Next]_vars PROVE PageInv'
  OBVIOUS
<1>1. ASSUME NEW h \in Handlers, NEW p \in Portfolios,
             \/ StartRead(h, p) \/ StartToggle(h, p) \/ StartDomain(h, p) \/ StartDelete(h, p)
      PROVE  PageInv'
  BY <1>1, StartStep
<1>2. ASSUME NEW h \in Handlers, StartSitemap(h) PROVE PageInv'
  BY <1>2, SitemapStep
<1>3. ASSUME NEW h \in Handlers, HandlerStep(h) PROVE PageInv'
  BY <1>3, QueryStep, FillStep, SitemapStep, ToggleStep, DomainStep, DropStep,
     CommitDeleteStep DEF HandlerStep
<1>4. CASE UNCHANGED vars
  BY <1>4 DEF vars, PageInv, TypeOK, HandlersOK, StateOK, DropOK, StaleNeedsARace, Telling
<1> QED
  BY <1>1, <1>2, <1>3, <1>4, BackgroundStep DEF Next

\* The strengthening that makes the property inductive: what a deletion finds in the
\* cache before it commits was written after it dropped the entry, or was not dropped.
THEOREM PageInvariant == Spec => []PageInv
BY InitPage, NextKeeps, PTL DEF Spec

\* Type correctness, whatever the number of pages and requests.
THEOREM TypeCorrect == Spec => []TypeOK
<1>1. PageInv => TypeOK
  BY DEF PageInv
<1> QED
  BY <1>1, PageInvariant, PTL

\* A hidden page stays in the cache only in an entry that a reader wrote whom the
\* change had overtaken, or that was not dropped.
THEOREM StaleByRaceOnly == Spec => []StaleNeedsARace
<1>1. PageInv => StaleNeedsARace
  BY DEF PageInv
<1> QED
  BY <1>1, PageInvariant, PTL

-----------------------------------------------------------------------------
(***************************************************************************)
(* The marketplace (Marketplace), the other thing a visitor sees: for any   *)
(* number of users, authors, ratings and overlapping requests.              *)
(***************************************************************************)
CONSTANTS Users, Authors, Ratings, Requests, MaxAccounts
VARIABLES user, status, author, reviews, rating, request, stripe, payout, mingled,
          departed, contested, doubled

Mk == INSTANCE Marketplace

Givers(rs) == {u \in Users : rs[u] # None}
IsReviewing(s) == s.pc \in {"review", "upserted", "computed"}
Onboarding(s, u) == s.pc \in {"onboard", "created"} /\ s.user = u
\* The reviews as the transaction of a request sees them.
With(s) == [reviews EXCEPT ![s.user] = s.rating]

\* A request that writes a review has an author of it, who exists once it is written;
\* one that has created an account is its user's; and one that decides has decided.
CallOK(s) ==
    /\ IsReviewing(s) => s.user \in Users /\ s.rating \in Ratings
    /\ s.pc \in {"upserted", "computed"} => s.user \in user
    /\ s.pc \in {"submit", "onboard", "created"} => s.user \in Users
    /\ s.pc = "decide" => s.decision \in {"approved", "rejected"}
    /\ s.pc = "created" => s.account \in 1..Len(stripe) /\ stripe[s.account] = s.user
CallsOK == \A q \in Requests : CallOK(request[q])

\* A review that is alone is the only one, and has the rating as it is.
AloneOK(q) ==
    request[q].alone /\ IsReviewing(request[q]) =>
        /\ \A r \in Requests : IsReviewing(request[r]) => r = q
        /\ request[q].seen = rating
        /\ request[q].pc = "computed" => request[q].computed = Mk!RatingOf(With(request[q]))
AlonesOK == \A q \in Requests : AloneOK(q)

\* No rating, stored or computed, counts more reviews than there are, and the last
\* one that was written alone is right, until an account leaves.
RatingsOK ==
    /\ IsFiniteSet(Givers(reviews))
    /\ ~departed =>
         /\ rating.count <= Cardinality(Givers(reviews))
         /\ \A q \in Requests : request[q].pc = "computed" =>
              request[q].computed.count <= Cardinality(Givers(With(request[q])))
    /\ ~departed /\ ~mingled => rating = Mk!RatingOf(reviews)

\* Uncontested, one moderator decides at a time, on a pending template.
DecisionsOK ==
    ~contested => \A q \in Requests : request[q].pc = "decide" =>
        /\ status = "pending"
        /\ \A r \in Requests : request[r].pc = "decide" => r = q

\* A user whose onboardings do not overlap has one at most; it has created the only
\* account there is, and otherwise the account is stored.
AccountOK(u) ==
    /\ \A q, r \in Requests : Onboarding(request[q], u) /\ Onboarding(request[r], u) => q = r
    /\ \A q \in Requests, n \in 1..Len(stripe) :
         Onboarding(request[q], u) /\ stripe[n] = u =>
           request[q].pc = "created" /\ request[q].account = n
    /\ \A n \in 1..Len(stripe) : stripe[n] = u =>
         payout[u] = n \/ \E q \in Requests : request[q].pc = "created"
                                              /\ request[q].account = n
AccountsOK == \A u \in user \ doubled : AccountOK(u)

MkInv == Mk!TypeOK /\ CallsOK /\ AlonesOK /\ RatingsOK /\ DecisionsOK /\ AccountsOK

LEMMA MkBounds ==
  ASSUME Mk!ConstantsAssumption
  PROVE  /\ Authors \subseteq Users /\ None \notin Users
         /\ Ratings \subseteq Nat /\ 0 \notin Ratings /\ None \notin Ratings
         /\ MaxAccounts \in Nat /\ 0 \in 0..MaxAccounts
  <1>1. /\ Authors \subseteq Users /\ None \notin Users /\ None \notin Nat
        /\ Ratings \subseteq Nat \ {0} /\ MaxAccounts \in Nat
    BY DEF Mk!ConstantsAssumption
  <1>2. 0 \in 0..MaxAccounts
    BY <1>1
  <1>3. 0 \notin Ratings /\ None \notin Ratings /\ Ratings \subseteq Nat
    BY <1>1
  <1> QED BY <1>1, <1>2, <1>3

LEMMA MkIdleOK ==
  ASSUME Mk!ConstantsAssumption
  PROVE  Mk!Idle \in Mk!Request /\ Mk!Idle.pc = "idle" /\ Mk!NoRating \in Mk!Rating
  <1>1. Mk!NoRating \in Mk!Rating
    BY DEF Mk!NoRating, Mk!Rating
  <1>2. Mk!Idle \in Mk!Request /\ Mk!Idle.pc = "idle"
    BY <1>1, MkBounds DEF Mk!Idle, Mk!Request
  <1> QED BY <1>1, <1>2

\* A sum over a finite set of natural numbers is one: there is no least size up to
\* which its recursion has no solution, and no least size at which two solutions differ.
SumOf(f, S) == Mk!MapThenSumSet(LAMBDA u : f[u], S)

LEMMA SumsAreNatural ==
  ASSUME NEW S, IsFiniteSet(S), NEW f, \A x \in S : f[x] \in Nat
  PROVE  SumOf(f, S) \in Nat
  <1> DEFINE One(s) == CHOOSE x \in s : TRUE
             Rest(s) == s \ {One(s)}
             Sum(g, s) == IF s = {} THEN 0 ELSE f[One(s)] + g[Rest(s)]
             UpTo(n) == \E g \in [SUBSET S -> Nat] :
                          \A s \in SUBSET S : Cardinality(s) <= n => g[s] = Sum(g, s)
             R == OpToRel(<, Nat)
  <1>1. \A s \in SUBSET S : IsFiniteSet(s) /\ Cardinality(s) \in Nat
    BY FS_Subset, FS_CardinalityType
  <1>2. ASSUME NEW s \in SUBSET S, s # {}
        PROVE  /\ One(s) \in s /\ f[One(s)] \in Nat /\ Rest(s) \in SUBSET S
               /\ Cardinality(Rest(s)) = Cardinality(s) - 1
    <2>1. One(s) \in s
      BY <1>2
    <2> HIDE DEF One
    <2>2. Cardinality(Rest(s)) = Cardinality(s) - 1
      BY <1>1, <2>1, FS_RemoveElement
    <2> QED BY <2>1, <2>2
  <1>3. \A s \in SUBSET S : Cardinality(s) = 0 <=> s = {}
    BY <1>1, FS_EmptySet
  <1> HIDE DEF One, Rest
  <1>4. UpTo(0)
    <2>1. PICK g \in [SUBSET S -> Nat] : g = [s \in SUBSET S |-> 0]
      OBVIOUS
    <2>2. ASSUME NEW s \in SUBSET S, Cardinality(s) <= 0 PROVE g[s] = Sum(g, s)
      BY <1>1, <1>3, <2>1, <2>2
    <2> QED BY <2>2
  <1>5. ASSUME NEW n \in Nat, UpTo(n) PROVE UpTo(n + 1)
    <2>1. PICK g \in [SUBSET S -> Nat] :
            \A s \in SUBSET S : Cardinality(s) <= n => g[s] = Sum(g, s)
      BY <1>5
    <2>2. PICK h : h = [s \in SUBSET S |-> IF Cardinality(s) <= n THEN g[s]
                                           ELSE f[One(s)] + g[Rest(s)]]
      OBVIOUS
    <2>3. ASSUME NEW s \in SUBSET S, ~(Cardinality(s) <= n)
          PROVE  s # {} /\ f[One(s)] + g[Rest(s)] \in Nat
      <3>1. s # {}
        BY <1>1, <1>3, <2>3
      <3>2. f[One(s)] \in Nat /\ g[Rest(s)] \in Nat
        BY <1>2, <3>1
      <3> QED BY <3>1, <3>2
    <2>4. h \in [SUBSET S -> Nat]
      BY <2>2, <2>3
    <2>5. ASSUME NEW s \in SUBSET S, Cardinality(s) <= n + 1 PROVE h[s] = Sum(h, s)
      <3>1. CASE s = {}
        <4>1. h[s] = g[s] /\ g[s] = Sum(g, s)
          BY <1>3, <2>1, <2>2, <3>1
        <4> QED BY <3>1, <4>1
      <3>2. CASE s # {}
        <4>1. Rest(s) \in SUBSET S /\ Cardinality(Rest(s)) <= n
          BY <1>1, <1>2, <2>5, <3>2
        <4>2. h[Rest(s)] = g[Rest(s)]
          BY <2>2, <4>1
        <4>3. h[s] = f[One(s)] + g[Rest(s)]
          BY <2>1, <2>2, <3>2
        <4> QED BY <3>2, <4>2, <4>3
      <3> QED BY <3>1, <3>2
    <2> QED BY <2>4, <2>5
  <1>6. \A n \in Nat : UpTo(n)
    <2> HIDE DEF UpTo
    <2> DEFINE Bad == {n \in Nat : ~UpTo(n)}
    <2>1. SUFFICES ASSUME Bad # {} PROVE FALSE
      OBVIOUS
    <2>2. Bad \subseteq Nat /\ IsWellFoundedOn(R, Nat)
      BY NatLessThanWellFounded
    <2>3. PICK n \in Bad : \A m \in Bad : ~(<<m, n>> \in R)
      <3> HIDE DEF Bad, R
      <3> QED BY <2>1, <2>2, WFMin
    <2>4. n \in Nat /\ n # 0
      BY <1>4
    <2>5. n - 1 \in Nat /\ n - 1 < n /\ n = (n - 1) + 1
      BY <2>4
    <2>6. n - 1 \notin Bad
      BY <2>3, <2>5 DEF OpToRel
    <2> QED BY <1>5, <2>5, <2>6
  <1>7. PICK g \in [SUBSET S -> Nat] : \A s \in SUBSET S : g[s] = Sum(g, s)
    <2>1. PICK g \in [SUBSET S -> Nat] :
            \A s \in SUBSET S : Cardinality(s) <= Cardinality(S) => g[s] = Sum(g, s)
      BY <1>1, <1>6
    <2>2. \A s \in SUBSET S : Cardinality(s) <= Cardinality(S)
      BY FS_Subset
    <2> QED BY <2>1, <2>2
  <1>8. PICK i : /\ i = [s \in SUBSET S |-> Sum(i, s)]
                 /\ SumOf(f, S) = i[S]
    <2>1. g = [s \in SUBSET S |-> Sum(g, s)]
      BY <1>7
    <2>2. PICK i : i = CHOOSE iter : iter = [s \in SUBSET S |-> Sum(iter, s)]
      OBVIOUS
    <2>3. i = [s \in SUBSET S |-> Sum(i, s)]
      BY <2>1, <2>2
    <2>4. SumOf(f, S) = i[S]
      BY <2>2 DEF SumOf, Mk!MapThenSumSet, Mk!MapThenFoldSet, One, Rest
    <2> QED BY <2>3, <2>4
  <1>9. \A n \in Nat : \A s \in SUBSET S : Cardinality(s) = n => i[s] = g[s]
    <2> DEFINE Bad == {n \in Nat : \E s \in SUBSET S : Cardinality(s) = n /\ i[s] # g[s]}
    <2>1. SUFFICES ASSUME Bad # {} PROVE FALSE
      OBVIOUS
    <2>2. Bad \subseteq Nat /\ IsWellFoundedOn(R, Nat)
      BY NatLessThanWellFounded
    <2>3. PICK n \in Bad : \A m \in Bad : ~(<<m, n>> \in R)
      <3> HIDE DEF Bad, R
      <3> QED BY <2>1, <2>2, WFMin
    <2>4. PICK s \in SUBSET S : Cardinality(s) = n /\ i[s] # g[s]
      OBVIOUS
    <2>5. i[s] = Sum(i, s) /\ g[s] = Sum(g, s)
      BY <1>7, <1>8
    <2>6. s # {} /\ i[Rest(s)] # g[Rest(s)]
      BY <2>4, <2>5
    <2>7. Rest(s) \in SUBSET S /\ Cardinality(Rest(s)) = n - 1 /\ n - 1 \in Nat /\ n \in Nat
      BY <1>1, <1>2, <2>4, <2>6
    <2>8. n - 1 \in Bad
      BY <2>6, <2>7
    <2>9. <<n - 1, n>> \in R
      BY <2>7 DEF OpToRel
    <2> QED BY <2>3, <2>8, <2>9
  <1>10. i[S] = g[S] /\ g[S] \in Nat
    BY <1>1, <1>9
  <1> QED BY <1>8, <1>10

LEMMA SameCardinality == \A S : Mk!Cardinality(S) = Cardinality(S)
  BY DEF Mk!Cardinality, Cardinality

\* The average of positive ratings, in hundredths.
LEMMA AverageIsNatural ==
  ASSUME NEW sum \in Nat, NEW n \in Nat, n # 0
  PROVE  Mk!Hundredths(sum, n) \in Nat
  <1>1. 100 * sum \in Nat
    OBVIOUS
  <1>2. (100 * sum) \div n \in Int /\ (100 * sum) % n \in 0..(n - 1)
    BY <1>1
  <1>3. 100 * sum = n * ((100 * sum) \div n) + ((100 * sum) % n)
    BY <1>1
  <1>4. (100 * sum) \div n >= 0
    <2>1. PICK x \in Int, y \in 0..(n - 1) : x = (100 * sum) \div n /\ 100 * sum = n * x + y
      BY <1>2, <1>3
    <2>2. ASSUME x < 0 PROVE FALSE
      <3>1. PICK k \in Nat : x = -1 - k
        <4>1. -1 - x \in Nat /\ x = -1 - (-1 - x)
          BY <2>2
        <4> QED BY <4>1
      <3>2. n * x = -n - n * k /\ n * k \in Nat
        BY <3>1
      <3> QED BY <1>1, <2>1, <3>2
    <2> QED BY <2>1, <2>2
  <1> QED BY <1>2, <1>4 DEF Mk!Hundredths

LEMMA RatingIsOne ==
  ASSUME Mk!ConstantsAssumption, NEW rs \in [Users -> Ratings \cup {None}],
         IsFiniteSet(Givers(rs))
  PROVE  /\ Mk!RatingOf(rs) \in Mk!Rating
         /\ Mk!RatingOf(rs).count = Cardinality(Givers(rs))
  <1>1. PICK n \in Nat : n = Cardinality(Givers(rs))
    BY FS_CardinalityType
  <1>2. PICK sum \in Nat : sum = SumOf(rs, Givers(rs))
    <2>1. \A u \in Givers(rs) : rs[u] \in Nat
      BY MkBounds DEF Givers
    <2> QED BY <2>1, SumsAreNatural
  <1>3. Mk!RatingOf(rs) = IF n = 0 THEN Mk!NoRating
                          ELSE [average |-> Mk!Hundredths(sum, n), count |-> n]
    <2>1. Mk!RatingOf(rs) =
            IF Cardinality(Givers(rs)) = 0 THEN Mk!NoRating
            ELSE [average |-> Mk!Hundredths(SumOf(rs, Givers(rs)), Cardinality(Givers(rs))),
                  count |-> Cardinality(Givers(rs))]
      BY SameCardinality DEF Mk!RatingOf, Givers, SumOf
    <2> QED BY <1>1, <1>2, <2>1
  <1>4. n # 0 => Mk!Hundredths(sum, n) \in Nat
    BY AverageIsNatural
  <1> QED BY <1>1, <1>3, <1>4 DEF Mk!NoRating, Mk!Rating

LEMMA VisibleIsOne ==
  ASSUME Mk!ConstantsAssumption, MkInv, NEW s, s.user \in Users, s.rating \in Ratings
  PROVE  /\ With(s) \in [Users -> Ratings \cup {None}]
         /\ Givers(With(s)) = Givers(reviews) \cup {s.user}
         /\ IsFiniteSet(Givers(With(s)))
         /\ Cardinality(Givers(reviews)) <= Cardinality(Givers(With(s)))
         /\ Cardinality(Givers(reviews)) \in Nat /\ Cardinality(Givers(With(s))) \in Nat
         /\ Mk!RatingOf(With(s)) \in Mk!Rating
         /\ Mk!RatingOf(With(s)).count = Cardinality(Givers(With(s)))
  <1>1. reviews \in [Users -> Ratings \cup {None}] /\ IsFiniteSet(Givers(reviews))
    BY DEF MkInv, Mk!TypeOK, RatingsOK
  <1>2. With(s) \in [Users -> Ratings \cup {None}]
    BY <1>1 DEF With
  <1>3. Givers(With(s)) = Givers(reviews) \cup {s.user}
    BY <1>1, MkBounds DEF With, Givers
  <1>4. IsFiniteSet(Givers(With(s)))
    BY <1>1, <1>3, FS_AddElement
  <1>5. Cardinality(Givers(reviews)) \in Nat /\ Cardinality(Givers(With(s))) \in Nat
    BY <1>1, <1>4, FS_CardinalityType
  <1>6. Cardinality(Givers(reviews)) <= Cardinality(Givers(With(s)))
    BY <1>1, <1>3, <1>4, FS_Subset
  <1> QED BY <1>2, <1>3, <1>4, <1>5, <1>6, RatingIsOne

-----------------------------------------------------------------------------
(* What one request leaves alone                                           *)

\* A request that does not review, or ends.
LEMMA RatingsStay ==
  ASSUME MkInv, NEW q \in Requests, NEW s \in Mk!Request, ~IsReviewing(s),
         request' = [request EXCEPT ![q] = s], UNCHANGED <<reviews, rating, mingled, departed>>
  PROVE  AlonesOK' /\ RatingsOK'
  <1>1. \A r \in Requests : request'[r] = IF r = q THEN s ELSE request[r]
    BY DEF MkInv, Mk!TypeOK
  <1>2. ASSUME NEW r \in Requests PROVE AloneOK(r)'
    <2>1. CASE r = q
      BY <1>1, <2>1 DEF AloneOK, IsReviewing
    <2>2. CASE r # q
      <3>1. request'[r] = request[r] /\ AloneOK(r)
        BY <1>1, <2>2 DEF MkInv, AlonesOK
      <3>2. \A x \in Requests : IsReviewing(request'[x]) => IsReviewing(request[x])
        BY <1>1
      <3> QED BY <3>1, <3>2 DEF AloneOK, IsReviewing, With
    <2> QED BY <2>1, <2>2
  <1>3. RatingsOK'
    <2>1. RatingsOK
      BY DEF MkInv
    <2>2. \A r \in Requests : request'[r].pc = "computed" => request'[r] = request[r]
      BY <1>1 DEF IsReviewing
    <2> QED BY <2>1, <2>2 DEF RatingsOK, Givers, With
  <1> QED BY <1>2, <1>3 DEF AlonesOK

\* A request that does not decide.
LEMMA DecisionsStay ==
  ASSUME MkInv, UNCHANGED <<status, contested>>,
         \A r \in Requests : request'[r].pc = "decide" => request[r].pc = "decide"
  PROVE  DecisionsOK'
  BY DEF MkInv, DecisionsOK

\* A request that does not onboard.
LEMMA AccountsStay ==
  ASSUME MkInv, UNCHANGED <<user, stripe, payout, doubled>>,
         \A r \in Requests :
            /\ request'[r].pc \in {"onboard", "created"}
                 <=> request[r].pc \in {"onboard", "created"}
            /\ request[r].pc \in {"onboard", "created"} =>
                 /\ request'[r].pc = request[r].pc /\ request'[r].user = request[r].user
                 /\ request'[r].account = request[r].account
  PROVE  AccountsOK'
  <1>1. ASSUME NEW u \in user \ doubled PROVE AccountOK(u)'
    <2>1. AccountOK(u)
      BY DEF MkInv, AccountsOK
    <2>2. \A r \in Requests : Onboarding(request'[r], u) => Onboarding(request[r], u)
                              /\ request'[r].pc = request[r].pc
                              /\ request'[r].account = request[r].account
      BY DEF Onboarding
    <2>3. \A r \in Requests : request[r].pc = "created" =>
             request'[r].pc = "created" /\ request'[r].account = request[r].account
      OBVIOUS
    <2>4. \A q, r \in Requests :
             Onboarding(request'[q], u) /\ Onboarding(request'[r], u) => q = r
      BY <2>1, <2>2 DEF AccountOK
    <2>5. \A q \in Requests, n \in 1..Len(stripe') :
            Onboarding(request'[q], u) /\ stripe'[n] = u =>
              request'[q].pc = "created" /\ request'[q].account = n
      BY <2>1, <2>2 DEF AccountOK
    <2>6. \A n \in 1..Len(stripe') : stripe'[n] = u =>
            payout'[u] = n \/ \E q \in Requests : request'[q].pc = "created"
                                                  /\ request'[q].account = n
      BY <2>1, <2>3 DEF AccountOK
    <2> QED BY <2>4, <2>5, <2>6 DEF AccountOK, Onboarding
  <1> QED BY <1>1 DEF AccountsOK

\* The calls that do not move.
LEMMA CallsStay ==
  ASSUME MkInv, NEW q \in Requests, NEW s \in Mk!Request, CallOK(s)',
         request' = [request EXCEPT ![q] = s], UNCHANGED <<user, stripe>>
  PROVE  request' \in [Requests -> Mk!Request] /\ CallsOK'
  <1>1. \A r \in Requests : request'[r] = IF r = q THEN s ELSE request[r]
    BY DEF MkInv, Mk!TypeOK
  <1>2. request' \in [Requests -> Mk!Request]
    BY DEF MkInv, Mk!TypeOK
  <1>3. ASSUME NEW r \in Requests PROVE CallOK(request[r])'
    <2>1. CASE r = q
      BY <1>1, <2>1 DEF CallOK, IsReviewing
    <2>2. CASE r # q
      BY <1>1, <2>2 DEF MkInv, CallsOK, CallOK, IsReviewing
    <2> QED BY <2>1, <2>2
  <1> QED BY <1>2, <1>3 DEF CallsOK

-----------------------------------------------------------------------------
(* Steps of the marketplace                                                *)

LEMMA LoadForSubmitStep ==
  ASSUME Mk!ConstantsAssumption, MkInv, NEW q \in Requests, NEW u \in Authors,
         Mk!LoadForSubmit(q, u)
  PROVE  MkInv'
  <1>1. PICK s : s = [Mk!Idle EXCEPT !.pc = "submit", !.user = u]
    OBVIOUS
  <1>2. /\ request' = [request EXCEPT ![q] = s] /\ request[q].pc = "idle"
        /\ UNCHANGED <<user, status, author, reviews, rating, stripe, payout,
                       mingled, departed, contested, doubled>>
    BY <1>1 DEF Mk!LoadForSubmit, Mk!template, Mk!accounts, Mk!ghostVars, Mk!At
  <1>3. s \in Mk!Request /\ s.pc = "submit" /\ s.user = u
    BY <1>1, MkIdleOK, MkBounds DEF Mk!Request
  <1>4. request' \in [Requests -> Mk!Request] /\ CallsOK'
    <2>1. CallOK(s)'
      BY <1>3, MkBounds DEF CallOK, IsReviewing
    <2> QED BY <1>2, <1>3, <2>1, CallsStay
  <1>5. \A r \in Requests : request'[r] = IF r = q THEN s ELSE request[r]
    BY <1>2 DEF MkInv, Mk!TypeOK
  <1>6. AlonesOK' /\ RatingsOK'
    BY <1>2, <1>3, RatingsStay DEF IsReviewing
  <1>7. DecisionsOK'
    BY <1>2, <1>3, <1>5, DecisionsStay
  <1>8. AccountsOK'
    BY <1>2, <1>3, <1>5, AccountsStay
  <1>9. Mk!TypeOK'
    BY <1>2, <1>4 DEF MkInv, Mk!TypeOK
  <1> QED BY <1>4, <1>6, <1>7, <1>8, <1>9 DEF MkInv

LEMMA CommitSubmitStep ==
  ASSUME Mk!ConstantsAssumption, MkInv, NEW q \in Requests, Mk!CommitSubmit(q)
  PROVE  MkInv'
  <1>1. PICK s : s = Mk!Idle
    OBVIOUS
  <1>2. /\ request' = [request EXCEPT ![q] = s] /\ request[q].pc = "submit"
        /\ UNCHANGED <<user, reviews, rating, stripe, payout,
                       mingled, departed, contested, doubled>>
    BY <1>1 DEF Mk!CommitSubmit, Mk!Finish, Mk!accounts, Mk!ghostVars, Mk!At
  <1>3. s \in Mk!Request /\ s.pc = "idle"
    BY <1>1, MkIdleOK
  <1>4. request' \in [Requests -> Mk!Request] /\ CallsOK'
    <2>1. CallOK(s)'
      BY <1>3 DEF CallOK, IsReviewing
    <2> QED BY <1>2, <1>3, <2>1, CallsStay
  <1>5. \A r \in Requests : request'[r] = IF r = q THEN s ELSE request[r]
    BY <1>2 DEF MkInv, Mk!TypeOK
  <1>6. AlonesOK' /\ RatingsOK'
    BY <1>2, <1>3, RatingsStay DEF IsReviewing
  <1>7. /\ status' = status \/ (status = "none" /\ status' = "pending")
        /\ author' \in user \cup {None}
    <2>1. CASE status = "none" /\ request[q].user \in user
      BY <2>1 DEF Mk!CommitSubmit
    <2>2. CASE ~(status = "none" /\ request[q].user \in user)
      BY <2>2 DEF Mk!CommitSubmit, MkInv, Mk!TypeOK
    <2> QED BY <2>1, <2>2
  <1>8. DecisionsOK'
    <2>1. DecisionsOK
      BY DEF MkInv
    <2>2. \A r \in Requests : request'[r].pc = "decide" => request[r].pc = "decide"
      BY <1>3, <1>5
    <2> QED BY <1>2, <1>7, <2>1, <2>2 DEF DecisionsOK
  <1>9. AccountsOK'
    BY <1>2, <1>3, <1>5, AccountsStay
  <1>10. Mk!TypeOK'
    BY <1>2, <1>4, <1>7 DEF MkInv, Mk!TypeOK
  <1> QED BY <1>4, <1>6, <1>8, <1>9, <1>10 DEF MkInv

LEMMA LoadForDecisionStep ==
  ASSUME Mk!ConstantsAssumption, MkInv, NEW q \in Requests,
         NEW d \in {"approved", "rejected"}, Mk!LoadForDecision(q, d)
  PROVE  MkInv'
  <1>1. PICK s : s = [Mk!Idle EXCEPT !.pc = "decide", !.decision = d]
    OBVIOUS
  <1>2. /\ request' = [request EXCEPT ![q] = s] /\ request[q].pc = "idle"
        /\ UNCHANGED <<user, status, author, reviews, rating, stripe, payout,
                       mingled, departed, doubled>>
    BY <1>1 DEF Mk!LoadForDecision, Mk!template, Mk!accounts, Mk!At
  <1>3. s \in Mk!Request /\ s.pc = "decide" /\ s.decision = d
    BY <1>1, MkIdleOK DEF Mk!Request
  <1>4. request' \in [Requests -> Mk!Request] /\ CallsOK'
    <2>1. CallOK(s)'
      BY <1>3 DEF CallOK, IsReviewing
    <2> QED BY <1>2, <1>3, <2>1, CallsStay
  <1>5. \A r \in Requests : request'[r] = IF r = q THEN s ELSE request[r]
    BY <1>2 DEF MkInv, Mk!TypeOK
  <1>6. AlonesOK' /\ RatingsOK'
    BY <1>2, <1>3, RatingsStay DEF IsReviewing
  <1>7. DecisionsOK'
    <2>1. SUFFICES ASSUME ~contested', NEW r \in Requests, request'[r].pc = "decide"
                   PROVE  /\ status' = "pending"
                          /\ \A x \in Requests : request'[x].pc = "decide" => x = r
      BY DEF DecisionsOK
    <2>2. contested' = (contested \/ Mk!Open({"decide"}) # {}) /\ status = "pending"
      BY DEF Mk!LoadForDecision, Mk!Decidable
    <2>3. \A x \in Requests : request[x].pc # "decide"
      BY <2>1, <2>2 DEF Mk!Open
    <2>4. \A x \in Requests : request'[x].pc = "decide" => x = q
      BY <1>5, <2>3
    <2> QED BY <1>2, <2>1, <2>2, <2>4
  <1>8. AccountsOK'
    BY <1>2, <1>3, <1>5, AccountsStay
  <1>9. contested' \in BOOLEAN
    BY DEF Mk!LoadForDecision, MkInv, Mk!TypeOK
  <1>10. Mk!TypeOK'
    BY <1>2, <1>4, <1>9 DEF MkInv, Mk!TypeOK
  <1> QED BY <1>4, <1>6, <1>7, <1>8, <1>10 DEF MkInv

LEMMA CommitDecisionStep ==
  ASSUME Mk!ConstantsAssumption, MkInv, NEW q \in Requests, Mk!CommitDecision(q)
  PROVE  MkInv'
  <1>1. PICK s : s = Mk!Idle
    OBVIOUS
  <1>2. /\ request' = [request EXCEPT ![q] = s] /\ request[q].pc = "decide"
        /\ UNCHANGED <<user, author, reviews, rating, stripe, payout,
                       mingled, departed, contested, doubled>>
        /\ status' = request[q].decision
    BY <1>1 DEF Mk!CommitDecision, Mk!Finish, Mk!accounts, Mk!ghostVars, Mk!At
  <1>3. s \in Mk!Request /\ s.pc = "idle"
    BY <1>1, MkIdleOK
  <1>4. request' \in [Requests -> Mk!Request] /\ CallsOK'
    <2>1. CallOK(s)'
      BY <1>3 DEF CallOK, IsReviewing
    <2> QED BY <1>2, <1>3, <2>1, CallsStay
  <1>5. \A r \in Requests : request'[r] = IF r = q THEN s ELSE request[r]
    BY <1>2 DEF MkInv, Mk!TypeOK
  <1>6. AlonesOK' /\ RatingsOK'
    BY <1>2, <1>3, RatingsStay DEF IsReviewing
  <1>7. DecisionsOK'
    <2>1. DecisionsOK
      BY DEF MkInv
    <2>2. ~contested => \A r \in Requests : request'[r].pc # "decide"
      BY <1>2, <1>3, <1>5, <2>1 DEF DecisionsOK
    <2> QED BY <1>2, <2>2 DEF DecisionsOK
  <1>8. AccountsOK'
    BY <1>2, <1>3, <1>5, AccountsStay
  <1>9. status' \in {"approved", "rejected"}
    <2>1. CallOK(request[q])
      BY DEF MkInv, CallsOK
    <2> QED BY <1>2, <2>1 DEF CallOK
  <1>10. Mk!TypeOK'
    BY <1>2, <1>4, <1>9 DEF MkInv, Mk!TypeOK
  <1> QED BY <1>4, <1>6, <1>7, <1>8, <1>10 DEF MkInv

LEMMA Disturbed ==
  ASSUME NEW t \in Mk!Request, NEW d, d = [t EXCEPT !.alone = FALSE]
  PROVE  /\ d \in Mk!Request /\ ~d.alone
         /\ d.pc = t.pc /\ d.user = t.user /\ d.rating = t.rating
         /\ d.computed = t.computed /\ d.account = t.account /\ d.decision = t.decision
  BY DEF Mk!Request

LEMMA LoadForReviewStep ==
  ASSUME Mk!ConstantsAssumption, MkInv, NEW q \in Requests, NEW u \in Users,
         NEW g \in Ratings, Mk!LoadForReview(q, u, g)
  PROVE  MkInv'
  <1>1. PICK alone \in BOOLEAN : alone = (Mk!Reviewing = {})
    OBVIOUS
  <1>2. PICK s : s = [Mk!Idle EXCEPT !.pc = "review", !.user = u, !.rating = g,
                                     !.seen = rating, !.alone = alone]
    OBVIOUS
  <1>3. /\ request' = [Mk!Disturb(request) EXCEPT ![q] = s] /\ request[q].pc = "idle"
        /\ UNCHANGED <<user, status, author, reviews, rating, stripe, payout,
                       mingled, departed, contested, doubled>>
    BY <1>1, <1>2 DEF Mk!LoadForReview, Mk!template, Mk!accounts, Mk!ghostVars, Mk!At
  <1>4. rating \in Mk!Rating /\ request \in [Requests -> Mk!Request]
    BY DEF MkInv, Mk!TypeOK
  <1>5. /\ s \in Mk!Request /\ s.pc = "review" /\ s.user = u /\ s.rating = g
        /\ s.seen = rating
    BY <1>2, <1>4, MkIdleOK DEF Mk!Request
  <1>6. s.alone = alone
    BY <1>2, <1>4, MkIdleOK DEF Mk!Request
  <1>7. \A r \in Requests : /\ r = q => request'[r] = s
                            /\ r # q => request'[r] = [request[r] EXCEPT !.alone = FALSE]
    BY <1>3 DEF Mk!Disturb
  <1>8. \A r \in Requests : r # q =>
          /\ request'[r] \in Mk!Request /\ ~request'[r].alone
          /\ request'[r].pc = request[r].pc /\ request'[r].user = request[r].user
          /\ request'[r].rating = request[r].rating
          /\ request'[r].computed = request[r].computed
          /\ request'[r].account = request[r].account
          /\ request'[r].decision = request[r].decision
    <2>1. ASSUME NEW r \in Requests, r # q
          PROVE  request[r] \in Mk!Request /\ request'[r] = [request[r] EXCEPT !.alone = FALSE]
      BY <1>4, <1>7, <2>1
    <2> QED BY <2>1, Disturbed
  <1>9. request' \in [Requests -> Mk!Request]
    BY <1>3, <1>4, <1>5, <1>7, <1>8 DEF Mk!Disturb
  <1>10. CallsOK'
    <2>1. ASSUME NEW r \in Requests PROVE CallOK(request[r])'
      <3>1. CASE r = q
        BY <1>5, <1>7, <3>1 DEF CallOK, IsReviewing
      <3>2. CASE r # q
        <4>1. CallOK(request[r])
          BY DEF MkInv, CallsOK
        <4> QED BY <1>3, <1>8, <3>2, <4>1 DEF CallOK, IsReviewing
      <3> QED BY <3>1, <3>2
    <2> QED BY <2>1 DEF CallsOK
  <1>11. AlonesOK'
    <2>1. ASSUME NEW r \in Requests PROVE AloneOK(r)'
      <3>1. CASE r = q
        <4>1. alone => \A x \in Requests : ~IsReviewing(request[x])
          BY <1>1 DEF Mk!Reviewing, Mk!Open, IsReviewing
        <4>2. alone => \A x \in Requests : IsReviewing(request'[x]) => x = q
          BY <1>8, <4>1 DEF IsReviewing
        <4> QED BY <1>3, <1>5, <1>6, <1>7, <3>1, <4>2 DEF AloneOK, IsReviewing
      <3>2. CASE r # q
        BY <1>8, <3>2 DEF AloneOK
      <3> QED BY <3>1, <3>2
    <2> QED BY <2>1 DEF AlonesOK
  <1>12. RatingsOK'
    <2>1. RatingsOK
      BY DEF MkInv
    <2>2. \A r \in Requests : request'[r].pc = "computed" =>
             /\ request[r].pc = "computed" /\ request'[r].computed = request[r].computed
             /\ With(request[r])' = With(request[r])
      BY <1>3, <1>5, <1>7, <1>8 DEF With
    <2> QED BY <1>3, <2>1, <2>2 DEF RatingsOK, Givers
  <1>13. DecisionsOK'
    BY <1>3, <1>5, <1>7, <1>8, DecisionsStay
  <1>14. AccountsOK'
    BY <1>3, <1>5, <1>7, <1>8, AccountsStay
  <1>15. Mk!TypeOK'
    BY <1>3, <1>9 DEF MkInv, Mk!TypeOK
  <1> QED BY <1>10, <1>11, <1>12, <1>13, <1>14, <1>15 DEF MkInv

\* A review goes on: what it has computed is the rating of the reviews it sees.
LEMMA ReviewGoesOn ==
  ASSUME Mk!ConstantsAssumption, MkInv, NEW q \in Requests, NEW s \in Mk!Request,
         request' = [request EXCEPT ![q] = s],
         UNCHANGED <<user, status, author, reviews, rating, stripe, payout,
                     mingled, departed, contested, doubled>>,
         IsReviewing(request[q]), s.pc \in {"upserted", "computed"},
         request[q].user \in user,
         s.user = request[q].user, s.rating = request[q].rating,
         s.seen = request[q].seen, s.alone <=> request[q].alone,
         s.pc = "computed" => s.computed = Mk!RatingOf(With(s))
  PROVE  MkInv'
  <1>1. \A r \in Requests : request'[r] = IF r = q THEN s ELSE request[r]
    BY DEF MkInv, Mk!TypeOK
  <1>2. CallOK(request[q]) /\ AloneOK(q) /\ s.user \in Users /\ s.rating \in Ratings
    BY DEF MkInv, CallsOK, CallOK, AlonesOK
  <1>3. request' \in [Requests -> Mk!Request] /\ CallsOK'
    <2>1. CallOK(s)'
      BY <1>2 DEF CallOK, IsReviewing
    <2> QED BY <2>1, CallsStay
  <1>4. AlonesOK'
    <2>1. ASSUME NEW r \in Requests PROVE AloneOK(r)'
      <3>1. \A x \in Requests : IsReviewing(request'[x]) => IsReviewing(request[x])
        BY <1>1
      <3>2. CASE r = q
        <4>1. With(request[r])' = With(s)
          BY <1>1, <3>2 DEF With
        <4> QED BY <1>1, <1>2, <3>1, <3>2, <4>1 DEF AloneOK, IsReviewing
      <3>3. CASE r # q
        <4>1. AloneOK(r) /\ request'[r] = request[r]
          BY <1>1, <3>3 DEF MkInv, AlonesOK
        <4> QED BY <3>1, <4>1 DEF AloneOK, IsReviewing, With
      <3> QED BY <3>2, <3>3
    <2> QED BY <2>1 DEF AlonesOK
  <1>5. RatingsOK'
    <2>1. RatingsOK
      BY DEF MkInv
    <2>2. s.pc = "computed" => s.computed.count <= Cardinality(Givers(With(s)))
      <3>1. /\ Mk!RatingOf(With(s)).count = Cardinality(Givers(With(s)))
            /\ Cardinality(Givers(With(s))) \in Nat
        BY <1>2, VisibleIsOne
      <3> QED BY <3>1
    <2>3. ASSUME ~departed, NEW r \in Requests, request'[r].pc = "computed"
          PROVE  request'[r].computed.count <= Cardinality(Givers(With(request'[r])))
      BY <1>1, <2>1, <2>2, <2>3 DEF RatingsOK
    <2>4. \A r \in Requests : With(request[r])' = With(request'[r])
      BY DEF With
    <2> QED BY <2>1, <2>3, <2>4 DEF RatingsOK, Givers
  <1>6. DecisionsOK'
    BY <1>1, DecisionsStay
  <1>7. AccountsOK'
    BY <1>1, AccountsStay DEF IsReviewing
  <1>8. Mk!TypeOK'
    BY <1>3 DEF MkInv, Mk!TypeOK
  <1> QED BY <1>3, <1>4, <1>5, <1>6, <1>7, <1>8 DEF MkInv

LEMMA UpsertStep ==
  ASSUME Mk!ConstantsAssumption, MkInv, NEW q \in Requests, Mk!Upsert(q)
  PROVE  MkInv'
  <1>1. /\ request[q] \in Mk!Request /\ request[q].pc = "review"
        /\ request \in [Requests -> Mk!Request]
        /\ UNCHANGED <<user, status, author, reviews, rating, stripe, payout,
                       mingled, departed, contested, doubled>>
    BY DEF MkInv, Mk!TypeOK, Mk!Upsert, Mk!template, Mk!accounts, Mk!ghostVars, Mk!At
  <1>2. CASE request[q].user \in user
    <2>1. PICK s : s = [request[q] EXCEPT !.pc = "upserted"]
      OBVIOUS
    <2>2. request' = [request EXCEPT ![q] = s]
      BY <1>1, <1>2, <2>1 DEF Mk!Upsert
    <2>3. /\ s \in Mk!Request /\ s.pc = "upserted" /\ s.user = request[q].user
          /\ s.rating = request[q].rating /\ s.seen = request[q].seen
      BY <1>1, <2>1 DEF Mk!Request
    <2>4. s.alone <=> request[q].alone
      BY <1>1, <2>1 DEF Mk!Request
    <2> QED BY <1>1, <1>2, <2>2, <2>3, <2>4, ReviewGoesOn DEF IsReviewing
  <1>3. CASE request[q].user \notin user
    <2>1. PICK s : s = Mk!Idle
      OBVIOUS
    <2>2. request' = [request EXCEPT ![q] = s]
      BY <1>3, <2>1 DEF Mk!Upsert, Mk!Finish
    <2>3. s \in Mk!Request /\ s.pc = "idle"
      BY <2>1, MkIdleOK
    <2>4. request' \in [Requests -> Mk!Request] /\ CallsOK'
      <3>1. CallOK(s)'
        BY <2>3 DEF CallOK, IsReviewing
      <3> QED BY <1>1, <2>2, <2>3, <3>1, CallsStay
    <2>5. \A r \in Requests : request'[r] = IF r = q THEN s ELSE request[r]
      BY <1>1, <2>2
    <2>6. AlonesOK' /\ RatingsOK'
      BY <1>1, <2>2, <2>3, RatingsStay DEF IsReviewing
    <2>7. DecisionsOK'
      BY <1>1, <2>3, <2>5, DecisionsStay
    <2>8. AccountsOK'
      BY <1>1, <2>3, <2>5, AccountsStay
    <2>9. Mk!TypeOK'
      BY <1>1, <2>4 DEF MkInv, Mk!TypeOK
    <2> QED BY <2>4, <2>6, <2>7, <2>8, <2>9 DEF MkInv
  <1> QED BY <1>2, <1>3

LEMMA ComputeStep ==
  ASSUME Mk!ConstantsAssumption, MkInv, NEW q \in Requests, Mk!Compute(q)
  PROVE  MkInv'
  <1>1. /\ request[q] \in Mk!Request /\ request[q].pc = "upserted"
        /\ request \in [Requests -> Mk!Request] /\ CallOK(request[q])
        /\ UNCHANGED <<user, status, author, reviews, rating, stripe, payout,
                       mingled, departed, contested, doubled>>
    BY DEF MkInv, Mk!TypeOK, CallsOK, Mk!Compute, Mk!template, Mk!accounts, Mk!ghostVars, Mk!At
  <1>2. request[q].user \in user /\ request[q].user \in Users /\ request[q].rating \in Ratings
    BY <1>1 DEF CallOK, IsReviewing
  <1>3. PICK new \in Mk!Rating : new = Mk!RatingOf(With(request[q]))
    BY <1>2, VisibleIsOne
  <1>4. PICK s : s = [request[q] EXCEPT !.pc = "computed", !.computed = new]
    OBVIOUS
  <1>5. request' = [request EXCEPT ![q] = s]
    <2>1. request' = [request EXCEPT ![q].pc = "computed", ![q].computed = new]
      BY <1>3 DEF Mk!Compute, Mk!Visible, With
    <2> QED BY <1>1, <1>4, <2>1
  <1>6. /\ s \in Mk!Request /\ s.pc = "computed" /\ s.user = request[q].user
        /\ s.rating = request[q].rating /\ s.seen = request[q].seen /\ s.computed = new
    BY <1>1, <1>4 DEF Mk!Request
  <1>7. s.alone <=> request[q].alone
    BY <1>1, <1>4 DEF Mk!Request
  <1>8. With(s) = With(request[q])
    BY <1>6 DEF With
  <1> QED BY <1>1, <1>2, <1>3, <1>5, <1>6, <1>7, <1>8, ReviewGoesOn DEF IsReviewing

LEMMA CommitReviewStep ==
  ASSUME Mk!ConstantsAssumption, MkInv, NEW q \in Requests, Mk!CommitReview(q)
  PROVE  MkInv'
  <1>1. PICK me : me = request[q]
    OBVIOUS
  <1>2. PICK s : s = Mk!Idle
    OBVIOUS
  <1>3. /\ request' = [request EXCEPT ![q] = s] /\ me.pc = "computed"
        /\ reviews' = With(me)
        /\ rating' = Mk!Stored(rating, me.seen, me.computed)
        /\ mingled' = ~me.alone
        /\ departed' = (departed /\ ~me.alone)
        /\ UNCHANGED <<user, status, author, stripe, payout, contested, doubled>>
    BY <1>1, <1>2 DEF Mk!CommitReview, Mk!Finish, Mk!accounts, Mk!At, With
  <1>4. /\ request \in [Requests -> Mk!Request] /\ me \in Mk!Request
        /\ CallOK(me) /\ AloneOK(q) /\ rating \in Mk!Rating
        /\ reviews \in [Users -> Ratings \cup {None}]
        /\ \A u \in Users \ user : reviews[u] = None
    BY <1>1 DEF MkInv, CallsOK, AlonesOK, Mk!TypeOK
  <1>5. me.user \in user /\ me.user \in Users /\ me.rating \in Ratings
    BY <1>3, <1>4 DEF CallOK, IsReviewing
  <1>6. s \in Mk!Request /\ s.pc = "idle"
    BY <1>2, MkIdleOK
  <1>7. request' \in [Requests -> Mk!Request] /\ CallsOK'
    <2>1. CallOK(s)'
      BY <1>6 DEF CallOK, IsReviewing
    <2> QED BY <1>3, <1>6, <2>1, CallsStay
  <1>8. \A r \in Requests : request'[r] = IF r = q THEN s ELSE request[r]
    BY <1>3, <1>4
  <1>9. /\ reviews' \in [Users -> Ratings \cup {None}]
        /\ IsFiniteSet(Givers(reviews'))
        /\ Cardinality(Givers(reviews)) <= Cardinality(Givers(reviews'))
        /\ Cardinality(Givers(reviews)) \in Nat /\ Cardinality(Givers(reviews')) \in Nat
        /\ Givers(reviews') = Givers(reviews) \cup {me.user}
        /\ Mk!RatingOf(reviews') \in Mk!Rating
        /\ Mk!RatingOf(reviews').count = Cardinality(Givers(reviews'))
    BY <1>3, <1>5, VisibleIsOne
  <1>10. \A u \in Users \ user : reviews'[u] = None
    BY <1>3, <1>4, <1>5 DEF With
  <1>11. me.seen \in Mk!Rating /\ me.computed \in Mk!Rating
    BY <1>4 DEF Mk!Request
  <1>12. /\ rating' \in Mk!Rating
         /\ rating'.count \in {rating.count, me.computed.count}
         /\ me.seen = rating => rating' = me.computed
    BY <1>3, <1>4, <1>11 DEF Mk!Stored, Mk!Rating
  <1>13. AlonesOK'
    <2>1. ASSUME NEW r \in Requests PROVE AloneOK(r)'
      <3>1. CASE r = q
        BY <1>6, <1>8, <3>1 DEF AloneOK, IsReviewing
      <3>2. CASE r # q
        <4>1. AloneOK(r) /\ request'[r] = request[r]
          BY <1>8, <3>2 DEF MkInv, AlonesOK
        <4>2. IsReviewing(request[q])
          BY <1>1, <1>3 DEF IsReviewing
        <4> QED BY <3>2, <4>1, <4>2 DEF AloneOK, IsReviewing
      <3> QED BY <3>1, <3>2
    <2> QED BY <2>1 DEF AlonesOK
  <1>14. RatingsOK'
    <2>1. RatingsOK
      BY DEF MkInv
    <2>2. CASE me.alone
      <3>1. /\ \A r \in Requests : IsReviewing(request[r]) => r = q
            /\ me.seen = rating /\ me.computed = Mk!RatingOf(With(me))
        BY <1>1, <1>3, <1>4, <2>2 DEF AloneOK, IsReviewing
      <3>2. rating' = Mk!RatingOf(reviews')
        BY <1>3, <1>12, <3>1
      <3>3. \A r \in Requests : request'[r].pc # "computed"
        BY <1>6, <1>8, <3>1 DEF IsReviewing
      <3>4. IsFiniteSet(Givers(reviews)')
        BY <1>9 DEF Givers
      <3>5. rating'.count <= Cardinality(Givers(reviews)')
        BY <1>9, <3>2 DEF Givers
      <3>6. rating' = Mk!RatingOf(reviews)'
        BY <3>2
      <3> QED BY <3>3, <3>4, <3>5, <3>6 DEF RatingsOK
    <2>3. CASE ~me.alone
      <3>1. mingled' /\ departed' = departed
        BY <1>3, <1>4, <2>3 DEF MkInv, Mk!TypeOK
      <3>2. ASSUME ~departed
            PROVE  /\ rating'.count <= Cardinality(Givers(reviews'))
                   /\ \A r \in Requests : request'[r].pc = "computed" =>
                        request'[r].computed.count <= Cardinality(Givers(With(request[r])'))
        <4>1. rating.count <= Cardinality(Givers(reviews)) /\ rating.count \in Nat
          BY <1>4, <2>1, <3>2 DEF RatingsOK, Mk!Rating
        <4>2. me.computed.count <= Cardinality(Givers(reviews'))
          BY <1>1, <1>3, <2>1, <3>2 DEF RatingsOK
        <4>3. rating'.count <= Cardinality(Givers(reviews'))
          BY <1>9, <1>11, <1>12, <4>1, <4>2 DEF Mk!Rating
        <4>4. ASSUME NEW r \in Requests, request'[r].pc = "computed"
              PROVE  request'[r].computed.count <= Cardinality(Givers(With(request[r])'))
          <5>1. r # q /\ request'[r] = request[r] /\ request[r].pc = "computed"
            BY <1>6, <1>8, <4>4
          <5>2. /\ request[r].user \in Users /\ request[r].rating \in Ratings
                /\ request[r].computed.count \in Nat
            <6>1. CallOK(request[r]) /\ request[r] \in Mk!Request
              BY DEF MkInv, CallsOK, Mk!TypeOK
            <6> QED BY <5>1, <6>1 DEF CallOK, IsReviewing, Mk!Request, Mk!Rating
          <5>3. request[r].computed.count <= Cardinality(Givers(With(request[r])))
            BY <2>1, <3>2, <5>1 DEF RatingsOK
          <5>4. PICK t : t = request[r]
            OBVIOUS
          <5>5. /\ Givers(With(t)) = Givers(reviews) \cup {t.user}
                /\ Cardinality(Givers(With(t))) \in Nat
            BY <5>2, <5>4, VisibleIsOne
          <5>6. PICK now : now = [reviews' EXCEPT ![t.user] = t.rating]
            OBVIOUS
          <5>7. With(request[r])' = now
            BY <5>1, <5>4, <5>6 DEF With
          <5>8. Givers(now) = Givers(reviews') \cup {t.user}
            BY <1>9, <5>2, <5>4, <5>6, MkBounds DEF Givers
          <5>9. IsFiniteSet(Givers(now))
            BY <1>9, <5>8, FS_AddElement
          <5>10. /\ Cardinality(Givers(With(t))) <= Cardinality(Givers(now))
                 /\ Cardinality(Givers(now)) \in Nat
            BY <1>9, <5>5, <5>8, <5>9, FS_Subset, FS_CardinalityType
          <5>11. Givers(With(request[r])') = Givers(now)
            BY <5>7
          <5> QED BY <5>1, <5>2, <5>3, <5>4, <5>5, <5>10, <5>11
        <4> QED BY <4>3, <4>4
      <3>3. \A r \in Requests : Givers(With(request[r]))' = Givers(With(request[r])')
        BY DEF Givers
      <3>4. Givers(reviews)' = Givers(reviews')
        BY DEF Givers
      <3> QED BY <1>9, <3>1, <3>2, <3>3, <3>4 DEF RatingsOK
    <2> QED BY <2>2, <2>3
  <1>15. DecisionsOK'
    BY <1>3, <1>6, <1>8, DecisionsStay
  <1>16. AccountsOK'
    BY <1>1, <1>3, <1>6, <1>8, AccountsStay
  <1>17. mingled' \in BOOLEAN /\ departed' \in BOOLEAN
    BY <1>3
  <1>18. Mk!TypeOK'
    BY <1>3, <1>7, <1>9, <1>10, <1>12, <1>17 DEF MkInv, Mk!TypeOK
  <1> QED BY <1>7, <1>13, <1>14, <1>15, <1>16, <1>18 DEF MkInv

LEMMA LoadForOnboardStep ==
  ASSUME Mk!ConstantsAssumption, MkInv, NEW q \in Requests, NEW u \in Authors,
         Mk!LoadForOnboard(q, u)
  PROVE  MkInv'
  <1>1. PICK s : s = [Mk!Idle EXCEPT !.pc = "onboard", !.user = u]
    OBVIOUS
  <1>2. /\ request' = [request EXCEPT ![q] = s] /\ request[q].pc = "idle"
        /\ UNCHANGED <<user, status, author, reviews, rating, stripe, payout,
                       mingled, departed, contested>>
        /\ payout[u] = 0 /\ u \in Users
    BY <1>1, MkBounds DEF Mk!LoadForOnboard, Mk!template, Mk!accounts, Mk!At, Mk!NeedsAccount
  <1>3. s \in Mk!Request /\ s.pc = "onboard" /\ s.user = u
    BY <1>1, <1>2, MkIdleOK DEF Mk!Request
  <1>4. request' \in [Requests -> Mk!Request] /\ CallsOK'
    <2>1. CallOK(s)'
      BY <1>2, <1>3 DEF CallOK, IsReviewing
    <2> QED BY <1>2, <1>3, <2>1, CallsStay
  <1>5. \A r \in Requests : request'[r] = IF r = q THEN s ELSE request[r]
    BY <1>2 DEF MkInv, Mk!TypeOK
  <1>6. AlonesOK' /\ RatingsOK'
    BY <1>2, <1>3, RatingsStay DEF IsReviewing
  <1>7. DecisionsOK'
    BY <1>2, <1>3, <1>5, DecisionsStay
  <1>8. /\ doubled \subseteq doubled' /\ doubled' \subseteq Users
        /\ u \notin doubled' => \A r \in Requests : ~Onboarding(request[r], u)
    <2>1. doubled \subseteq Users
      BY DEF MkInv, Mk!TypeOK
    <2>2. CASE \E r \in Requests : Onboarding(request[r], u)
      <3>1. \E r \in Mk!Open({"onboard", "created"}) : request[r].user = u
        BY <2>2 DEF Mk!Open, Onboarding
      <3>2. doubled' = doubled \cup {u}
        BY <3>1 DEF Mk!LoadForOnboard
      <3> QED BY <1>2, <2>1, <3>2
    <2>3. CASE ~\E r \in Requests : Onboarding(request[r], u)
      <3>1. ~\E r \in Mk!Open({"onboard", "created"}) : request[r].user = u
        BY <2>3 DEF Mk!Open, Onboarding
      <3>2. doubled' = doubled
        BY <3>1 DEF Mk!LoadForOnboard
      <3> QED BY <2>1, <2>3, <3>2
    <2> QED BY <2>2, <2>3
  <1>9. AccountsOK'
    <2>1. ASSUME NEW v \in user' \ doubled' PROVE AccountOK(v)'
      <3>1. AccountOK(v)
        BY <1>2, <1>8 DEF MkInv, AccountsOK
      <3>2. CASE v # u
        <4>1. \A r \in Requests : Onboarding(request[r], v)' =>
                 r # q /\ Onboarding(request[r], v)
          BY <1>3, <1>5, <3>2 DEF Onboarding
        <4>2. \A r \in Requests : r # q => request'[r] = request[r]
          BY <1>5
        <4> QED BY <1>2, <3>1, <4>1, <4>2 DEF AccountOK
      <3>3. CASE v = u
        <4>1. \A r \in Requests : ~Onboarding(request[r], u)
          BY <1>8, <3>3
        <4>2. \A r \in Requests : Onboarding(request[r], u)' => r = q
          BY <1>5, <4>1 DEF Onboarding
        <4>3. \A n \in 1..Len(stripe) : stripe[n] # u
          <5>1. SUFFICES ASSUME NEW n \in 1..Len(stripe), stripe[n] = u PROVE FALSE
            OBVIOUS
          <5>2. payout[u] # n
            BY <1>2
          <5>3. PICK r \in Requests : request[r].pc = "created" /\ request[r].account = n
            BY <3>1, <3>3, <5>1, <5>2 DEF AccountOK
          <5>4. request[r].user = u
            BY <5>1, <5>3 DEF MkInv, CallsOK, CallOK
          <5> QED BY <4>1, <5>3, <5>4 DEF Onboarding
        <4> QED BY <1>2, <3>3, <4>2, <4>3 DEF AccountOK
      <3> QED BY <3>2, <3>3
    <2> QED BY <2>1 DEF AccountsOK
  <1>10. Mk!TypeOK'
    BY <1>2, <1>4, <1>8 DEF MkInv, Mk!TypeOK
  <1> QED BY <1>4, <1>6, <1>7, <1>9, <1>10 DEF MkInv

LEMMA CreateAccountStep ==
  ASSUME Mk!ConstantsAssumption, MkInv, NEW q \in Requests, Mk!CreateAccount(q)
  PROVE  MkInv'
  <1>1. /\ request[q] \in Mk!Request /\ request[q].pc = "onboard" /\ CallOK(request[q])
        /\ request \in [Requests -> Mk!Request] /\ stripe \in Seq(Users)
    BY DEF MkInv, Mk!TypeOK, CallsOK, Mk!CreateAccount, Mk!At
  <1>2. PICK u \in Users : u = request[q].user
    BY <1>1 DEF CallOK
  <1>3. PICK n \in Nat : n = Len(stripe) + 1
    BY <1>1
  <1>4. PICK s : s = [request[q] EXCEPT !.pc = "created", !.account = n]
    OBVIOUS
  <1>5. /\ Len(stripe) < MaxAccounts /\ stripe' = Append(stripe, u)
        /\ UNCHANGED <<user, status, author, reviews, rating, payout,
                       mingled, departed, contested, doubled>>
    BY <1>2 DEF Mk!CreateAccount, Mk!template, Mk!ghostVars
  <1>6. request' = [request EXCEPT ![q] = s]
    <2>1. request' = [request EXCEPT ![q].pc = "created", ![q].account = n]
      BY <1>3 DEF Mk!CreateAccount
    <2> QED BY <1>1, <1>4, <2>1
  <1>7. /\ stripe' \in Seq(Users) /\ Len(stripe') = n /\ n >= 1 /\ stripe'[n] = u
        /\ \A m \in 1..Len(stripe) : m \in 1..n /\ m < n /\ stripe'[m] = stripe[m]
        /\ \A m \in 1..n : m = n \/ m \in 1..Len(stripe)
    BY <1>1, <1>3, <1>5
  <1>8. n \in 0..MaxAccounts
    BY <1>1, <1>3, <1>5, MkBounds
  <1>9. s \in Mk!Request /\ s.pc = "created" /\ s.user = u /\ s.account = n
    BY <1>1, <1>2, <1>4, <1>8 DEF Mk!Request
  <1>10. \A r \in Requests : request'[r] = IF r = q THEN s ELSE request[r]
    BY <1>1, <1>6
  <1>11. CallsOK'
    <2>1. ASSUME NEW r \in Requests PROVE CallOK(request[r])'
      <3>1. CASE r = q
        BY <1>7, <1>9, <1>10, <3>1 DEF CallOK, IsReviewing
      <3>2. CASE r # q
        <4>1. CallOK(request[r]) /\ request'[r] = request[r]
          BY <1>10, <3>2 DEF MkInv, CallsOK
        <4> QED BY <1>5, <1>7, <4>1 DEF CallOK, IsReviewing
      <3> QED BY <3>1, <3>2
    <2> QED BY <2>1 DEF CallsOK
  <1>12. AlonesOK' /\ RatingsOK'
    BY <1>5, <1>6, <1>9, RatingsStay DEF IsReviewing
  <1>13. DecisionsOK'
    BY <1>5, <1>9, <1>10, DecisionsStay
  <1>14. AccountsOK'
    <2>1. ASSUME NEW v \in user' \ doubled' PROVE AccountOK(v)'
      <3>1. AccountOK(v)
        BY <1>5 DEF MkInv, AccountsOK
      <3>2. \A r \in Requests : Onboarding(request[r], v)' => Onboarding(request[r], v)
        BY <1>1, <1>2, <1>9, <1>10 DEF Onboarding
      <3>3. ASSUME NEW r \in Requests, NEW m \in 1..n, Onboarding(request[r], v)',
                   stripe'[m] = v
            PROVE  request'[r].pc = "created" /\ request'[r].account = m
        <4>1. CASE m = n
          <5>1. v = u /\ Onboarding(request[q], v)
            BY <1>1, <1>2, <1>7, <3>3, <4>1 DEF Onboarding
          <5>2. r = q
            BY <3>1, <3>2, <3>3, <5>1 DEF AccountOK
          <5> QED BY <1>9, <1>10, <4>1, <5>2
        <4>2. CASE m # n
          <5>1. m \in 1..Len(stripe) /\ stripe[m] = v
            BY <1>7, <3>3, <4>2
          <5>2. request[r].pc = "created" /\ request[r].account = m
            BY <3>1, <3>2, <3>3, <5>1 DEF AccountOK
          <5> QED BY <1>1, <1>10, <5>2
        <4> QED BY <4>1, <4>2
      <3>4. ASSUME NEW m \in 1..n, stripe'[m] = v
            PROVE  payout[v] = m \/ \E r \in Requests : request'[r].pc = "created"
                                                        /\ request'[r].account = m
        <4>1. CASE m = n
          BY <1>9, <1>10, <4>1
        <4>2. CASE m # n
          <5>1. m \in 1..Len(stripe) /\ stripe[m] = v
            BY <1>7, <3>4, <4>2
          <5>2. payout[v] = m \/ \E r \in Requests : request[r].pc = "created"
                                                     /\ request[r].account = m
            BY <3>1, <5>1 DEF AccountOK
          <5> QED BY <1>1, <1>10, <5>2
        <4> QED BY <4>1, <4>2
      <3>5. \A x, y \in Requests :
               Onboarding(request[x], v)' /\ Onboarding(request[y], v)' => x = y
        BY <3>1, <3>2 DEF AccountOK
      <3> QED BY <1>5, <1>7, <3>3, <3>4, <3>5 DEF AccountOK
    <2> QED BY <2>1 DEF AccountsOK
  <1>15. request' \in [Requests -> Mk!Request]
    BY <1>1, <1>6, <1>9
  <1>16. payout' \in [Users -> 0..Len(stripe')]
    <2>1. 0..Len(stripe) \subseteq 0..n /\ payout \in [Users -> 0..Len(stripe)]
      BY <1>1, <1>3 DEF MkInv, Mk!TypeOK
    <2> QED BY <1>5, <1>7, <2>1
  <1>17. Mk!TypeOK'
    BY <1>5, <1>7, <1>15, <1>16 DEF MkInv, Mk!TypeOK
  <1> QED BY <1>11, <1>12, <1>13, <1>14, <1>17 DEF MkInv

LEMMA CommitAccountStep ==
  ASSUME Mk!ConstantsAssumption, MkInv, NEW q \in Requests, Mk!CommitAccount(q)
  PROVE  MkInv'
  <1>1. PICK s : s = Mk!Idle
    OBVIOUS
  <1>2. PICK u, n : u = request[q].user /\ n = request[q].account
    OBVIOUS
  <1>3. /\ request' = [request EXCEPT ![q] = s] /\ request[q].pc = "created"
        /\ payout' = IF u \in user THEN [payout EXCEPT ![u] = n] ELSE payout
        /\ UNCHANGED <<user, status, author, reviews, rating, stripe,
                       mingled, departed, contested, doubled>>
    BY <1>1, <1>2 DEF Mk!CommitAccount, Mk!Finish, Mk!template, Mk!ghostVars, Mk!At
  <1>4. /\ CallOK(request[q]) /\ request \in [Requests -> Mk!Request]
        /\ payout \in [Users -> 0..Len(stripe)] /\ stripe \in Seq(Users)
        /\ user \subseteq Users
    BY DEF MkInv, CallsOK, Mk!TypeOK
  <1>5. u \in Users /\ n \in 1..Len(stripe) /\ stripe[n] = u
    BY <1>2, <1>3, <1>4 DEF CallOK
  <1>6. s \in Mk!Request /\ s.pc = "idle"
    BY <1>1, MkIdleOK
  <1>7. request' \in [Requests -> Mk!Request] /\ CallsOK'
    <2>1. CallOK(s)'
      BY <1>6 DEF CallOK, IsReviewing
    <2> QED BY <1>3, <1>6, <2>1, CallsStay
  <1>8. \A r \in Requests : request'[r] = IF r = q THEN s ELSE request[r]
    BY <1>3, <1>4
  <1>9. AlonesOK' /\ RatingsOK'
    BY <1>3, <1>6, RatingsStay DEF IsReviewing
  <1>10. DecisionsOK'
    BY <1>3, <1>6, <1>8, DecisionsStay
  <1>11. AccountsOK'
    <2>1. ASSUME NEW v \in user' \ doubled' PROVE AccountOK(v)'
      <3>1. AccountOK(v)
        BY <1>3 DEF MkInv, AccountsOK
      <3>2. \A r \in Requests : Onboarding(request[r], v)' =>
               r # q /\ Onboarding(request[r], v) /\ request'[r] = request[r]
        BY <1>6, <1>8 DEF Onboarding
      <3>3. ASSUME NEW m \in 1..Len(stripe), stripe[m] = v
            PROVE  payout'[v] = m \/ \E r \in Requests : request'[r].pc = "created"
                                                         /\ request'[r].account = m
        <4>1. CASE v = u
          <5>1. Onboarding(request[q], v)
            BY <1>2, <1>3, <4>1 DEF Onboarding
          <5>2. n = m
            BY <1>2, <3>1, <3>3, <5>1 DEF AccountOK
          <5>3. payout'[v] = n
            BY <1>3, <1>4, <1>5, <4>1
          <5> QED BY <5>2, <5>3
        <4>2. CASE v # u
          <5>1. payout'[v] = payout[v]
            BY <1>3, <1>4, <4>2
          <5>2. CASE payout[v] = m
            BY <5>1, <5>2
          <5>3. CASE payout[v] # m
            <6>1. PICK r \in Requests : request[r].pc = "created" /\ request[r].account = m
              BY <3>1, <3>3, <5>3 DEF AccountOK
            <6>2. r # q
              BY <1>2, <1>5, <3>3, <4>2, <6>1
            <6> QED BY <1>8, <6>1, <6>2
          <5> QED BY <5>2, <5>3
        <4> QED BY <4>1, <4>2
      <3> QED BY <1>3, <3>1, <3>2, <3>3 DEF AccountOK
    <2> QED BY <2>1 DEF AccountsOK
  <1>12. payout' \in [Users -> 0..Len(stripe)]
    BY <1>3, <1>4, <1>5
  <1>13. Mk!TypeOK'
    BY <1>3, <1>7, <1>12 DEF MkInv, Mk!TypeOK
  <1> QED BY <1>7, <1>9, <1>10, <1>11, <1>13 DEF MkInv

LEMMA OnboardFailsStep ==
  ASSUME Mk!ConstantsAssumption, MkInv, NEW q \in Requests, Mk!OnboardFails(q)
  PROVE  MkInv'
  <1>1. PICK s : s = Mk!Idle
    OBVIOUS
  <1>2. PICK u : u = request[q].user
    OBVIOUS
  <1>3. /\ request' = [request EXCEPT ![q] = s] /\ request[q].pc \in {"onboard", "created"}
        /\ doubled' = IF request[q].pc = "created" THEN doubled \cup {u} ELSE doubled
        /\ UNCHANGED <<user, status, author, reviews, rating, stripe, payout,
                       mingled, departed, contested>>
    BY <1>1, <1>2 DEF Mk!OnboardFails, Mk!Finish, Mk!template, Mk!accounts, Mk!At
  <1>4. CallOK(request[q]) /\ request \in [Requests -> Mk!Request] /\ doubled \subseteq Users
    BY DEF MkInv, CallsOK, Mk!TypeOK
  <1>5. /\ u \in Users
        /\ request[q].pc = "created" => stripe[request[q].account] = u
    BY <1>2, <1>3, <1>4 DEF CallOK
  <1>6. s \in Mk!Request /\ s.pc = "idle"
    BY <1>1, MkIdleOK
  <1>7. request' \in [Requests -> Mk!Request] /\ CallsOK'
    <2>1. CallOK(s)'
      BY <1>6 DEF CallOK, IsReviewing
    <2> QED BY <1>3, <1>6, <2>1, CallsStay
  <1>8. \A r \in Requests : request'[r] = IF r = q THEN s ELSE request[r]
    BY <1>3, <1>4
  <1>9. AlonesOK' /\ RatingsOK'
    BY <1>3, <1>6, RatingsStay DEF IsReviewing
  <1>10. DecisionsOK'
    BY <1>3, <1>6, <1>8, DecisionsStay
  <1>11. doubled \subseteq doubled' /\ doubled' \subseteq Users
    BY <1>3, <1>4, <1>5
  <1>12. AccountsOK'
    <2>1. ASSUME NEW v \in user' \ doubled' PROVE AccountOK(v)'
      <3>1. AccountOK(v)
        BY <1>3, <1>11 DEF MkInv, AccountsOK
      <3>2. \A r \in Requests : Onboarding(request[r], v)' =>
               r # q /\ Onboarding(request[r], v) /\ request'[r] = request[r]
        BY <1>6, <1>8 DEF Onboarding
      <3>3. ASSUME NEW m \in 1..Len(stripe), stripe[m] = v, payout[v] # m
            PROVE  \E r \in Requests : request'[r].pc = "created" /\ request'[r].account = m
        <4>1. PICK r \in Requests : request[r].pc = "created" /\ request[r].account = m
          BY <3>1, <3>3 DEF AccountOK
        <4>2. r # q
          BY <1>3, <1>5, <3>3, <4>1
        <4> QED BY <1>8, <4>1, <4>2
      <3> QED BY <1>3, <3>1, <3>2, <3>3 DEF AccountOK
    <2> QED BY <2>1 DEF AccountsOK
  <1>13. Mk!TypeOK'
    BY <1>3, <1>7, <1>11 DEF MkInv, Mk!TypeOK
  <1> QED BY <1>7, <1>9, <1>10, <1>12, <1>13 DEF MkInv

LEMMA DeleteUserStep ==
  ASSUME Mk!ConstantsAssumption, MkInv, NEW u \in Users, Mk!DeleteUser(u)
  PROVE  MkInv'
  <1>1. /\ u \in user /\ ~Mk!Upserting(u) /\ user' = user \ {u}
        /\ author' = IF author = u THEN None ELSE author
        /\ reviews' = [reviews EXCEPT ![u] = None]
        /\ payout' = [payout EXCEPT ![u] = 0]
        /\ request' = Mk!Disturb(request)
        /\ departed' = (departed \/ reviews[u] # None)
        /\ UNCHANGED <<status, rating, stripe, mingled, contested, doubled>>
    BY DEF Mk!DeleteUser
  <1>2. /\ request \in [Requests -> Mk!Request] /\ author \in user \cup {None}
        /\ reviews \in [Users -> Ratings \cup {None}]
        /\ payout \in [Users -> 0..Len(stripe)] /\ stripe \in Seq(Users)
        /\ \A x \in Users \ user : reviews[x] = None
    BY DEF MkInv, Mk!TypeOK
  <1>3. \A r \in Requests :
          /\ request'[r] \in Mk!Request /\ ~request'[r].alone
          /\ request'[r].pc = request[r].pc /\ request'[r].user = request[r].user
          /\ request'[r].rating = request[r].rating
          /\ request'[r].computed = request[r].computed
          /\ request'[r].account = request[r].account
          /\ request'[r].decision = request[r].decision
    <2>1. ASSUME NEW r \in Requests
          PROVE  request[r] \in Mk!Request /\ request'[r] = [request[r] EXCEPT !.alone = FALSE]
      BY <1>1, <1>2 DEF Mk!Disturb
    <2> QED BY <2>1, Disturbed
  <1>4. request' \in [Requests -> Mk!Request]
    BY <1>1, <1>2, <1>3 DEF Mk!Disturb
  <1>5. \A r \in Requests : request[r].pc \in {"upserted", "computed"} => request[r].user # u
    BY <1>1 DEF Mk!Upserting, Mk!Open
  <1>6. CallsOK'
    <2>1. ASSUME NEW r \in Requests PROVE CallOK(request[r])'
      <3>1. CallOK(request[r])
        BY DEF MkInv, CallsOK
      <3> QED BY <1>1, <1>3, <1>5, <3>1 DEF CallOK, IsReviewing
    <2> QED BY <2>1 DEF CallsOK
  <1>7. AlonesOK'
    BY <1>3 DEF AlonesOK, AloneOK
  <1>8. RatingsOK'
    <2>1. RatingsOK
      BY DEF MkInv
    <2>2. PICK now : now = reviews'
      OBVIOUS
    <2>3. Givers(now) = Givers(reviews) \ {u}
      BY <1>1, <1>2, <2>2 DEF Givers
    <2>4. IsFiniteSet(Givers(reviews'))
      BY <2>1, <2>2, <2>3, FS_RemoveElement DEF RatingsOK
    <2>5. ASSUME ~departed' PROVE reviews' = reviews /\ ~departed
      BY <1>1, <1>2, <2>5
    <2>6. ASSUME ~departed', NEW r \in Requests, request'[r].pc = "computed"
          PROVE  request'[r].computed.count <= Cardinality(Givers(With(request[r])'))
      <3>1. request[r].pc = "computed" /\ request'[r].computed = request[r].computed
        BY <1>3, <2>6
      <3>2. With(request[r])' = With(request[r])
        BY <1>3, <2>5, <2>6 DEF With
      <3> QED BY <2>1, <2>5, <2>6, <3>1, <3>2 DEF RatingsOK
    <2>7. \A r \in Requests : Givers(With(request[r]))' = Givers(With(request[r])')
      BY DEF Givers
    <2>8. Givers(reviews)' = Givers(reviews')
      BY DEF Givers
    <2>9. ~departed' => rating'.count <= Cardinality(Givers(reviews'))
      BY <1>1, <2>1, <2>5 DEF RatingsOK
    <2>10. ~departed' /\ ~mingled' => rating' = Mk!RatingOf(reviews')
      BY <1>1, <2>1, <2>5 DEF RatingsOK
    <2> QED BY <2>4, <2>6, <2>7, <2>8, <2>9, <2>10 DEF RatingsOK
  <1>9. DecisionsOK'
    BY <1>1, <1>3, DecisionsStay
  <1>10. AccountsOK'
    <2>1. ASSUME NEW v \in user' \ doubled' PROVE AccountOK(v)'
      <3>1. AccountOK(v) /\ v # u /\ payout'[v] = payout[v]
        BY <1>1, <1>2 DEF MkInv, AccountsOK, Mk!TypeOK
      <3>2. \A r \in Requests : Onboarding(request[r], v)' <=> Onboarding(request[r], v)
        BY <1>3 DEF Onboarding
      <3>3. \A x, y \in Requests :
               Onboarding(request[x], v)' /\ Onboarding(request[y], v)' => x = y
        BY <3>1, <3>2 DEF AccountOK
      <3>4. \A r \in Requests, n \in 1..Len(stripe) :
               Onboarding(request[r], v)' /\ stripe[n] = v =>
                 request'[r].pc = "created" /\ request'[r].account = n
        BY <1>3, <3>1, <3>2 DEF AccountOK
      <3>5. \A n \in 1..Len(stripe) : stripe[n] = v =>
               payout'[v] = n \/ \E r \in Requests : request'[r].pc = "created"
                                                     /\ request'[r].account = n
        BY <1>3, <3>1 DEF AccountOK
      <3> QED BY <1>1, <3>3, <3>4, <3>5 DEF AccountOK
    <2> QED BY <2>1 DEF AccountsOK
  <1>11. /\ author' \in user' \cup {None}
         /\ reviews' \in [Users -> Ratings \cup {None}]
         /\ \A x \in Users \ user' : reviews'[x] = None
    BY <1>1, <1>2
  <1>12. payout' \in [Users -> 0..Len(stripe)]
    <2>1. 0 \in 0..Len(stripe)
      BY <1>2
    <2> QED BY <1>1, <1>2, <2>1
  <1>13. departed' \in BOOLEAN /\ user' \subseteq Users
    BY <1>1 DEF MkInv, Mk!TypeOK
  <1>14. Mk!TypeOK'
    BY <1>1, <1>4, <1>11, <1>12, <1>13 DEF MkInv, Mk!TypeOK
  <1> QED BY <1>6, <1>7, <1>8, <1>9, <1>10, <1>14 DEF MkInv

LEMMA MkStart ==
  ASSUME Mk!ConstantsAssumption, Mk!Init
  PROVE  MkInv
  <1>1. /\ user = Users /\ status = "none" /\ author = None
        /\ reviews = [u \in Users |-> None] /\ rating = Mk!NoRating
        /\ request = [q \in Requests |-> Mk!Idle] /\ stripe = <<>>
        /\ payout = [u \in Users |-> 0] /\ doubled = {}
        /\ mingled = FALSE /\ departed = FALSE /\ contested = FALSE
    BY DEF Mk!Init
  <1>2. \A q \in Requests : request[q] \in Mk!Request /\ request[q].pc = "idle"
    BY <1>1, MkIdleOK
  <1>3. Len(stripe) = 0 /\ stripe \in Seq(Users)
    BY <1>1
  <1>4. Mk!TypeOK
    <2>1. request \in [Requests -> Mk!Request]
      BY <1>1, MkIdleOK
    <2>2. payout \in [Users -> 0..Len(stripe)]
      BY <1>1, <1>3
    <2>3. rating \in Mk!Rating
      BY <1>1, MkIdleOK
    <2> QED BY <1>1, <1>3, <2>1, <2>2, <2>3 DEF Mk!TypeOK
  <1>5. CallsOK /\ AlonesOK
    BY <1>2 DEF CallsOK, CallOK, AlonesOK, AloneOK, IsReviewing
  <1>6. RatingsOK
    <2>1. Givers(reviews) = {}
      BY <1>1 DEF Givers
    <2>2. IsFiniteSet(Givers(reviews)) /\ Cardinality(Givers(reviews)) = 0
      BY <2>1, FS_EmptySet
    <2>3. Mk!RatingOf(reviews) = Mk!NoRating
      BY <2>1, <2>2, SameCardinality DEF Mk!RatingOf, Givers
    <2>4. rating.count = 0
      BY <1>1 DEF Mk!NoRating
    <2> QED BY <1>1, <1>2, <2>2, <2>3, <2>4 DEF RatingsOK
  <1>7. DecisionsOK
    BY <1>2 DEF DecisionsOK
  <1>8. AccountsOK
    BY <1>2, <1>3 DEF AccountsOK, AccountOK, Onboarding
  <1> QED BY <1>4, <1>5, <1>6, <1>7, <1>8 DEF MkInv

LEMMA MkStep ==
  ASSUME Mk!ConstantsAssumption, MkInv, [Mk!Next]_Mk!vars
  PROVE  MkInv'
  <1>1. CASE UNCHANGED Mk!vars
    <2>1. UNCHANGED <<user, status, author, reviews, rating, request, stripe, payout,
                      mingled, departed, contested, doubled>>
      BY <1>1 DEF Mk!vars
    <2>2. Mk!TypeOK' /\ CallsOK' /\ AlonesOK'
      BY <2>1 DEF MkInv, Mk!TypeOK, CallsOK, CallOK, AlonesOK, AloneOK, IsReviewing, With
    <2>3. RatingsOK' /\ DecisionsOK'
      BY <2>1 DEF MkInv, RatingsOK, DecisionsOK, Givers, With
    <2>4. AccountsOK'
      BY <2>1 DEF MkInv, AccountsOK, AccountOK, Onboarding
    <2> QED BY <2>2, <2>3, <2>4 DEF MkInv
  <1>2. ASSUME NEW q \in Requests, NEW u \in Authors,
               Mk!LoadForSubmit(q, u) \/ Mk!LoadForOnboard(q, u)
        PROVE  MkInv'
    BY <1>2, LoadForSubmitStep, LoadForOnboardStep
  <1>3. ASSUME NEW q \in Requests, NEW u \in Users, NEW g \in Ratings,
               Mk!LoadForReview(q, u, g)
        PROVE  MkInv'
    BY <1>3, LoadForReviewStep
  <1>4. ASSUME NEW q \in Requests, NEW d \in {"approved", "rejected"},
               Mk!LoadForDecision(q, d)
        PROVE  MkInv'
    BY <1>4, LoadForDecisionStep
  <1>5. ASSUME NEW q \in Requests, Mk!RequestStep(q) PROVE MkInv'
    <2>1. CASE Mk!CommitSubmit(q) \/ Mk!CommitDecision(q)
      BY <2>1, CommitSubmitStep, CommitDecisionStep
    <2>2. CASE Mk!Upsert(q) \/ Mk!Compute(q) \/ Mk!CommitReview(q)
      BY <2>2, UpsertStep, ComputeStep, CommitReviewStep
    <2>3. CASE Mk!CreateAccount(q) \/ Mk!CommitAccount(q) \/ Mk!OnboardFails(q)
      BY <2>3, CreateAccountStep, CommitAccountStep, OnboardFailsStep
    <2> QED BY <1>5, <2>1, <2>2, <2>3 DEF Mk!RequestStep
  <1>6. ASSUME NEW u \in Users, Mk!DeleteUser(u) PROVE MkInv'
    BY <1>6, DeleteUserStep
  <1> QED BY <1>1, <1>2, <1>3, <1>4, <1>5, <1>6 DEF Mk!Next

LEMMA MkInvariant ==
  ASSUME Mk!ConstantsAssumption
  PROVE  Mk!Spec => []MkInv
  <1>1. Mk!Init => MkInv
    BY MkStart
  <1>2. MkInv /\ [Mk!Next]_Mk!vars => MkInv'
    BY MkStep
  <1> QED BY <1>1, <1>2, PTL DEF Mk!Spec

-----------------------------------------------------------------------------
(* The marketplace keeps its promises                                      *)

\* Every variable of the marketplace keeps its type; averages are natural numbers.
THEOREM MarketTyped ==
  ASSUME Mk!ConstantsAssumption
  PROVE  Mk!Spec => []Mk!TypeOK
  <1>1. MkInv => Mk!TypeOK
    BY DEF MkInv
  <1> QED BY <1>1, MkInvariant, PTL

\* The stored rating is that of the stored reviews but for overlaps and departures, and
\* even then never counts a review that is not there, until an account leaves.
THEOREM RatingKept ==
  ASSUME Mk!ConstantsAssumption
  PROVE  Mk!Spec => []Mk!RatingIsRight
  <1>1. MkInv => Mk!RatingIsRight
    <2>1. SUFFICES ASSUME MkInv PROVE Mk!RatingIsRight
      OBVIOUS
    <2>2. RatingsOK /\ reviews \in [Users -> Ratings \cup {None}]
      BY <2>1 DEF MkInv, Mk!TypeOK
    <2>3. Mk!RatingOf(reviews).count = Cardinality(Givers(reviews))
      BY <2>2, RatingIsOne DEF RatingsOK
    <2> QED BY <2>2, <2>3 DEF RatingsOK, Mk!RatingIsRight
  <1> QED BY <1>1, MkInvariant, PTL

\* A user whose onboardings neither overlap nor die has one account at Stripe at most,
\* and it is the one stored.
THEOREM OneAccount ==
  ASSUME Mk!ConstantsAssumption
  PROVE  Mk!Spec => []Mk!OneAccountPerAuthor
  <1>1. MkInv => Mk!OneAccountPerAuthor
    BY DEF MkInv, AccountsOK, AccountOK, Mk!OneAccountPerAuthor, Mk!At
  <1> QED BY <1>1, MkInvariant, PTL

LEMMA DecisionStep ==
  ASSUME Mk!ConstantsAssumption, MkInv, [Mk!Next]_Mk!vars,
         ~contested, status \in {"approved", "rejected"}
  PROVE  status' = status
  <1>1. CASE UNCHANGED Mk!vars
    BY <1>1 DEF Mk!vars
  <1>2. CASE \E q \in Requests :
               \/ \E u \in Authors : Mk!LoadForSubmit(q, u) \/ Mk!LoadForOnboard(q, u)
               \/ \E u \in Users, r \in Ratings : Mk!LoadForReview(q, u, r)
               \/ \E d \in {"approved", "rejected"} : Mk!LoadForDecision(q, d)
    BY <1>2 DEF Mk!LoadForSubmit, Mk!LoadForOnboard, Mk!LoadForReview, Mk!LoadForDecision,
                Mk!template
  <1>3. ASSUME NEW q \in Requests, Mk!RequestStep(q) PROVE status' = status
    <2>1. CASE Mk!CommitSubmit(q)
      BY <2>1 DEF Mk!CommitSubmit
    <2>2. CASE Mk!CommitDecision(q)
      BY <2>2 DEF Mk!CommitDecision, Mk!At, MkInv, DecisionsOK
    <2>3. CASE Mk!Upsert(q) \/ Mk!Compute(q) \/ Mk!CommitReview(q)
      BY <2>3 DEF Mk!Upsert, Mk!Compute, Mk!CommitReview, Mk!template
    <2>4. CASE Mk!CreateAccount(q) \/ Mk!CommitAccount(q) \/ Mk!OnboardFails(q)
      BY <2>4 DEF Mk!CreateAccount, Mk!CommitAccount, Mk!OnboardFails, Mk!template
    <2> QED BY <1>3, <2>1, <2>2, <2>3, <2>4 DEF Mk!RequestStep
  <1>4. CASE \E u \in Users : Mk!DeleteUser(u)
    BY <1>4 DEF Mk!DeleteUser
  <1> QED BY <1>1, <1>2, <1>3, <1>4 DEF Mk!Next

\* A decision stands, unless two moderators have read the template pending together.
THEOREM DecisionStands ==
  ASSUME Mk!ConstantsAssumption
  PROVE  Mk!Spec => Mk!DecisionIsFinal
  <1>1. MkInv /\ [Mk!Next]_Mk!vars =>
          [~contested /\ status \in {"approved", "rejected"} => status' = status]_Mk!vars
    BY DecisionStep
  <1> QED BY <1>1, MkInvariant, PTL DEF Mk!Spec, Mk!DecisionIsFinal
=============================================================================
