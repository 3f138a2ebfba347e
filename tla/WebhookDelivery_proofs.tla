----------------------- MODULE WebhookDelivery_proofs -----------------------
(***************************************************************************)
(* Proofs about WebhookDelivery, for any number of endpoints, events,       *)
(* workers, retries, deaths and failures.                                   *)
(***************************************************************************)
EXTENDS WebhookDelivery, FiniteSetTheorems, TLAPS

-----------------------------------------------------------------------------
(* The inductive invariant                                                 *)

Busy(w) == worker[w].pc \notin {"idle", "settled"}
HasRow(w) == worker[w].pc \in {"posting", "answered"}

\* Nothing is known of an endpoint that was never created.
KnownOK ==
    /\ \A v \in Events : \A e \in emitting[v] :
         v \in emitted /\ <<e, v>> \in Subscribed /\ endpoint[e] # "new"
    /\ \A d \in Deliveries : endpoint[d[1]] = "new" =>
         /\ d \notin accepted
         /\ attempts[d] = 0
         /\ \A n \in Retries : queue[<<d, n>>] = 0
         /\ \A w \in Workers : worker[w].d # d

\* The id of an uncommitted row is its own.
RowsOK ==
    \A w \in Workers :
        /\ worker[w].pc = "answered" => worker[w].answer \in Answers
        /\ HasRow(w) =>
             /\ worker[w].id \in 1..attempts[worker[w].d]
             /\ \A r \in log[worker[w].d] : r.id # worker[w].id
             /\ \A u \in Workers \ {w} :
                  HasRow(u) /\ worker[u].d = worker[w].d => worker[u].id # worker[w].id

\* Every retry has an attempt on record.
BudgetOK ==
    \A d \in Deliveries :
        /\ IsFiniteSet(log[d])
        /\ d \notin struck /\ Live(d[1]) =>
             /\ \A n \in Retries : queue[<<d, n>>] > 0 => n <= Cardinality(log[d])
             /\ \A w \in Workers : worker[w].d = d =>
                  /\ Busy(w) => worker[w].n <= Cardinality(log[d])
                  /\ At(w, "recorded") => worker[w].n < Cardinality(log[d])

\* A delivery has one task: a message or a worker.  It has none before its event
\* enqueued it.
Single(d) ==
    /\ \A n \in Retries : queue[<<d, n>>] > 0 =>
         /\ queue[<<d, n>>] = 1
         /\ \A m \in Retries \ {n} : queue[<<d, m>>] = 0
         /\ \A w \in Workers : Busy(w) => worker[w].d # d
    /\ \A w \in Workers : Busy(w) /\ worker[w].d = d =>
         /\ \A u \in Workers \ {w} : Busy(u) => worker[u].d # d
         /\ HasRow(w) => worker[w].id = attempts[d]
    /\ (d[2] \notin emitted \/ d[1] \in emitting[d[2]]) =>
         /\ attempts[d] = 0
         /\ \A n \in Retries : queue[<<d, n>>] = 0
         /\ \A w \in Workers : Busy(w) => worker[w].d # d
SingleOK == \A d \in Deliveries \ (manual \cup struck) : Single(d)

\* Posts made in this minute and still to come are covered by what the throttle
\* admitted, by the workers it admitted earlier, and by its failures.
InFlight(e) == {w \in Workers : /\ worker[w].pc \in {"admitted", "posting"}
                                /\ worker[w].d[1] = e}
Quota(e) == IF admitted[e] <= MinuteLimit THEN admitted[e] ELSE MinuteLimit
PaceOK ==
    \A e \in Endpoints :
        sent[e] + Cardinality(InFlight(e)) <= Quota(e) + Cardinality(Workers) + faults

\* TypeOK first: the other conjuncts rely on it.
DeliveryInv ==
    /\ TypeOK /\ KnownOK /\ RowsOK /\ BudgetOK /\ SingleOK /\ PaceOK
    /\ NoSilentLoss /\ ReceiptsAreLogged /\ AnsweredIsOver

-----------------------------------------------------------------------------
(* Facts about the data                                                    *)

LEMMA DeliveryParts ==
  /\ \A d \in Deliveries : /\ d[1] \in Endpoints /\ d[2] \in Events
                           /\ d = <<d[1], d[2]>>
                           /\ (d \in Subscribed \/ d[2] = Ping)
  /\ \A e \in Endpoints : <<e, Ping>> \in Deliveries
  /\ Subscribed \subseteq Deliveries
  /\ None \notin Deliveries
  /\ 0 \in Retries /\ Retries \subseteq Nat
  BY ConstantsAssumption DEF Deliveries, Retries

LEMMA IdleOK ==
  Idle \in WorkerState /\ Idle.pc = "idle" /\ Idle.d = None
  BY ConstantsAssumption DEF Idle, WorkerState, WorkerPC, Retries

\* What a worker's step leaves alone.
LEMMA WorkerForm ==
  ASSUME TypeOK, NEW w \in Workers, NEW s \in WorkerState,
         s.pc = "idle" <=> s.d = None,
         worker' = [worker EXCEPT ![w] = s]
  PROVE  /\ worker' \in [Workers -> WorkerState]
         /\ worker'[w] = s
         /\ \A u \in Workers \ {w} : worker'[u] = worker[u]
         /\ \A u \in Workers : worker'[u].pc = "idle" <=> worker'[u].d = None
  BY DEF TypeOK, At

LEMMA GotoForm ==
  ASSUME TypeOK, NEW w \in Workers, ~At(w, "idle"), NEW pc \in WorkerPC \ {"idle"},
         Goto(w, pc)
  PROVE  /\ worker' \in [Workers -> WorkerState]
         /\ worker'[w].pc = pc /\ worker'[w].d = worker[w].d
         /\ worker'[w].n = worker[w].n /\ worker'[w].id = worker[w].id
         /\ worker'[w].answer = worker[w].answer
         /\ \A u \in Workers \ {w} : worker'[u] = worker[u]
         /\ \A u \in Workers : worker'[u].pc = "idle" <=> worker'[u].d = None
<1>1. worker[w] \in WorkerState
  BY DEF TypeOK
<1> DEFINE s == [worker[w] EXCEPT !.pc = pc]
<1>2. /\ s \in WorkerState /\ s.pc = pc /\ s.d = worker[w].d /\ s.n = worker[w].n
      /\ s.id = worker[w].id /\ s.answer = worker[w].answer
  BY <1>1 DEF WorkerState
<1>3. worker' = [worker EXCEPT ![w] = s]
  BY DEF Goto
<1>4. s.pc = "idle" <=> s.d = None
  BY <1>2 DEF TypeOK, At
<1> HIDE DEF s
<1> QED
  BY <1>2, <1>3, <1>4, WorkerForm

LEMMA PublishForm ==
  ASSUME TypeOK, NEW d \in Deliveries, NEW n \in Retries, Publish(d, n)
  PROVE  /\ queue' \in [Deliveries \X Retries -> Nat]
         /\ queue'[<<d, n>>] = queue[<<d, n>>] + 1
         /\ \A c \in Deliveries, m \in Retries :
              c # d \/ m # n => queue'[<<c, m>>] = queue[<<c, m>>]
  BY DEF TypeOK, Publish

LEMMA Bounds ==
  /\ MaxRetries \in Nat /\ MinuteLimit \in Nat /\ MaxMinutes \in Nat
  /\ MaxManual \in Nat /\ MaxCrashes \in Nat /\ MaxFaults \in Nat
  /\ IsFiniteSet(Workers) /\ Cardinality(Workers) \in Nat
  BY ConstantsAssumption, FS_CardinalityType

LEMMA InFlightFinite ==
  \A e : /\ IsFiniteSet(InFlight(e)) /\ Cardinality(InFlight(e)) \in Nat
         /\ Cardinality(InFlight(e)) <= Cardinality(Workers)
<1> SUFFICES ASSUME NEW e
             PROVE  /\ IsFiniteSet(InFlight(e)) /\ Cardinality(InFlight(e)) \in Nat
                    /\ Cardinality(InFlight(e)) <= Cardinality(Workers)
  OBVIOUS
<1>1. InFlight(e) \subseteq Workers
  BY DEF InFlight
<1> QED
  BY <1>1, Bounds, FS_Subset, FS_CardinalityType

\* A step that sends nothing, counts nothing and lets no worker through.
LEMMA PaceKept ==
  ASSUME TypeOK, TypeOK', PaceOK, UNCHANGED <<sent, admitted>>, faults' >= faults,
         \A w \in Workers : worker'[w].pc \in {"admitted", "posting"} =>
             worker[w].pc \in {"admitted", "posting"} /\ worker'[w].d = worker[w].d
  PROVE  PaceOK'
<1> SUFFICES ASSUME NEW e \in Endpoints
             PROVE  sent[e] + Cardinality(InFlight(e)')
                      <= Quota(e) + Cardinality(Workers) + faults'
  BY DEF PaceOK, Quota
<1>1. InFlight(e)' \subseteq InFlight(e)
  BY DEF InFlight
<1>2. Cardinality(InFlight(e)') <= Cardinality(InFlight(e)) /\ Cardinality(InFlight(e)') \in Nat
  BY <1>1, InFlightFinite, FS_Subset, FS_CardinalityType
<1>3. sent[e] + Cardinality(InFlight(e)) <= Quota(e) + Cardinality(Workers) + faults
  BY DEF PaceOK
<1>4. /\ sent[e] \in Nat /\ Quota(e) \in Nat /\ faults \in Int /\ faults' \in Int
      /\ Cardinality(InFlight(e)) \in Nat /\ Cardinality(Workers) \in Nat
  BY Bounds, InFlightFinite DEF TypeOK, Quota
<1> QED
  BY <1>2, <1>3, <1>4

LEMMA SameWork ==
  ASSUME UNCHANGED <<queue, worker>>
  PROVE  \A d : (Queued(d)' <=> Queued(d)) /\ (Working(d)' <=> Working(d))
  BY DEF Queued, Working, At

LEMMA AcceptedAreDeliveries ==
  ASSUME TypeOK
  PROVE  accepted \subseteq Deliveries
  BY DEF TypeOK

-----------------------------------------------------------------------------
(* Endpoints and the sources of events                                     *)

LEMMA CreateEndpointStep ==
  ASSUME DeliveryInv, NEW e \in Endpoints, CreateEndpoint(e)
  PROVE  DeliveryInv'
<1>0. /\ endpoint[e] = "new"
      /\ endpoint' = [endpoint EXCEPT ![e] = "live"]
      /\ UNCHANGED <<emitting, emitted, queue, worker, attempts, log, seen, minute,
                     admitted, sent, accepted, throttled, manual, crashes, faults, struck>>
  BY DEF CreateEndpoint, rowVars, clockVars, faultVars
<1>1. /\ TypeOK /\ endpoint' \in [Endpoints -> {"new", "live", "gone"}]
      /\ endpoint'[e] = "live" /\ \A f \in Endpoints \ {e} : endpoint'[f] = endpoint[f]
  BY <1>0 DEF DeliveryInv, TypeOK
<1>2. TypeOK'
  BY <1>0, <1>1 DEF TypeOK, At
<1>3. KnownOK'
  BY <1>0, <1>1, DeliveryParts DEF DeliveryInv, KnownOK, TypeOK
<1>4. RowsOK' /\ SingleOK'
  BY <1>0 DEF DeliveryInv, RowsOK, SingleOK, Single, HasRow, Busy
<1>5. \A d \in Deliveries : d[1] = e =>
         /\ d \notin accepted
         /\ \A n \in Retries : queue[<<d, n>>] = 0
         /\ \A w \in Workers : worker[w].d # d
         /\ seen[d] = {}
  BY <1>0, <1>1 DEF DeliveryInv, KnownOK, TypeOK
<1>6. \A d \in Deliveries : Live(d[1])' => d[1] = e \/ Live(d[1])
  BY <1>0, <1>1, DeliveryParts DEF Live
<1>7. BudgetOK'
  BY <1>0, <1>5, <1>6 DEF DeliveryInv, BudgetOK, Busy, At
<1>8. NoSilentLoss' /\ ReceiptsAreLogged'
  <2>1. NoSilentLoss'
    BY <1>0, <1>1, <1>5, <1>6, SameWork, AcceptedAreDeliveries
    DEF DeliveryInv, NoSilentLoss, EndpointOf
  <2>2. ReceiptsAreLogged'
    BY <1>0, <1>5, <1>6 DEF DeliveryInv, ReceiptsAreLogged, At, EndpointOf
  <2> QED
    BY <2>1, <2>2
<1>9. AnsweredIsOver'
  BY <1>0, SameWork DEF DeliveryInv, AnsweredIsOver
<1>10. PaceOK'
  BY <1>0, <1>1, <1>2, PaceKept DEF DeliveryInv, TypeOK
<1> QED
  BY <1>2, <1>3, <1>4, <1>7, <1>8, <1>9, <1>10 DEF DeliveryInv

LEMMA DeleteEndpointStep ==
  ASSUME DeliveryInv, NEW e \in Endpoints, DeleteEndpoint(e)
  PROVE  DeliveryInv'
<1>0. /\ endpoint[e] = "live"
      /\ endpoint' = [endpoint EXCEPT ![e] = "gone"]
      /\ log' = [d \in Deliveries |-> IF d[1] = e THEN {} ELSE log[d]]
      /\ UNCHANGED <<emitting, emitted, queue, worker, attempts, seen, minute,
                     admitted, sent, accepted, throttled, manual, crashes, faults, struck>>
  BY DEF DeleteEndpoint, clockVars, faultVars, Live, EndpointOf
<1>1. /\ TypeOK /\ endpoint' \in [Endpoints -> {"new", "live", "gone"}]
      /\ endpoint'[e] = "gone" /\ \A f \in Endpoints \ {e} : endpoint'[f] = endpoint[f]
  BY <1>0 DEF DeliveryInv, TypeOK
<1>2. \A d \in Deliveries : /\ log'[d] \subseteq log[d]
                            /\ d[1] # e => log'[d] = log[d]
                            /\ log'[d] = {} \/ log'[d] = log[d]
  BY <1>0
<1>3. TypeOK'
  <2>1. \A d \in Deliveries : log'[d] \subseteq [id: 1..attempts'[d], answer: Answers]
    BY <1>0, <1>1, <1>2 DEF TypeOK
  <2> QED
    BY <1>0, <1>1, <2>1 DEF TypeOK, At
<1>4. KnownOK'
  BY <1>0, <1>1, DeliveryParts DEF DeliveryInv, KnownOK, TypeOK
<1>5. RowsOK'
  <2>1. \A w \in Workers : HasRow(w) => worker[w].d \in Deliveries
    BY <1>1 DEF TypeOK, WorkerState, HasRow, At
  <2> QED
    BY <1>0, <1>2, <2>1 DEF DeliveryInv, RowsOK, HasRow
<1>6. SingleOK'
  BY <1>0 DEF DeliveryInv, SingleOK, Single, HasRow, Busy
<1>7. \A d \in Deliveries : Live(d[1])' => d[1] # e /\ Live(d[1]) /\ log'[d] = log[d]
  BY <1>0, <1>1, <1>2, DeliveryParts DEF Live
<1>8. BudgetOK'
  <2>1. \A d \in Deliveries : IsFiniteSet(log'[d])
    BY <1>2, FS_EmptySet DEF DeliveryInv, BudgetOK
  <2> QED
    BY <1>0, <1>7, <2>1 DEF DeliveryInv, BudgetOK, Busy, At
<1>9. NoSilentLoss' /\ ReceiptsAreLogged'
  <2>1. NoSilentLoss'
    BY <1>0, <1>1, <1>7, SameWork, AcceptedAreDeliveries
    DEF DeliveryInv, NoSilentLoss, EndpointOf
  <2>2. ReceiptsAreLogged'
    BY <1>0, <1>7 DEF DeliveryInv, ReceiptsAreLogged, At, EndpointOf
  <2> QED
    BY <2>1, <2>2
<1>10. AnsweredIsOver'
  BY <1>0, <1>2, SameWork DEF DeliveryInv, AnsweredIsOver
<1>11. PaceOK'
  BY <1>0, <1>1, <1>3, PaceKept DEF DeliveryInv, TypeOK
<1> QED
  BY <1>3, <1>4, <1>5, <1>6, <1>8, <1>9, <1>10, <1>11 DEF DeliveryInv

LEMMA MatchStep ==
  ASSUME DeliveryInv, NEW v \in Events, Match(v)
  PROVE  DeliveryInv'
<1>0. /\ v \notin emitted /\ v # Ping
      /\ emitted' = emitted \cup {v}
      /\ emitting' = [emitting EXCEPT
                        ![v] = {e \in Endpoints : Live(e) /\ <<e, v>> \in Subscribed}]
      /\ UNCHANGED <<endpoint, queue, worker, attempts, log, seen, minute,
                     admitted, sent, accepted, throttled, manual, crashes, faults, struck>>
  BY DEF Match, rowVars, clockVars, faultVars
<1>1. /\ TypeOK /\ emitting' \in [Events -> SUBSET Endpoints]
      /\ \A e \in emitting'[v] : e \in Endpoints /\ Live(e) /\ <<e, v>> \in Subscribed
      /\ \A u \in Events \ {v} : emitting'[u] = emitting[u]
  BY <1>0 DEF DeliveryInv, TypeOK
<1>2. TypeOK'
  BY <1>0, <1>1 DEF TypeOK, At
<1>3. KnownOK'
  BY <1>0, <1>1 DEF DeliveryInv, KnownOK, Live
<1>4. RowsOK' /\ BudgetOK'
  BY <1>0 DEF DeliveryInv, RowsOK, BudgetOK, HasRow, Busy, At, Live
<1>5. SingleOK'
  <2> SUFFICES ASSUME NEW d \in Deliveries \ (manual \cup struck) PROVE Single(d)'
    BY <1>0 DEF SingleOK
  <2>1. Single(d)
    BY DEF DeliveryInv, SingleOK
  <2>2. d[2] \in Events
    BY DeliveryParts
  <2>3. d[2] \notin emitted' \/ d[1] \in emitting'[d[2]]
          => d[2] \notin emitted \/ d[1] \in emitting[d[2]]
    BY <1>0, <1>1, <2>2
  <2> QED
    BY <1>0, <2>1, <2>3 DEF Single, HasRow, Busy
<1>6. NoSilentLoss' /\ ReceiptsAreLogged' /\ AnsweredIsOver'
  BY <1>0, SameWork DEF DeliveryInv, NoSilentLoss, ReceiptsAreLogged, AnsweredIsOver,
                        At, EndpointOf, Live
<1>7. PaceOK'
  BY <1>0, <1>1, <1>2, PaceKept DEF DeliveryInv, TypeOK
<1> QED
  BY <1>2, <1>3, <1>4, <1>5, <1>6, <1>7 DEF DeliveryInv

LEMMA EnqueueStep ==
  ASSUME DeliveryInv, NEW v \in Events, NEW e \in Endpoints, Enqueue(v, e)
  PROVE  DeliveryInv'
<1> DEFINE d0 == <<e, v>>
<1>0. /\ e \in emitting[v]
      /\ emitting' = [emitting EXCEPT ![v] = @ \ {e}]
      /\ Publish(d0, 0)
      /\ accepted' = accepted \cup {d0}
      /\ UNCHANGED <<endpoint, emitted, worker, attempts, log, seen, minute,
                     admitted, sent, throttled, manual, crashes, faults, struck>>
  BY DEF Enqueue, rowVars, clockVars, faultVars
<1>1. /\ TypeOK /\ emitting' \in [Events -> SUBSET Endpoints]
      /\ emitting'[v] = emitting[v] \ {e}
      /\ \A u \in Events \ {v} : emitting'[u] = emitting[u]
  BY <1>0 DEF DeliveryInv, TypeOK
<1>2. v \in emitted /\ d0 \in Subscribed /\ d0 \in Deliveries /\ endpoint[e] # "new"
  BY <1>0, DeliveryParts DEF DeliveryInv, KnownOK
<1>3. /\ d0[1] = e /\ d0[2] = v
      /\ queue' \in [Deliveries \X Retries -> Nat]
      /\ queue'[<<d0, 0>>] = queue[<<d0, 0>>] + 1
      /\ \A c \in Deliveries, m \in Retries :
              c # d0 \/ m # 0 => queue'[<<c, m>>] = queue[<<c, m>>]
  <2>1. d0[1] = e /\ d0[2] = v
    OBVIOUS
  <2>2. 0 \in Retries
    BY DeliveryParts
  <2> HIDE DEF d0
  <2>3. TypeOK /\ d0 \in Deliveries /\ Publish(d0, 0)
    BY <1>0, <1>1, <1>2
  <2> QED
    BY <2>1, <2>2, <2>3, PublishForm
<1>3a. queue[<<d0, 0>>] \in Nat /\ 0 \in Retries
  BY <1>1, <1>2, DeliveryParts DEF TypeOK
<1>3b. \A d \in Deliveries : d[1] = e /\ d[2] = v => d = d0
  BY DeliveryParts
<1> HIDE DEF d0
<1>4. TypeOK'
  BY <1>0, <1>1, <1>2, <1>3 DEF TypeOK, At
<1>5. KnownOK'
  <2>1. \A u \in Events : emitting'[u] \subseteq emitting[u]
    BY <1>1
  <2> QED
    BY <1>0, <1>2, <1>3, <2>1 DEF DeliveryInv, KnownOK
<1>6. RowsOK'
  BY <1>0 DEF DeliveryInv, RowsOK, HasRow
<1>7. BudgetOK'
  <2> SUFFICES ASSUME NEW d \in Deliveries, d \notin struck, Live(d[1])
               PROVE  \A n \in Retries : queue'[<<d, n>>] > 0 => n <= Cardinality(log[d])
    BY <1>0 DEF DeliveryInv, BudgetOK, Busy, At, Live
  <2>1. Cardinality(log[d]) \in Nat
    BY FS_CardinalityType DEF DeliveryInv, BudgetOK
  <2>2. \A n \in Retries : queue'[<<d, n>>] = queue[<<d, n>>] \/ n = 0
    BY <1>3
  <2> QED
    BY <2>1, <2>2 DEF DeliveryInv, BudgetOK
<1>8. SingleOK'
  <2> SUFFICES ASSUME NEW d \in Deliveries \ (manual \cup struck) PROVE Single(d)'
    BY <1>0 DEF SingleOK
  <2>1. Single(d)
    BY DEF DeliveryInv, SingleOK
  <2>2. CASE d = d0
    <3>1. /\ \A n \in Retries : queue[<<d, n>>] = 0
          /\ \A w \in Workers : Busy(w) => worker[w].d # d
      BY <1>0, <1>3, <2>1, <2>2 DEF Single
    <3>2. \A n \in Retries : queue'[<<d, n>>] = IF n = 0 THEN 1 ELSE 0
      BY <1>3, <1>3a, <2>2, <3>1
    <3>3. ~(d[2] \notin emitted' \/ d[1] \in emitting'[d[2]])
      BY <1>0, <1>1, <1>2, <1>3, <2>2
    <3> QED
      BY <1>0, <3>1, <3>2, <3>3 DEF Single, HasRow, Busy
  <2>3. CASE d # d0
    <3>1. \A n \in Retries : queue'[<<d, n>>] = queue[<<d, n>>]
      BY <1>3, <2>3
    <3>2. d[2] \notin emitted' \/ d[1] \in emitting'[d[2]]
            => d[2] \notin emitted \/ d[1] \in emitting[d[2]]
      BY <1>0, <1>1, DeliveryParts
    <3> QED
      BY <1>0, <2>1, <3>1, <3>2 DEF Single, HasRow, Busy
  <2> QED
    BY <2>2, <2>3
<1>9. NoSilentLoss'
  <2>1. \A d \in Deliveries : Working(d)' <=> Working(d)
    BY <1>0 DEF Working, At
  <2>2. \A d \in Deliveries : Queued(d) => Queued(d)'
    <3> SUFFICES ASSUME NEW d \in Deliveries, NEW n \in Retries, queue[<<d, n>>] > 0
                 PROVE  queue'[<<d, n>>] > 0
      BY DEF Queued
    <3> QED
      BY <1>3, <1>3a
  <2>3. Queued(d0)'
    BY <1>3, <1>3a DEF Queued
  <2> QED
    BY <1>0, <1>1, <2>1, <2>2, <2>3, AcceptedAreDeliveries
    DEF DeliveryInv, NoSilentLoss, EndpointOf, Live
<1>10. ReceiptsAreLogged'
  BY <1>0 DEF DeliveryInv, ReceiptsAreLogged, At, EndpointOf, Live
<1>11. AnsweredIsOver'
  <2> SUFFICES ASSUME NEW d \in Deliveries \ (manual \cup struck), NEW r \in log[d],
                      IsFinal(r)
               PROVE  ~Queued(d)' /\ ~Working(d)' /\ r.id = attempts[d]
    BY <1>0 DEF AnsweredIsOver
  <2>1. ~Queued(d) /\ ~Working(d) /\ r.id = attempts[d]
    BY DEF DeliveryInv, AnsweredIsOver
  <2>2. d # d0
    <3>1. d = d0 => attempts[d] = 0
      BY <1>0, <1>3 DEF DeliveryInv, SingleOK, Single
    <3>2. r.id \in 1..attempts[d] /\ attempts[d] \in Nat
      BY <1>1 DEF TypeOK
    <3> QED
      BY <2>1, <3>1, <3>2
  <2>3. \A n \in Retries : queue'[<<d, n>>] = queue[<<d, n>>]
    BY <1>3, <2>2
  <2> QED
    BY <1>0, <2>1, <2>3 DEF Queued, Working, At
<1>12. PaceOK'
  BY <1>0, <1>1, <1>4, PaceKept DEF DeliveryInv, TypeOK
<1> QED
  BY <1>4, <1>5, <1>6, <1>7, <1>8, <1>9, <1>10, <1>11, <1>12 DEF DeliveryInv

LEMMA EmitFailsStep ==
  ASSUME DeliveryInv, NEW v \in Events, EmitFails(v)
  PROVE  DeliveryInv'
<1>0. /\ emitting' = [emitting EXCEPT ![v] = {}]
      /\ faults < MaxFaults /\ faults' = faults + 1
      /\ struck' = struck \cup {<<e, v>> : e \in emitting[v]}
      /\ UNCHANGED <<endpoint, emitted, queue, worker, attempts, log, seen, minute,
                     admitted, sent, accepted, throttled, manual, crashes>>
  BY DEF EmitFails, Fault, rowVars, clockVars
<1>1. /\ TypeOK /\ emitting' \in [Events -> SUBSET Endpoints] /\ emitting'[v] = {}
      /\ \A u \in Events \ {v} : emitting'[u] = emitting[u]
  BY <1>0 DEF DeliveryInv, TypeOK
<1>2. struck' \subseteq Deliveries /\ struck \subseteq struck'
  BY <1>0, <1>1, DeliveryParts DEF DeliveryInv, KnownOK, TypeOK
<1>2a. faults \in 0..MaxFaults /\ faults' \in 0..MaxFaults /\ faults' >= faults
  BY <1>0, <1>1, Bounds DEF TypeOK
<1>3. TypeOK'
  BY <1>0, <1>1, <1>2, <1>2a DEF TypeOK, At
<1>4. KnownOK'
  BY <1>0, <1>1 DEF DeliveryInv, KnownOK
<1>5. RowsOK' /\ BudgetOK'
  BY <1>0, <1>2 DEF DeliveryInv, RowsOK, BudgetOK, HasRow, Busy, At, Live
<1>6. SingleOK'
  <2> SUFFICES ASSUME NEW d \in Deliveries \ (manual \cup struck') PROVE Single(d)'
    BY <1>0 DEF SingleOK
  <2>1. Single(d)
    BY <1>2 DEF DeliveryInv, SingleOK
  <2>2. d[2] \notin emitted' \/ d[1] \in emitting'[d[2]]
          => d[2] \notin emitted \/ d[1] \in emitting[d[2]]
    BY <1>0, <1>1, DeliveryParts
  <2> QED
    BY <1>0, <2>1, <2>2 DEF Single, HasRow, Busy
<1>7. NoSilentLoss' /\ ReceiptsAreLogged' /\ AnsweredIsOver'
  BY <1>0, <1>2, SameWork DEF DeliveryInv, NoSilentLoss, ReceiptsAreLogged,
                              AnsweredIsOver, At, EndpointOf, Live
<1>8. PaceOK'
  BY <1>0, <1>1, <1>2a, <1>3, PaceKept DEF DeliveryInv, TypeOK
<1> QED
  BY <1>3, <1>4, <1>5, <1>6, <1>7, <1>8 DEF DeliveryInv

\* A manual test or a replay.
LEMMA DispatchStep ==
  ASSUME DeliveryInv, NEW d0 \in Deliveries, Dispatch(d0)
  PROVE  DeliveryInv'
<1>0. /\ endpoint[d0[1]] = "live"
      /\ Publish(d0, 0)
      /\ manual' = manual \cup {d0} /\ accepted' = accepted \cup {d0}
      /\ UNCHANGED <<endpoint, emitting, emitted, worker, attempts, log, seen, minute,
                     admitted, sent, throttled, crashes, faults, struck>>
  BY DEF Dispatch, rowVars, clockVars, faultVars, Live, EndpointOf
<1>1. TypeOK /\ queue[<<d0, 0>>] \in Nat /\ 0 \in Retries
  BY DeliveryParts DEF DeliveryInv, TypeOK
<1>2. /\ queue' \in [Deliveries \X Retries -> Nat]
      /\ queue'[<<d0, 0>>] = queue[<<d0, 0>>] + 1
      /\ \A c \in Deliveries, m \in Retries :
              c # d0 \/ m # 0 => queue'[<<c, m>>] = queue[<<c, m>>]
  BY <1>0, <1>1, PublishForm
<1>3. TypeOK'
  BY <1>0, <1>1, <1>2 DEF TypeOK, At
<1>4. KnownOK'
  <2>1. \A d \in Deliveries : endpoint[d[1]] = "new" => d # d0
    BY <1>0
  <2> QED
    BY <1>0, <1>2, <2>1 DEF DeliveryInv, KnownOK
<1>5. RowsOK'
  BY <1>0 DEF DeliveryInv, RowsOK, HasRow
<1>6. BudgetOK'
  <2> SUFFICES ASSUME NEW d \in Deliveries, d \notin struck, Live(d[1])
               PROVE  \A n \in Retries : queue'[<<d, n>>] > 0 => n <= Cardinality(log[d])
    BY <1>0 DEF DeliveryInv, BudgetOK, Busy, At, Live
  <2>1. Cardinality(log[d]) \in Nat
    BY FS_CardinalityType DEF DeliveryInv, BudgetOK
  <2>2. \A n \in Retries : queue'[<<d, n>>] = queue[<<d, n>>] \/ n = 0
    BY <1>2
  <2> QED
    BY <2>1, <2>2 DEF DeliveryInv, BudgetOK
<1>7. SingleOK'
  <2> SUFFICES ASSUME NEW d \in Deliveries \ (manual' \cup struck) PROVE Single(d)'
    BY <1>0 DEF SingleOK
  <2>1. Single(d) /\ d # d0
    BY <1>0 DEF DeliveryInv, SingleOK
  <2>2. \A n \in Retries : queue'[<<d, n>>] = queue[<<d, n>>]
    BY <1>2, <2>1
  <2> QED
    BY <1>0, <2>1, <2>2 DEF Single, HasRow, Busy
<1>8. NoSilentLoss'
  <2>1. \A d \in Deliveries : Working(d)' <=> Working(d)
    BY <1>0 DEF Working, At
  <2>2. \A d \in Deliveries : Queued(d) => Queued(d)'
    <3> SUFFICES ASSUME NEW d \in Deliveries, NEW n \in Retries, queue[<<d, n>>] > 0
                 PROVE  queue'[<<d, n>>] > 0
      BY DEF Queued
    <3> QED
      BY <1>1, <1>2
  <2>3. Queued(d0)'
    BY <1>1, <1>2 DEF Queued
  <2> QED
    BY <1>0, <1>1, <2>1, <2>2, <2>3, AcceptedAreDeliveries
    DEF DeliveryInv, NoSilentLoss, EndpointOf, Live
<1>9. ReceiptsAreLogged'
  BY <1>0 DEF DeliveryInv, ReceiptsAreLogged, At, EndpointOf, Live
<1>10. AnsweredIsOver'
  <2> SUFFICES ASSUME NEW d \in Deliveries \ (manual' \cup struck), NEW r \in log[d],
                      IsFinal(r)
               PROVE  ~Queued(d)' /\ ~Working(d)' /\ r.id = attempts[d]
    BY <1>0 DEF AnsweredIsOver
  <2>1. ~Queued(d) /\ ~Working(d) /\ r.id = attempts[d] /\ d # d0
    BY <1>0 DEF DeliveryInv, AnsweredIsOver
  <2>2. \A n \in Retries : queue'[<<d, n>>] = queue[<<d, n>>]
    BY <1>2, <2>1
  <2> QED
    BY <1>0, <2>1, <2>2 DEF Queued, Working, At
<1>11. PaceOK'
  BY <1>0, <1>1, <1>3, PaceKept DEF DeliveryInv, TypeOK
<1> QED
  BY <1>3, <1>4, <1>5, <1>6, <1>7, <1>8, <1>9, <1>10, <1>11 DEF DeliveryInv

LEMMA NextMinuteStep ==
  ASSUME DeliveryInv, NextMinute
  PROVE  DeliveryInv'
<1>0. /\ minute < MaxMinutes /\ minute' = minute + 1
      /\ admitted' = [e \in Endpoints |-> 0] /\ sent' = [e \in Endpoints |-> 0]
      /\ UNCHANGED <<endpoint, emitting, emitted, queue, worker, attempts, log, seen,
                     accepted, throttled, manual, crashes, faults, struck>>
  BY DEF NextMinute, sourceVars, rowVars, faultVars
<1>1. TypeOK
  BY DEF DeliveryInv
<1>2. TypeOK'
  <2>1. minute' \in 0..MaxMinutes
    BY <1>0, <1>1, Bounds DEF TypeOK
  <2> QED
    BY <1>0, <1>1, <2>1 DEF TypeOK, At
<1>3. KnownOK' /\ RowsOK' /\ BudgetOK' /\ SingleOK'
  BY <1>0 DEF DeliveryInv, KnownOK, RowsOK, BudgetOK, SingleOK, Single, HasRow, Busy, At, Live
<1>4. NoSilentLoss' /\ ReceiptsAreLogged' /\ AnsweredIsOver'
  BY <1>0, SameWork DEF DeliveryInv, NoSilentLoss, ReceiptsAreLogged, AnsweredIsOver,
                        At, EndpointOf, Live
<1>5. PaceOK'
  <2> SUFFICES ASSUME NEW e \in Endpoints
               PROVE  sent'[e] + Cardinality(InFlight(e)')
                        <= Quota(e)' + Cardinality(Workers) + faults'
    BY DEF PaceOK
  <2>1. InFlight(e)' = InFlight(e) /\ sent'[e] = 0 /\ Quota(e)' \in Nat
    BY <1>0, Bounds DEF InFlight, Quota
  <2>2. faults' \in Nat
    BY <1>0, <1>1, Bounds DEF TypeOK
  <2>3. Cardinality(InFlight(e)') <= Cardinality(Workers) /\ Cardinality(InFlight(e)') \in Nat
    BY <2>1, InFlightFinite
  <2> QED
    BY <2>1, <2>2, <2>3, Bounds
<1> QED
  BY <1>2, <1>3, <1>4, <1>5 DEF DeliveryInv

-----------------------------------------------------------------------------
(* The task                                                                *)

LEMMA BusyDelivery ==
  ASSUME TypeOK, NEW w \in Workers, ~At(w, "idle")
  PROVE  /\ worker[w] \in WorkerState /\ worker[w].d \in Deliveries
         /\ worker[w].d[1] \in Endpoints /\ worker[w].n \in Retries
         /\ worker[w].id \in Nat /\ worker[w].pc \in WorkerPC
<1>1. worker[w] \in WorkerState /\ worker[w].d # None
  BY DEF TypeOK, At
<1>2. worker[w].d \in Deliveries
  BY <1>1 DEF WorkerState
<1> QED
  BY <1>1, <1>2, DeliveryParts DEF WorkerState

\* One worker joins the posts to come: the budget grows with it.
LEMMA PaceJoin ==
  ASSUME TypeOK, NEW e \in Endpoints, NEW w \in Workers,
         InFlight(e)' \subseteq InFlight(e) \cup {w}
  PROVE  /\ Cardinality(InFlight(e)') \in Nat
         /\ Cardinality(InFlight(e)') <= Cardinality(InFlight(e)) + 1
<1>1. /\ IsFiniteSet(InFlight(e) \cup {w})
      /\ Cardinality(InFlight(e) \cup {w}) <= Cardinality(InFlight(e)) + 1
      /\ Cardinality(InFlight(e) \cup {w}) \in Nat
  <2> DEFINE S == InFlight(e)
  <2>1. IsFiniteSet(S) /\ Cardinality(S) \in Nat
    BY InFlightFinite
  <2> HIDE DEF S
  <2>2. /\ IsFiniteSet(S \cup {w})
        /\ \/ Cardinality(S \cup {w}) = Cardinality(S)
           \/ Cardinality(S \cup {w}) = Cardinality(S) + 1
    BY <2>1, FS_AddElement
  <2>3. /\ IsFiniteSet(S \cup {w})
        /\ Cardinality(S \cup {w}) <= Cardinality(S) + 1
        /\ Cardinality(S \cup {w}) \in Nat
    BY <2>1, <2>2
  <2> QED
    BY <2>3 DEF S
<1>2. /\ Cardinality(InFlight(e)') <= Cardinality(InFlight(e) \cup {w})
      /\ Cardinality(InFlight(e)') \in Nat
  BY <1>1, FS_Subset, FS_CardinalityType
<1> QED
  BY <1>1, <1>2, InFlightFinite

\* A worker goes on to the post or gives its task up, and writes no row.
LEMMA GotoStep ==
  ASSUME DeliveryInv, NEW w \in Workers, NEW q \in {"admitted", "settled"},
         ~At(w, "idle"), ~At(w, "posting"), ~At(w, "settled"),
         q = "admitted" => At(w, "taken"), Goto(w, q),
         UNCHANGED <<endpoint, emitting, emitted, queue, attempts, log, seen, minute,
                     sent, accepted, manual, crashes>>,
         admitted' \in [Endpoints -> Nat], faults' \in 0..MaxFaults,
         throttled \subseteq throttled', throttled' \subseteq Deliveries,
         struck \subseteq struck', struck' \subseteq Deliveries,
         At(w, "answered") => worker[w].d \in struck',
         q = "settled" => \/ worker[w].d \in throttled' \cup struck'
                          \/ ~Live(worker[w].d[1])
                          \/ Cardinality(log[worker[w].d]) > MaxRetries,
         TypeOK' => PaceOK'
  PROVE  DeliveryInv'
<1> DEFINE d0 == worker[w].d
<1>1. TypeOK
  BY DEF DeliveryInv
<1>2. d0 \in Deliveries /\ worker[w].pc \in WorkerPC
  BY <1>1, BusyDelivery
<1>3. /\ worker' \in [Workers -> WorkerState]
      /\ worker'[w].pc = q /\ worker'[w].d = worker[w].d
      /\ worker'[w].n = worker[w].n /\ worker'[w].id = worker[w].id
      /\ worker'[w].answer = worker[w].answer
      /\ \A u \in Workers \ {w} : worker'[u] = worker[u]
      /\ \A u \in Workers : worker'[u].pc = "idle" <=> worker'[u].d = None
  BY <1>1, GotoForm DEF WorkerPC
<1>4. TypeOK'
  BY <1>1, <1>3 DEF TypeOK, At
<1>5. \A u \in Workers : /\ worker'[u].d = worker[u].d /\ worker'[u].n = worker[u].n
                         /\ Busy(u)' => Busy(u)
                         /\ HasRow(u)' => u # w /\ HasRow(u)
                         /\ At(u, "recorded")' => At(u, "recorded")
                         /\ At(u, "answered")' => u # w /\ At(u, "answered")
  BY <1>3 DEF Busy, HasRow, At
<1>6. KnownOK'
  BY <1>5 DEF DeliveryInv, KnownOK
<1>7. RowsOK'
  BY <1>3, <1>5 DEF DeliveryInv, RowsOK, HasRow, At
<1>8. BudgetOK'
  BY <1>5 DEF DeliveryInv, BudgetOK, Live
<1>9. SingleOK'
  <2> SUFFICES ASSUME NEW d \in Deliveries \ (manual \cup struck') PROVE Single(d)'
    BY DEF SingleOK
  <2>1. Single(d)
    BY DEF DeliveryInv, SingleOK
  <2> QED
    BY <1>3, <1>5, <2>1 DEF Single
<1>10. \A d : (Queued(d)' <=> Queued(d)) /\ (Working(d)' => Working(d))
  BY <1>3, <1>5 DEF Queued, Working, At
<1>11. NoSilentLoss'
  <2> SUFFICES ASSUME NEW d \in accepted \ (throttled' \cup struck'), Live(d[1])
               PROVE  \/ Queued(d)' \/ Working(d)'
                      \/ \E r \in log[d] : IsFinal(r)
                      \/ Cardinality(log[d]) > MaxRetries
    BY DEF NoSilentLoss, EndpointOf, Live
  <2>1. \/ Queued(d) \/ Working(d)
        \/ \E r \in log[d] : IsFinal(r)
        \/ Cardinality(log[d]) > MaxRetries
    BY DEF DeliveryInv, NoSilentLoss, EndpointOf
  <2>2. Working(d) => Working(d)' \/ Cardinality(log[d]) > MaxRetries
    BY <1>3 DEF Working, At
  <2> QED
    BY <1>10, <2>1, <2>2
<1>12. ReceiptsAreLogged'
  BY <1>3, <1>5 DEF DeliveryInv, ReceiptsAreLogged, EndpointOf, Live, At
<1>13. AnsweredIsOver'
  BY <1>10 DEF DeliveryInv, AnsweredIsOver
<1> QED
  BY <1>4, <1>6, <1>7, <1>8, <1>9, <1>11, <1>12, <1>13 DEF DeliveryInv

LEMMA PassThrottleStep ==
  ASSUME DeliveryInv, NEW w \in Workers, PassThrottle(w)
  PROVE  DeliveryInv'
<1> DEFINE d == worker[w].d
           e == worker[w].d[1]
           over == Throttled(admitted[e] + 1)
           q == IF over THEN "settled" ELSE "admitted"
<1>0. /\ worker[w].pc = "taken"
      /\ admitted' = [admitted EXCEPT ![e] = admitted[e] + 1]
      /\ Goto(w, q)
      /\ throttled' = IF over THEN throttled \cup {d} ELSE throttled
      /\ UNCHANGED <<endpoint, emitting, emitted, queue, attempts, log, seen, minute,
                     sent, accepted, manual, crashes, faults, struck>>
  BY DEF PassThrottle, sourceVars, rowVars, faultVars, EndpointOf, At
<1>1. TypeOK /\ d \in Deliveries /\ e \in Endpoints
  BY <1>0, BusyDelivery DEF DeliveryInv, At
<1>2. /\ admitted' \in [Endpoints -> Nat] /\ admitted[e] \in Nat
      /\ admitted'[e] = admitted[e] + 1
      /\ \A f \in Endpoints \ {e} : admitted'[f] = admitted[f]
  BY <1>0, <1>1 DEF TypeOK
<1>3. /\ throttled \subseteq throttled' /\ throttled' \subseteq Deliveries
      /\ over => d \in throttled' /\ struck \subseteq Deliveries /\ faults \in 0..MaxFaults
  BY <1>0, <1>1 DEF TypeOK
<1>4. ASSUME TypeOK' PROVE PaceOK'
  <2>1. /\ worker'[w].pc = q /\ worker'[w].d = worker[w].d
        /\ \A u \in Workers \ {w} : worker'[u] = worker[u]
    BY <1>0, <1>1, GotoForm DEF WorkerPC, At
  <2> SUFFICES ASSUME NEW f \in Endpoints
               PROVE  sent[f] + Cardinality(InFlight(f)')
                        <= Quota(f)' + Cardinality(Workers) + faults
    BY <1>0 DEF PaceOK
  <2>2. sent[f] + Cardinality(InFlight(f)) <= Quota(f) + Cardinality(Workers) + faults
    BY DEF DeliveryInv, PaceOK
  <2>3. /\ sent[f] \in Nat /\ faults \in Nat /\ admitted[f] \in Nat
        /\ Cardinality(InFlight(f)) \in Nat
    BY <1>1, Bounds, InFlightFinite DEF TypeOK
  <2>4. CASE f # e \/ over
    <3>1. InFlight(f)' \subseteq InFlight(f)
      BY <2>1, <2>4 DEF InFlight
    <3>2. /\ Cardinality(InFlight(f)') <= Cardinality(InFlight(f))
          /\ Cardinality(InFlight(f)') \in Nat
      BY <3>1, InFlightFinite, FS_Subset, FS_CardinalityType
    <3>3. Quota(f)' >= Quota(f) /\ Quota(f)' \in Nat /\ Quota(f) \in Nat
      BY <1>2, <2>3, Bounds DEF Quota
    <3> QED
      BY <2>2, <2>3, <3>2, <3>3, Bounds
  <2>5. CASE f = e /\ ~over
    <3>1. InFlight(f)' \subseteq InFlight(f) \cup {w}
      BY <2>1 DEF InFlight
    <3>2. /\ Cardinality(InFlight(f)') <= Cardinality(InFlight(f)) + 1
          /\ Cardinality(InFlight(f)') \in Nat
      BY <1>1, <3>1, PaceJoin
    <3>3. Quota(f)' = Quota(f) + 1 /\ Quota(f)' \in Nat /\ Quota(f) \in Nat
      BY <1>2, <2>3, <2>5, Bounds DEF Quota, Throttled
    <3> QED
      BY <2>2, <2>3, <3>2, <3>3, Bounds
  <2> QED
    BY <2>4, <2>5
<1>5. faults' \in 0..MaxFaults /\ struck' \subseteq Deliveries /\ struck \subseteq struck'
  BY <1>0, <1>1 DEF TypeOK
<1>6. q \in {"admitted", "settled"} /\ (q = "settled" => d \in throttled')
      /\ ~At(w, "idle") /\ ~At(w, "posting") /\ ~At(w, "settled") /\ ~At(w, "answered")
      /\ At(w, "taken")
  BY <1>0, <1>3 DEF At
<1> HIDE DEF q, over, e
<1> QED
  BY <1>0, <1>2, <1>3, <1>4, <1>5, <1>6, GotoStep

LEMMA ThrottleFailsStep ==
  ASSUME DeliveryInv, NEW w \in Workers, ThrottleFails(w)
  PROVE  DeliveryInv'
<1>0. /\ worker[w].pc = "taken" /\ Goto(w, "admitted")
      /\ faults < MaxFaults /\ faults' = faults + 1
      /\ struck' = struck \cup {}
      /\ UNCHANGED <<endpoint, emitting, emitted, queue, attempts, log, seen, minute,
                     admitted, sent, accepted, throttled, manual, crashes>>
  BY DEF ThrottleFails, Fault, sourceVars, rowVars, clockVars, At
<1>1. /\ TypeOK /\ admitted' \in [Endpoints -> Nat] /\ throttled' \subseteq Deliveries
      /\ struck' = struck /\ struck \subseteq Deliveries
  BY <1>0 DEF DeliveryInv, TypeOK
<1>2. faults \in Nat /\ faults' \in 0..MaxFaults
  BY <1>0, <1>1, Bounds DEF TypeOK
<1>3. ASSUME TypeOK' PROVE PaceOK'
  <2>1. /\ worker'[w].d = worker[w].d
        /\ \A u \in Workers \ {w} : worker'[u] = worker[u]
    BY <1>0, <1>1, GotoForm DEF WorkerPC, At
  <2> SUFFICES ASSUME NEW f \in Endpoints
               PROVE  sent[f] + Cardinality(InFlight(f)')
                        <= Quota(f) + Cardinality(Workers) + faults'
    BY <1>0 DEF PaceOK, Quota
  <2>2. sent[f] + Cardinality(InFlight(f)) <= Quota(f) + Cardinality(Workers) + faults
    BY DEF DeliveryInv, PaceOK
  <2>3. InFlight(f)' \subseteq InFlight(f) \cup {w}
    BY <2>1 DEF InFlight
  <2>4. /\ Cardinality(InFlight(f)') <= Cardinality(InFlight(f)) + 1
        /\ Cardinality(InFlight(f)') \in Nat
    BY <1>1, <2>3, PaceJoin
  <2>5. sent[f] \in Nat /\ Quota(f) \in Nat /\ Cardinality(InFlight(f)) \in Nat
    BY <1>1, Bounds, InFlightFinite DEF TypeOK, Quota
  <2> QED
    BY <1>0, <1>2, <2>2, <2>4, <2>5, Bounds
<1> QED
  BY <1>0, <1>1, <1>2, <1>3, GotoStep DEF At

LEMMA DatabaseFailsStep ==
  ASSUME DeliveryInv, NEW w \in Workers, DatabaseFails(w)
  PROVE  DeliveryInv'
<1>0. /\ worker[w].pc \in {"admitted", "answered", "recorded"} /\ Goto(w, "settled")
      /\ faults < MaxFaults /\ faults' = faults + 1
      /\ struck' = struck \cup {worker[w].d}
      /\ UNCHANGED <<endpoint, emitting, emitted, queue, attempts, log, seen, minute,
                     admitted, sent, accepted, throttled, manual, crashes>>
  BY DEF DatabaseFails, Fault, sourceVars, rowVars, clockVars, At
<1>1. /\ TypeOK /\ admitted' \in [Endpoints -> Nat] /\ throttled' \subseteq Deliveries
      /\ struck \subseteq Deliveries
  BY <1>0 DEF DeliveryInv, TypeOK
<1>2. worker[w].d \in Deliveries
  BY <1>0, <1>1, BusyDelivery DEF At
<1>3. faults \in Nat /\ faults' \in 0..MaxFaults /\ faults' >= faults
  BY <1>0, <1>1, Bounds DEF TypeOK
<1>4. ASSUME TypeOK' PROVE PaceOK'
  <2>1. /\ worker'[w].pc = "settled"
        /\ \A u \in Workers \ {w} : worker'[u] = worker[u]
    BY <1>0, <1>1, GotoForm DEF WorkerPC, At
  <2> QED
    BY <1>0, <1>1, <1>3, <1>4, <2>1, PaceKept DEF DeliveryInv
<1> QED
  BY <1>0, <1>1, <1>2, <1>3, <1>4, GotoStep DEF At

LEMMA TakeStep ==
  ASSUME DeliveryInv, NEW w \in Workers, Take(w)
  PROVE  DeliveryInv'
<1>0. PICK d0 \in Deliveries, n0 \in Retries :
        /\ queue[<<d0, n0>>] > 0
        /\ queue' = [queue EXCEPT ![<<d0, n0>>] = @ - 1]
        /\ worker' = [worker EXCEPT ![w] = [Idle EXCEPT !.pc = "taken", !.d = d0, !.n = n0]]
  BY DEF Take, Available
<1>1. /\ worker[w].pc = "idle"
      /\ UNCHANGED <<endpoint, emitting, emitted, attempts, log, seen, minute, admitted,
                     sent, accepted, throttled, manual, crashes, faults, struck>>
  BY DEF Take, sourceVars, rowVars, clockVars, faultVars, At
<1> DEFINE t == [Idle EXCEPT !.pc = "taken", !.d = d0, !.n = n0]
<1>2. /\ t \in WorkerState /\ t.pc = "taken" /\ t.d = d0 /\ t.n = n0
  BY IdleOK DEF Idle, WorkerState, WorkerPC
<1>3. TypeOK /\ worker' = [worker EXCEPT ![w] = t] /\ d0 # None
  BY <1>0, DeliveryParts DEF DeliveryInv
<1> HIDE DEF t
<1>4. /\ worker' \in [Workers -> WorkerState]
      /\ worker'[w].pc = "taken" /\ worker'[w].d = d0 /\ worker'[w].n = n0
      /\ \A u \in Workers \ {w} : worker'[u] = worker[u]
      /\ \A u \in Workers : worker'[u].pc = "idle" <=> worker'[u].d = None
  BY <1>2, <1>3, WorkerForm
<1>5. queue[<<d0, n0>>] \in Nat
  BY <1>3 DEF TypeOK
<1>6. /\ queue' \in [Deliveries \X Retries -> Nat]
      /\ queue'[<<d0, n0>>] = queue[<<d0, n0>>] - 1
      /\ \A c \in Deliveries, m \in Retries :
              c # d0 \/ m # n0 => queue'[<<c, m>>] = queue[<<c, m>>]
  BY <1>0, <1>3, <1>5 DEF TypeOK
<1>7. TypeOK'
  BY <1>1, <1>3, <1>4, <1>6 DEF TypeOK, At
<1>8. \A u \in Workers : /\ HasRow(u)' => u # w /\ HasRow(u)
                         /\ Busy(u)' => u = w \/ Busy(u)
                         /\ At(u, "recorded")' => u # w /\ At(u, "recorded")
  BY <1>4 DEF HasRow, Busy, At
<1>9. KnownOK'
  <2>1. endpoint[d0[1]] # "new"
    BY <1>0, <1>5 DEF DeliveryInv, KnownOK
  <2> QED
    BY <1>1, <1>4, <1>6, <2>1 DEF DeliveryInv, KnownOK
<1>10. RowsOK'
  BY <1>1, <1>4, <1>8 DEF DeliveryInv, RowsOK, HasRow
<1>11. \A d \in Deliveries, n \in Retries : queue'[<<d, n>>] > 0 => queue[<<d, n>>] > 0
  BY <1>0, <1>5, <1>6
<1>12. BudgetOK'
  <2> SUFFICES ASSUME NEW d \in Deliveries, d \notin struck, Live(d[1])
               PROVE  /\ \A n \in Retries : queue'[<<d, n>>] > 0 => n <= Cardinality(log[d])
                      /\ \A u \in Workers : worker'[u].d = d =>
                           /\ Busy(u)' => worker'[u].n <= Cardinality(log[d])
                           /\ At(u, "recorded")' => worker'[u].n < Cardinality(log[d])
    BY <1>1 DEF DeliveryInv, BudgetOK, Live
  <2>1. \A n \in Retries : queue[<<d, n>>] > 0 => n <= Cardinality(log[d])
    BY DEF DeliveryInv, BudgetOK
  <2>2. ASSUME NEW u \in Workers \ {w}, worker'[u].d = d
        PROVE  /\ Busy(u)' => worker'[u].n <= Cardinality(log[d])
               /\ At(u, "recorded")' => worker'[u].n < Cardinality(log[d])
    BY <1>4, <1>8, <2>2 DEF DeliveryInv, BudgetOK
  <2> QED
    BY <1>0, <1>4, <1>8, <1>11, <2>1, <2>2
<1>13. SingleOK'
  <2> SUFFICES ASSUME NEW d \in Deliveries \ (manual \cup struck) PROVE Single(d)'
    BY <1>1 DEF SingleOK
  <2>1. Single(d)
    BY DEF DeliveryInv, SingleOK
  <2>2. CASE d = d0
    <3>1. /\ queue[<<d, n0>>] = 1
          /\ \A m \in Retries \ {n0} : queue[<<d, m>>] = 0
          /\ \A u \in Workers : Busy(u) => worker[u].d # d
          /\ ~(d[2] \notin emitted \/ d[1] \in emitting[d[2]])
      BY <1>0, <2>1, <2>2 DEF Single
    <3>2. \A n \in Retries : queue'[<<d, n>>] = 0
      BY <1>6, <2>2, <3>1
    <3>3. \A u \in Workers : Busy(u)' /\ worker'[u].d = d => u = w
      BY <1>4, <1>8, <3>1
    <3> QED
      BY <1>1, <1>8, <3>1, <3>2, <3>3 DEF Single
  <2>3. CASE d # d0
    <3>1. \A n \in Retries : queue'[<<d, n>>] = queue[<<d, n>>]
      BY <1>6, <2>3
    <3>2. \A u \in Workers : Busy(u)' /\ worker'[u].d = d =>
             u # w /\ Busy(u) /\ worker[u].d = d /\ worker'[u] = worker[u]
      BY <1>4, <1>8, <2>3
    <3> QED
      BY <1>1, <1>8, <2>1, <3>1, <3>2 DEF Single
  <2> QED
    BY <2>2, <2>3
<1>14. \A d \in Deliveries :
          /\ Queued(d)' => Queued(d)
          /\ Working(d)' => Working(d) \/ d = d0
          /\ Queued(d) \/ Working(d) => Queued(d)' \/ Working(d)'
  <2> SUFFICES ASSUME NEW d \in Deliveries
               PROVE  /\ Queued(d)' => Queued(d)
                      /\ Working(d)' => Working(d) \/ d = d0
                      /\ Queued(d) \/ Working(d) => Queued(d)' \/ Working(d)'
    OBVIOUS
  <2>1. Queued(d)' => Queued(d)
    BY <1>11 DEF Queued
  <2>2. Working(d)' => Working(d) \/ d = d0
    BY <1>4 DEF Working, At
  <2>3. Working(d0)'
    BY <1>4 DEF Working, At
  <2>4. d # d0 => (Queued(d) => Queued(d)')
    BY <1>6 DEF Queued
  <2>5. d # d0 => (Working(d) => Working(d)')
    <3> SUFFICES ASSUME d # d0, NEW u \in Workers, worker[u].d = d, worker[u].pc # "settled"
                 PROVE  Working(d)'
      BY DEF Working, At
    <3>1. u # w
      BY <1>1, <1>3, DeliveryParts DEF TypeOK, At
    <3> QED
      BY <1>4, <3>1 DEF Working, At
  <2> QED
    BY <2>1, <2>2, <2>3, <2>4, <2>5
<1>15. NoSilentLoss'
  BY <1>1, <1>3, <1>14, AcceptedAreDeliveries DEF DeliveryInv, NoSilentLoss, EndpointOf, Live
<1>16. ReceiptsAreLogged'
  BY <1>1, <1>4 DEF DeliveryInv, ReceiptsAreLogged, EndpointOf, Live, At
<1>17. AnsweredIsOver'
  <2>1. Queued(d0)
    BY <1>0 DEF Queued
  <2> QED
    BY <1>1, <1>14, <2>1 DEF DeliveryInv, AnsweredIsOver
<1>18. PaceOK'
  <2>1. \A u \in Workers : worker'[u].pc \in {"admitted", "posting"} =>
           worker[u].pc \in {"admitted", "posting"} /\ worker'[u].d = worker[u].d
    BY <1>4
  <2> QED
    BY <1>1, <1>3, <1>7, <2>1, PaceKept DEF DeliveryInv, TypeOK
<1> QED
  BY <1>7, <1>9, <1>10, <1>12, <1>13, <1>15, <1>16, <1>17, <1>18 DEF DeliveryInv

LEMMA InsertDeliveryStep ==
  ASSUME DeliveryInv, NEW w \in Workers, InsertDelivery(w)
  PROVE  DeliveryInv'
<1> DEFINE d0 == worker[w].d
<1>0. /\ worker[w].pc = "admitted"
      /\ UNCHANGED <<endpoint, emitting, emitted, queue, log, seen, minute, admitted,
                     sent, accepted, throttled, manual, crashes, faults, struck>>
  BY DEF InsertDelivery, sourceVars, clockVars, faultVars, At
<1>1. /\ TypeOK /\ worker[w] \in WorkerState /\ d0 \in Deliveries /\ d0[1] \in Endpoints
      /\ attempts[d0] \in Nat
  BY <1>0, BusyDelivery DEF DeliveryInv, At, TypeOK
<1>2. CASE ~Live(d0[1])
  <2>1. Goto(w, "settled") /\ UNCHANGED attempts
    BY <1>2 DEF InsertDelivery, EndpointOf
  <2>2. ASSUME TypeOK' PROVE PaceOK'
    <3>1. /\ worker'[w].pc = "settled"
          /\ \A u \in Workers \ {w} : worker'[u] = worker[u]
      BY <1>0, <1>1, <2>1, GotoForm DEF WorkerPC, At
    <3> QED
      BY <1>0, <1>1, <2>2, <3>1, PaceKept DEF DeliveryInv, TypeOK
  <2>3. /\ admitted' \in [Endpoints -> Nat] /\ faults' \in 0..MaxFaults
        /\ throttled' \subseteq Deliveries /\ struck' \subseteq Deliveries
    BY <1>0, <1>1 DEF TypeOK
  <2> QED
    BY <1>0, <1>2, <2>1, <2>2, <2>3, GotoStep DEF At
<1>3. CASE Live(d0[1])
  <2> DEFINE i == attempts[d0] + 1
             t == [worker[w] EXCEPT !.pc = "posting", !.id = i]
  <2>1. /\ attempts' = [attempts EXCEPT ![d0] = i]
        /\ worker' = [worker EXCEPT ![w] = [@ EXCEPT !.pc = "posting", !.id = attempts'[d0]]]
    BY <1>3 DEF InsertDelivery, EndpointOf
  <2>2. /\ attempts' \in [Deliveries -> Nat] /\ attempts'[d0] = i /\ i \in Nat
        /\ \A d \in Deliveries \ {d0} : attempts'[d] = attempts[d]
        /\ \A d \in Deliveries : attempts[d] \in Nat /\ attempts[d] <= attempts'[d]
    BY <1>1, <2>1 DEF TypeOK
  <2>3. /\ t \in WorkerState /\ t.pc = "posting" /\ t.d = d0 /\ t.n = worker[w].n
        /\ t.id = i
    BY <1>1, <2>2 DEF WorkerState, WorkerPC
  <2>4. worker' = [worker EXCEPT ![w] = t]
    BY <2>1, <2>2
  <2>5. d0 # None
    BY <1>1, DeliveryParts
  <2> HIDE DEF t
  <2>6. /\ worker' \in [Workers -> WorkerState]
        /\ worker'[w].pc = "posting" /\ worker'[w].d = d0 /\ worker'[w].n = worker[w].n
        /\ worker'[w].id = i
        /\ \A u \in Workers \ {w} : worker'[u] = worker[u]
        /\ \A u \in Workers : worker'[u].pc = "idle" <=> worker'[u].d = None
    BY <1>1, <2>3, <2>4, <2>5, WorkerForm
  <2>7. TypeOK'
    <3>1. \A d \in Deliveries : /\ 1..attempts[d] \subseteq 1..attempts'[d]
                                /\ log[d] \subseteq [id: 1..attempts'[d], answer: Answers]
                                /\ seen[d] \subseteq 1..attempts'[d]
      BY <1>1, <2>2 DEF TypeOK
    <3> QED
      BY <1>0, <1>1, <2>2, <2>6, <3>1 DEF TypeOK, At
  <2>8. \A u \in Workers : /\ worker'[u].d = worker[u].d /\ worker'[u].n = worker[u].n
                           /\ Busy(u)' <=> Busy(u)
                           /\ u # w => (HasRow(u)' <=> HasRow(u))
                           /\ At(u, "recorded")' <=> At(u, "recorded")
                           /\ At(u, "settled")' <=> At(u, "settled")
                           /\ At(u, "answered")' <=> At(u, "answered")
    BY <1>0, <2>6 DEF Busy, HasRow, At
  <2>9. KnownOK'
    <3>1. endpoint[d0[1]] # "new"
      BY <1>3 DEF Live
    <3> QED
      BY <1>0, <2>2, <2>8, <3>1 DEF DeliveryInv, KnownOK
  <2>10. RowsOK'
    <3> SUFFICES ASSUME NEW u \in Workers
                 PROVE  /\ worker'[u].pc = "answered" => worker'[u].answer \in Answers
                        /\ HasRow(u)' =>
                             /\ worker'[u].id \in 1..attempts'[worker'[u].d]
                             /\ \A r \in log[worker'[u].d] : r.id # worker'[u].id
                             /\ \A x \in Workers \ {u} :
                                  HasRow(x)' /\ worker'[x].d = worker'[u].d
                                    => worker'[x].id # worker'[u].id
      BY <1>0 DEF RowsOK
    <3>1. \A r \in log[d0] : r.id \in 1..attempts[d0]
      BY <1>1 DEF TypeOK
    <3>2. \A x \in Workers \ {w} : HasRow(x)' =>
             /\ HasRow(x) /\ worker[x].id \in 1..attempts[worker[x].d]
             /\ worker[x].d \in Deliveries
      BY <1>1, <2>8, BusyDelivery DEF DeliveryInv, RowsOK, HasRow, At
    <3>3. CASE u = w
      <4>1. \A x \in Workers \ {w} : HasRow(x)' /\ worker'[x].d = d0 => worker'[x].id # i
        BY <1>1, <2>6, <3>2
      <4>2. i \in 1..attempts'[d0] /\ \A r \in log[d0] : r.id # i
        BY <1>1, <2>2, <3>1
      <4> QED
        BY <2>6, <3>3, <4>1, <4>2
    <3>4. CASE u # w
      <4>1. worker'[u] = worker[u]
        BY <2>6, <3>4
      <4>2. worker'[u].pc = "answered" => worker'[u].answer \in Answers
        BY <4>1 DEF DeliveryInv, RowsOK
      <4>3. ASSUME HasRow(u)'
            PROVE  /\ worker'[u].id \in 1..attempts'[worker'[u].d]
                   /\ \A r \in log[worker'[u].d] : r.id # worker'[u].id
        <5>1. worker[u].d \in Deliveries /\ worker[u].id \in 1..attempts[worker[u].d]
          BY <3>2, <3>4, <4>3
        <5>2. worker[u].id \in 1..attempts'[worker[u].d]
          BY <2>2, <5>1
        <5> QED
          BY <2>8, <3>4, <4>1, <4>3, <5>2 DEF DeliveryInv, RowsOK
      <4>4. ASSUME HasRow(u)', NEW x \in Workers \ {u}, HasRow(x)', worker'[x].d = worker'[u].d
            PROVE  worker'[x].id # worker'[u].id
        <5>1. CASE x = w
          BY <1>1, <2>6, <3>2, <3>4, <4>1, <4>4, <5>1
        <5>2. CASE x # w
          BY <2>6, <2>8, <3>4, <4>1, <4>4, <5>2 DEF DeliveryInv, RowsOK
        <5> QED
          BY <5>1, <5>2
      <4> QED
        BY <4>2, <4>3, <4>4
    <3> QED
      BY <3>3, <3>4
  <2>11. BudgetOK'
    BY <1>0, <2>8 DEF DeliveryInv, BudgetOK, Live
  <2>12. SingleOK'
    <3> SUFFICES ASSUME NEW d \in Deliveries \ (manual \cup struck) PROVE Single(d)'
      BY <1>0 DEF SingleOK
    <3>1. Single(d)
      BY DEF DeliveryInv, SingleOK
    <3>2. Busy(w)
      BY <1>0 DEF Busy
    <3>3. \A u \in Workers : HasRow(u)' /\ worker'[u].d = d => worker'[u].id = attempts'[d]
      <4> SUFFICES ASSUME NEW u \in Workers, HasRow(u)', worker'[u].d = d
                   PROVE  worker'[u].id = attempts'[d]
        OBVIOUS
      <4>1. CASE u = w
        BY <2>2, <2>6, <4>1
      <4>2. CASE u # w
        <5>1. HasRow(u) /\ Busy(u) /\ worker[u].d = d /\ worker'[u] = worker[u]
          BY <2>6, <2>8, <4>2 DEF HasRow, Busy
        <5>2. d # d0
          BY <3>1, <3>2, <4>2, <5>1 DEF Single
        <5> QED
          BY <2>2, <3>1, <5>1, <5>2 DEF Single
      <4> QED
        BY <4>1, <4>2
    <3>4. d[2] \notin emitted \/ d[1] \in emitting[d[2]] => attempts'[d] = 0
      <4>1. d[2] \notin emitted \/ d[1] \in emitting[d[2]] => attempts[d] = 0 /\ d # d0
        BY <3>1, <3>2 DEF Single
      <4> QED
        BY <2>2, <4>1
    <3> QED
      BY <1>0, <2>8, <3>1, <3>3, <3>4 DEF Single
  <2>13. \A d : (Queued(d)' <=> Queued(d)) /\ (Working(d)' <=> Working(d))
    BY <1>0, <2>8 DEF Queued, Working
  <2>14. NoSilentLoss'
    BY <1>0, <2>13 DEF DeliveryInv, NoSilentLoss, EndpointOf, Live
  <2>15. ReceiptsAreLogged'
    <3>1. \A u \in Workers : At(u, "answered") => worker'[u].id = worker[u].id
      BY <1>0, <2>6 DEF At
    <3> QED
      BY <1>0, <2>8, <3>1 DEF DeliveryInv, ReceiptsAreLogged, EndpointOf, Live
  <2>16. AnsweredIsOver'
    <3>1. Working(d0)
      BY <1>0 DEF Working, At
    <3> QED
      BY <1>0, <2>2, <2>13, <3>1 DEF DeliveryInv, AnsweredIsOver
  <2>17. PaceOK'
    <3>1. \A u \in Workers : worker'[u].pc \in {"admitted", "posting"} =>
             worker[u].pc \in {"admitted", "posting"} /\ worker'[u].d = worker[u].d
      BY <1>0, <2>6
    <3> QED
      BY <1>0, <1>1, <2>7, <3>1, PaceKept DEF DeliveryInv, TypeOK
  <2> QED
    BY <2>7, <2>9, <2>10, <2>11, <2>12, <2>14, <2>15, <2>16, <2>17 DEF DeliveryInv
<1> QED
  BY <1>2, <1>3

LEMMA PostStep ==
  ASSUME DeliveryInv, NEW w \in Workers, Post(w)
  PROVE  DeliveryInv'
<1> DEFINE d0 == worker[w].d
           i == worker[w].id
<1>0. PICK a \in Answers :
        /\ worker' = [worker EXCEPT ![w] = [@ EXCEPT !.pc = "answered", !.answer = a]]
        /\ seen' = IF a = "silence" THEN seen ELSE [seen EXCEPT ![d0] = @ \cup {i}]
  BY DEF Post
<1>1. /\ worker[w].pc = "posting"
      /\ sent' = [sent EXCEPT ![d0[1]] = @ + 1]
      /\ UNCHANGED <<endpoint, emitting, emitted, queue, attempts, log, minute, admitted,
                     accepted, throttled, manual, crashes, faults, struck>>
  BY DEF Post, sourceVars, faultVars, At, EndpointOf
<1>2. /\ TypeOK /\ worker[w] \in WorkerState /\ d0 \in Deliveries /\ d0[1] \in Endpoints
      /\ d0 # None
  BY <1>1, BusyDelivery, DeliveryParts DEF DeliveryInv, At
<1>3. i \in 1..attempts[d0]
  BY <1>1 DEF DeliveryInv, RowsOK, HasRow
<1> DEFINE t == [worker[w] EXCEPT !.pc = "answered", !.answer = a]
<1>4. /\ t \in WorkerState /\ t.pc = "answered" /\ t.d = d0 /\ t.n = worker[w].n
      /\ t.id = i /\ t.answer = a
  BY <1>2 DEF WorkerState, WorkerPC
<1>5. worker' = [worker EXCEPT ![w] = t]
  BY <1>0
<1> HIDE DEF t
<1>6. /\ worker' \in [Workers -> WorkerState]
      /\ worker'[w].pc = "answered" /\ worker'[w].d = d0 /\ worker'[w].n = worker[w].n
      /\ worker'[w].id = i /\ worker'[w].answer = a
      /\ \A u \in Workers \ {w} : worker'[u] = worker[u]
      /\ \A u \in Workers : worker'[u].pc = "idle" <=> worker'[u].d = None
  BY <1>2, <1>4, <1>5, WorkerForm
<1>7. /\ sent' \in [Endpoints -> Nat] /\ sent'[d0[1]] = sent[d0[1]] + 1
      /\ \A e \in Endpoints \ {d0[1]} : sent'[e] = sent[e]
  BY <1>1, <1>2 DEF TypeOK
<1>8. \A d \in Deliveries :
         /\ seen'[d] = seen[d] \/ (d = d0 /\ seen'[d] = seen[d] \cup {i})
         /\ seen'[d] \subseteq 1..attempts[d]
  <2> SUFFICES ASSUME NEW d \in Deliveries
               PROVE  /\ seen'[d] = seen[d] \/ (d = d0 /\ seen'[d] = seen[d] \cup {i})
                      /\ seen'[d] \subseteq 1..attempts[d]
    OBVIOUS
  <2>1. seen'[d] = seen[d] \/ (d = d0 /\ seen'[d] = seen[d] \cup {i})
    BY <1>0
  <2>2. seen[d] \subseteq 1..attempts[d]
    BY <1>2 DEF TypeOK
  <2> QED
    BY <1>3, <2>1, <2>2
<1>9. TypeOK'
  <2>1. DOMAIN seen' = Deliveries
    BY <1>0, <1>2 DEF TypeOK
  <2> QED
    BY <1>1, <1>2, <1>6, <1>7, <1>8, <2>1 DEF TypeOK, At
<1>10. \A u \in Workers : /\ worker'[u].d = worker[u].d /\ worker'[u].n = worker[u].n
                          /\ worker'[u].id = worker[u].id
                          /\ Busy(u)' <=> Busy(u)
                          /\ HasRow(u)' <=> HasRow(u)
                          /\ At(u, "recorded")' <=> At(u, "recorded")
                          /\ At(u, "settled")' <=> At(u, "settled")
  BY <1>1, <1>6 DEF Busy, HasRow, At
<1>11. KnownOK' /\ BudgetOK'
  BY <1>1, <1>10 DEF DeliveryInv, KnownOK, BudgetOK, Live
<1>12. RowsOK'
  <2>1. \A u \in Workers : worker'[u].pc = "answered" => worker'[u].answer \in Answers
    BY <1>6 DEF DeliveryInv, RowsOK
  <2> QED
    BY <1>1, <1>10, <2>1 DEF DeliveryInv, RowsOK
<1>13. SingleOK'
  BY <1>1, <1>10 DEF DeliveryInv, SingleOK, Single
<1>14. \A d : (Queued(d)' <=> Queued(d)) /\ (Working(d)' <=> Working(d))
  BY <1>1, <1>10 DEF Queued, Working
<1>15. NoSilentLoss' /\ AnsweredIsOver'
  BY <1>1, <1>14 DEF DeliveryInv, NoSilentLoss, AnsweredIsOver, EndpointOf, Live
<1>16. ReceiptsAreLogged'
  <2> SUFFICES ASSUME NEW d \in Deliveries \ struck, Live(d[1]), NEW id \in seen'[d]
               PROVE  \/ \E r \in log[d] : r.id = id
                      \/ \E u \in Workers : /\ worker'[u].pc = "answered"
                                            /\ worker'[u].d = d /\ worker'[u].id = id
    BY <1>1 DEF ReceiptsAreLogged, EndpointOf, Live, At
  <2>1. CASE id \in seen[d]
    <3>1. \A u \in Workers : worker[u].pc = "answered" => worker'[u].pc = "answered"
      BY <1>1, <1>6
    <3> QED
      BY <1>10, <2>1, <3>1 DEF DeliveryInv, ReceiptsAreLogged, EndpointOf, At
  <2>2. CASE id \notin seen[d]
    <3>1. d = d0 /\ id = i
      BY <1>8, <2>2
    <3> QED
      BY <1>6, <3>1
  <2> QED
    BY <2>1, <2>2
<1>17. PaceOK'
  <2> SUFFICES ASSUME NEW f \in Endpoints
               PROVE  sent'[f] + Cardinality(InFlight(f)')
                        <= Quota(f) + Cardinality(Workers) + faults
    BY <1>1 DEF PaceOK, Quota
  <2>1. sent[f] + Cardinality(InFlight(f)) <= Quota(f) + Cardinality(Workers) + faults
    BY DEF DeliveryInv, PaceOK
  <2>2. /\ sent[f] \in Nat /\ Quota(f) \in Nat /\ faults \in Nat
        /\ Cardinality(InFlight(f)) \in Nat /\ IsFiniteSet(InFlight(f))
    BY <1>2, Bounds, InFlightFinite DEF TypeOK, Quota
  <2>3. CASE f = d0[1]
    <3>1. InFlight(f)' = InFlight(f) \ {w} /\ w \in InFlight(f)
      BY <1>1, <1>6, <2>3 DEF InFlight
    <3>2. Cardinality(InFlight(f)') = Cardinality(InFlight(f)) - 1
      <4> DEFINE S == InFlight(f)
      <4>1. IsFiniteSet(S) /\ w \in S
        BY <2>2, <3>1
      <4> HIDE DEF S
      <4>2. Cardinality(S \ {w}) = Cardinality(S) - 1
        BY <4>1, FS_RemoveElement
      <4> QED
        BY <3>1, <4>2 DEF S
    <3> QED
      BY <1>7, <2>1, <2>2, <2>3, <3>2, Bounds
  <2>4. CASE f # d0[1]
    <3>1. InFlight(f)' = InFlight(f)
      BY <1>1, <1>6, <2>4 DEF InFlight
    <3> QED
      BY <1>7, <2>1, <2>4, <3>1
  <2> QED
    BY <2>3, <2>4
<1> QED
  BY <1>9, <1>11, <1>12, <1>13, <1>15, <1>16, <1>17 DEF DeliveryInv

LEMMA RecordAttemptStep ==
  ASSUME DeliveryInv, NEW w \in Workers, RecordAttempt(w)
  PROVE  DeliveryInv'
<1> DEFINE d0 == worker[w].d
           i == worker[w].id
           a == worker[w].answer
           r0 == [id |-> i, answer |-> a]
           q == IF Retryable(a) THEN "recorded" ELSE "settled"
<1>0. /\ worker[w].pc = "answered"
      /\ log' = [log EXCEPT ![d0] = log[d0] \cup {r0}]
      /\ Goto(w, q)
      /\ UNCHANGED <<endpoint, emitting, emitted, queue, attempts, seen, minute, admitted,
                     sent, accepted, throttled, manual, crashes, faults, struck>>
  BY DEF RecordAttempt, LogAfter, sourceVars, clockVars, faultVars, At
<1>1. TypeOK /\ d0 \in Deliveries /\ a \in Answers /\ attempts[d0] \in Nat
  BY <1>0, BusyDelivery DEF DeliveryInv, At, RowsOK, TypeOK
<1>2. /\ i \in 1..attempts[d0] /\ \A r \in log[d0] : r.id # i
      /\ \A u \in Workers \ {w} : HasRow(u) /\ worker[u].d = d0 => worker[u].id # i
  BY <1>0 DEF DeliveryInv, RowsOK, HasRow
<1>3. q \in {"recorded", "settled"} /\ (q = "settled" => a \in {"ok", "refused"})
  BY <1>1 DEF Retryable, Answers
<1>4. /\ worker' \in [Workers -> WorkerState]
      /\ worker'[w].pc = q /\ worker'[w].d = worker[w].d
      /\ worker'[w].n = worker[w].n /\ worker'[w].id = worker[w].id
      /\ \A u \in Workers \ {w} : worker'[u] = worker[u]
      /\ \A u \in Workers : worker'[u].pc = "idle" <=> worker'[u].d = None
  BY <1>0, <1>1, <1>3, GotoForm DEF WorkerPC, At
<1> HIDE DEF q
<1>5. r0 \in [id: 1..attempts[d0], answer: Answers] /\ r0.id = i /\ r0.answer = a
  BY <1>1, <1>2
<1> HIDE DEF r0
<1>6. \A d \in Deliveries : log'[d] = IF d = d0 THEN log[d] \cup {r0} ELSE log[d]
  BY <1>0, <1>1 DEF TypeOK
<1>7. TypeOK'
  <2>1. ASSUME NEW d \in Deliveries
        PROVE  log'[d] \subseteq [id: 1..attempts[d], answer: Answers]
    <3>1. log[d] \subseteq [id: 1..attempts[d], answer: Answers]
      BY <1>1 DEF TypeOK
    <3> QED
      BY <1>5, <1>6, <3>1
  <2>2. DOMAIN log' = Deliveries
    BY <1>0, <1>1 DEF TypeOK
  <2> QED
    BY <1>0, <1>1, <1>4, <2>1, <2>2 DEF TypeOK, At
<1>8. \A u \in Workers : /\ worker'[u].d = worker[u].d /\ worker'[u].n = worker[u].n
                         /\ Busy(u)' => Busy(u)
                         /\ HasRow(u)' => u # w /\ HasRow(u)
  BY <1>0, <1>3, <1>4 DEF Busy, HasRow
<1>9. KnownOK'
  BY <1>0, <1>8 DEF DeliveryInv, KnownOK
<1>10. RowsOK'
  <2> SUFFICES ASSUME NEW u \in Workers
               PROVE  /\ worker'[u].pc = "answered" => worker'[u].answer \in Answers
                      /\ HasRow(u)' =>
                           /\ worker'[u].id \in 1..attempts[worker'[u].d]
                           /\ \A r \in log'[worker'[u].d] : r.id # worker'[u].id
                           /\ \A x \in Workers \ {u} :
                                HasRow(x)' /\ worker'[x].d = worker'[u].d
                                  => worker'[x].id # worker'[u].id
    BY <1>0 DEF RowsOK
  <2>1. worker'[u].pc = "answered" => HasRow(u)'
    BY DEF HasRow
  <2>2. ASSUME HasRow(u)'
        PROVE  /\ worker'[u] = worker[u] /\ HasRow(u) /\ u # w
               /\ worker[u].d \in Deliveries
    BY <1>1, <1>4, <1>8, <2>2, BusyDelivery DEF HasRow, At
  <2>3. HasRow(u)' /\ worker'[u].pc = "answered" => worker'[u].answer \in Answers
    BY <2>2 DEF DeliveryInv, RowsOK
  <2>4. ASSUME HasRow(u)' PROVE \A r \in log'[worker'[u].d] : r.id # worker'[u].id
    <3>1. \A r \in log[worker[u].d] : r.id # worker[u].id
      BY <2>2, <2>4 DEF DeliveryInv, RowsOK
    <3>2. worker[u].d = d0 => worker[u].id # i
      BY <1>2, <2>2, <2>4
    <3> QED
      BY <1>5, <1>6, <2>2, <2>4, <3>1, <3>2
  <2>5. ASSUME HasRow(u)'
        PROVE  /\ worker'[u].id \in 1..attempts[worker'[u].d]
               /\ \A x \in Workers \ {u} :
                    HasRow(x)' /\ worker'[x].d = worker'[u].d
                      => worker'[x].id # worker'[u].id
    BY <1>4, <1>8, <2>2, <2>5 DEF DeliveryInv, RowsOK
  <2> QED
    BY <2>1, <2>3, <2>4, <2>5
<1>11. /\ \A d \in Deliveries : IsFiniteSet(log[d]) /\ Cardinality(log[d]) \in Nat
       /\ \A d \in Deliveries : IsFiniteSet(log'[d])
       /\ Cardinality(log'[d0]) = Cardinality(log[d0]) + 1
  <2>1. \A d \in Deliveries : IsFiniteSet(log[d]) /\ Cardinality(log[d]) \in Nat
    BY FS_CardinalityType DEF DeliveryInv, BudgetOK
  <2> DEFINE S == log[d0]
  <2>2. IsFiniteSet(S) /\ r0 \notin S
    BY <1>1, <1>2, <1>5, <2>1
  <2>3. log'[d0] = S \cup {r0}
    BY <1>1, <1>6
  <2> HIDE DEF S
  <2>4. IsFiniteSet(S \cup {r0}) /\ Cardinality(S \cup {r0}) = Cardinality(S) + 1
    BY <2>2, FS_AddElement
  <2>5. IsFiniteSet(log'[d0]) /\ Cardinality(log'[d0]) = Cardinality(S) + 1
    BY <2>3, <2>4
  <2> QED
    BY <1>6, <2>1, <2>5 DEF S
<1>12. BudgetOK'
  <2> SUFFICES ASSUME NEW d \in Deliveries, d \notin struck, Live(d[1])
               PROVE  /\ \A n \in Retries : queue[<<d, n>>] > 0 => n <= Cardinality(log'[d])
                      /\ \A u \in Workers : worker'[u].d = d =>
                           /\ Busy(u)' => worker'[u].n <= Cardinality(log'[d])
                           /\ At(u, "recorded")' => worker'[u].n < Cardinality(log'[d])
    BY <1>0, <1>11 DEF BudgetOK, Live
  <2>1. /\ Cardinality(log[d]) \in Nat
        /\ Cardinality(log'[d]) = IF d = d0 THEN Cardinality(log[d]) + 1
                                            ELSE Cardinality(log[d])
    BY <1>6, <1>11
  <2>2. /\ \A n \in Retries : queue[<<d, n>>] > 0 => n <= Cardinality(log[d])
        /\ \A u \in Workers : worker[u].d = d =>
                           /\ Busy(u) => worker[u].n <= Cardinality(log[d])
                           /\ At(u, "recorded") => worker[u].n < Cardinality(log[d])
    BY DEF DeliveryInv, BudgetOK
  <2>3. \A n \in Retries : n \in Nat
    BY DeliveryParts
  <2>4. ASSUME NEW u \in Workers, worker'[u].d = d
        PROVE  /\ Busy(u)' => worker'[u].n <= Cardinality(log'[d])
               /\ At(u, "recorded")' => worker'[u].n < Cardinality(log'[d])
    <3>1. CASE u = w
      <4>1. Busy(w) /\ worker[w].d = d /\ d = d0
        BY <1>0, <1>4, <2>4, <3>1 DEF Busy
      <4>2. worker[w].n \in Nat
        BY <1>0, <1>1, <2>3, BusyDelivery DEF At
      <4> QED
        BY <1>4, <2>1, <2>2, <3>1, <4>1, <4>2
    <3>2. CASE u # w
      <4>1. worker'[u] = worker[u]
        BY <1>4, <3>2
      <4>2. u \in Workers /\ ~At(u, "idle") => worker[u].n \in Nat
        BY <1>1, <2>3, BusyDelivery
      <4> QED
        BY <2>1, <2>2, <2>4, <4>1, <4>2 DEF Busy, At
    <3> QED
      BY <3>1, <3>2
  <2> QED
    BY <2>1, <2>2, <2>3, <2>4
<1>13. SingleOK'
  <2> SUFFICES ASSUME NEW d \in Deliveries \ (manual \cup struck) PROVE Single(d)'
    BY <1>0 DEF SingleOK
  <2>1. Single(d)
    BY DEF DeliveryInv, SingleOK
  <2> QED
    BY <1>0, <1>4, <1>8, <2>1 DEF Single
<1>14. /\ \A d : Queued(d)' <=> Queued(d)
       /\ \A d : Working(d)' => Working(d)
       /\ \A d : d # d0 => (Working(d)' <=> Working(d))
       /\ q = "recorded" => Working(d0)'
  BY <1>0, <1>4 DEF Queued, Working, At
<1>15. NoSilentLoss'
  <2> SUFFICES ASSUME NEW d \in accepted \ (throttled \cup struck), Live(d[1])
               PROVE  \/ Queued(d)' \/ Working(d)'
                      \/ \E r \in log'[d] : IsFinal(r)
                      \/ Cardinality(log'[d]) > MaxRetries
    BY <1>0 DEF NoSilentLoss, EndpointOf, Live
  <2>1. \/ Queued(d) \/ Working(d)
        \/ \E r \in log[d] : IsFinal(r)
        \/ Cardinality(log[d]) > MaxRetries
    BY DEF DeliveryInv, NoSilentLoss, EndpointOf
  <2>2. d \in Deliveries
    BY <1>1, AcceptedAreDeliveries
  <2>3. CASE d # d0
    BY <1>6, <1>14, <2>1, <2>2, <2>3
  <2>4. CASE d = d0 /\ q = "settled"
    BY <1>3, <1>5, <1>6, <2>2, <2>4 DEF IsFinal
  <2> QED
    BY <1>3, <1>4, <1>14, <2>3, <2>4
<1>16. ReceiptsAreLogged'
  <2> SUFFICES ASSUME NEW d \in Deliveries \ struck, Live(d[1]), NEW id \in seen[d]
               PROVE  \/ \E r \in log'[d] : r.id = id
                      \/ \E u \in Workers : /\ worker'[u].pc = "answered"
                                            /\ worker'[u].d = d /\ worker'[u].id = id
    BY <1>0 DEF ReceiptsAreLogged, EndpointOf, Live, At
  <2>1. \/ \E r \in log[d] : r.id = id
        \/ \E u \in Workers : /\ worker[u].pc = "answered"
                              /\ worker[u].d = d /\ worker[u].id = id
    BY DEF DeliveryInv, ReceiptsAreLogged, EndpointOf, At
  <2>2. log[d] \subseteq log'[d]
    BY <1>6
  <2>3. ASSUME NEW u \in Workers, worker[u].pc = "answered", worker[u].d = d,
               worker[u].id = id
        PROVE  \/ \E r \in log'[d] : r.id = id
               \/ worker'[u] = worker[u]
    BY <1>4, <1>5, <1>6, <2>3
  <2> QED
    BY <2>1, <2>2, <2>3
<1>17. AnsweredIsOver'
  <2> SUFFICES ASSUME NEW d \in Deliveries \ (manual \cup struck), NEW r \in log'[d],
                      IsFinal(r)
               PROVE  ~Queued(d)' /\ ~Working(d)' /\ r.id = attempts[d]
    BY <1>0 DEF AnsweredIsOver
  <2>1. CASE r \in log[d]
    BY <1>14, <2>1 DEF DeliveryInv, AnsweredIsOver
  <2>2. CASE r \notin log[d]
    <3>1. d = d0 /\ r = r0
      BY <1>6, <2>2
    <3>2. q = "settled"
      BY <1>0, <1>3, <1>5, <3>1 DEF IsFinal, Retryable, q
    <3>3. Busy(w) /\ HasRow(w)
      BY <1>0 DEF Busy, HasRow
    <3>4. Single(d0)
      BY <3>1 DEF DeliveryInv, SingleOK
    <3>5. i = attempts[d0] /\ \A u \in Workers \ {w} : Busy(u) => worker[u].d # d0
      BY <3>3, <3>4 DEF Single
    <3>6. \A n \in Retries : ~(queue[<<d0, n>>] > 0)
      BY <3>3, <3>4 DEF Single
    <3>7. \A u \in Workers : worker[u].d = d0 => ~At(u, "idle")
      BY <1>1, DeliveryParts DEF TypeOK
    <3>8. ~Working(d0)'
      BY <1>4, <3>2, <3>5, <3>7 DEF Working, At, Busy
    <3>9. ~Queued(d0)'
      BY <1>0, <1>4, <3>6 DEF Queued
    <3> QED
      BY <1>4, <1>5, <3>1, <3>5, <3>8, <3>9
  <2> QED
    BY <2>1, <2>2
<1>18. PaceOK'
  <2>1. \A u \in Workers : worker'[u].pc \in {"admitted", "posting"} =>
           worker[u].pc \in {"admitted", "posting"} /\ worker'[u].d = worker[u].d
    BY <1>3, <1>4
  <2> QED
    BY <1>0, <1>1, <1>7, <2>1, PaceKept DEF DeliveryInv, TypeOK
<1> QED
  BY <1>7, <1>9, <1>10, <1>12, <1>13, <1>15, <1>16, <1>17, <1>18 DEF DeliveryInv

LEMMA RetryStep ==
  ASSUME DeliveryInv, NEW w \in Workers, Retry(w)
  PROVE  DeliveryInv'
<1>0. /\ worker[w].pc = "recorded" /\ Goto(w, "settled")
      /\ UNCHANGED <<endpoint, emitting, emitted, attempts, log, seen, minute, admitted,
                     sent, accepted, throttled, manual, crashes, faults, struck>>
  BY DEF Retry, sourceVars, rowVars, clockVars, faultVars, At
<1>1. /\ TypeOK /\ worker[w].d \in Deliveries /\ worker[w].d[1] \in Endpoints
      /\ worker[w].n \in Retries
  BY <1>0, BusyDelivery DEF DeliveryInv, At
<1>2. /\ worker' \in [Workers -> WorkerState]
      /\ worker'[w].pc = "settled" /\ worker'[w].d = worker[w].d
      /\ worker'[w].n = worker[w].n /\ worker'[w].id = worker[w].id
      /\ \A u \in Workers \ {w} : worker'[u] = worker[u]
      /\ \A u \in Workers : worker'[u].pc = "idle" <=> worker'[u].d = None
  BY <1>0, <1>1, GotoForm DEF WorkerPC, At
<1>3. ASSUME TypeOK' PROVE PaceOK'
  <2>1. \A u \in Workers : worker'[u].pc \in {"admitted", "posting"} =>
           worker[u].pc \in {"admitted", "posting"} /\ worker'[u].d = worker[u].d
    BY <1>2
  <2> QED
    BY <1>0, <1>1, <1>3, <2>1, PaceKept DEF DeliveryInv, TypeOK
<1>4. CASE UNCHANGED queue /\ (worker[w].n >= MaxRetries \/ ~Live(worker[w].d[1]))
  <2>1. /\ admitted' \in [Endpoints -> Nat] /\ faults' \in 0..MaxFaults
        /\ throttled' \subseteq Deliveries /\ struck' \subseteq Deliveries
    BY <1>0, <1>1 DEF TypeOK
  <2>2. \/ worker[w].d \in struck'
        \/ ~Live(worker[w].d[1])
        \/ Cardinality(log[worker[w].d]) > MaxRetries
    <3>1. Cardinality(log[worker[w].d]) \in Nat /\ worker[w].n \in Nat
      BY <1>1, DeliveryParts, FS_CardinalityType DEF DeliveryInv, BudgetOK
    <3>2. \/ worker[w].d \in struck
          \/ ~Live(worker[w].d[1])
          \/ worker[w].n < Cardinality(log[worker[w].d])
      BY <1>0, <1>1 DEF DeliveryInv, BudgetOK, At
    <3> QED
      BY <1>0, <1>4, <3>1, <3>2, Bounds
  <2> QED
    BY <1>0, <1>3, <1>4, <2>1, <2>2, GotoStep DEF At
<1>5. CASE worker[w].n < MaxRetries /\ Publish(worker[w].d, worker[w].n + 1)
  <2>0. PICK d0 \in Deliveries, n1 \in Retries :
          /\ d0 = worker[w].d /\ n1 = worker[w].n + 1 /\ Publish(d0, n1)
    <3>1. worker[w].n + 1 \in Retries
      BY <1>1, <1>5, Bounds DEF Retries
    <3> QED
      BY <1>1, <1>5, <3>1
  <2>1. /\ queue' \in [Deliveries \X Retries -> Nat]
        /\ queue'[<<d0, n1>>] = queue[<<d0, n1>>] + 1
        /\ \A c \in Deliveries, m \in Retries :
              c # d0 \/ m # n1 => queue'[<<c, m>>] = queue[<<c, m>>]
        /\ queue[<<d0, n1>>] \in Nat
        /\ \A c \in Deliveries, m \in Retries :
              queue[<<c, m>>] > 0 => queue'[<<c, m>>] > 0
    <3>1. /\ queue' \in [Deliveries \X Retries -> Nat]
          /\ queue'[<<d0, n1>>] = queue[<<d0, n1>>] + 1
          /\ \A c \in Deliveries, m \in Retries :
                c # d0 \/ m # n1 => queue'[<<c, m>>] = queue[<<c, m>>]
      BY <1>1, <2>0, PublishForm
    <3>2. queue[<<d0, n1>>] \in Nat
      BY <1>1 DEF TypeOK
    <3> QED
      BY <3>1, <3>2
  <2>2. \A u \in Workers : /\ worker'[u].d = worker[u].d /\ worker'[u].n = worker[u].n
                           /\ Busy(u)' => u # w /\ Busy(u)
                           /\ HasRow(u)' => u # w /\ HasRow(u)
                           /\ At(u, "recorded")' => u # w /\ At(u, "recorded")
                           /\ At(u, "answered")' <=> At(u, "answered")
    BY <1>0, <1>2 DEF Busy, HasRow, At
  <2>3. TypeOK'
    BY <1>0, <1>1, <1>2, <2>1 DEF TypeOK, At
  <2>4. KnownOK'
    <3>1. endpoint[d0[1]] # "new"
      BY <2>0 DEF DeliveryInv, KnownOK
    <3> QED
      BY <1>0, <2>1, <2>2, <3>1 DEF DeliveryInv, KnownOK
  <2>5. RowsOK'
    BY <1>0, <1>2, <2>2 DEF DeliveryInv, RowsOK, HasRow
  <2>6. BudgetOK'
    <3> SUFFICES ASSUME NEW d \in Deliveries, d \notin struck, Live(d[1])
                 PROVE  \A n \in Retries : queue'[<<d, n>>] > 0 => n <= Cardinality(log[d])
      BY <1>0, <2>2 DEF DeliveryInv, BudgetOK, Live
    <3>1. Cardinality(log[d]) \in Nat /\ worker[w].n \in Nat
      BY <1>1, DeliveryParts, FS_CardinalityType DEF DeliveryInv, BudgetOK
    <3>2. d = d0 => worker[w].n < Cardinality(log[d])
      BY <1>0, <2>0 DEF DeliveryInv, BudgetOK, At
    <3>3. \A n \in Retries : queue[<<d, n>>] > 0 => n <= Cardinality(log[d])
      BY DEF DeliveryInv, BudgetOK
    <3>4. d = d0 => n1 <= Cardinality(log[d])
      BY <2>0, <3>1, <3>2
    <3> QED
      BY <2>1, <3>3, <3>4
  <2>7. SingleOK'
    <3> SUFFICES ASSUME NEW d \in Deliveries \ (manual \cup struck) PROVE Single(d)'
      BY <1>0 DEF SingleOK
    <3>1. Single(d)
      BY DEF DeliveryInv, SingleOK
    <3>2. CASE d = d0
      <4>1. Busy(w) /\ worker[w].d = d
        BY <1>0, <2>0, <3>2 DEF Busy
      <4>2. /\ \A n \in Retries : queue[<<d, n>>] = 0
            /\ \A u \in Workers \ {w} : Busy(u) => worker[u].d # d
            /\ ~(d[2] \notin emitted \/ d[1] \in emitting[d[2]])
        <5>1. \A n \in Retries : queue[<<d, n>>] \in Nat
          BY <1>1 DEF TypeOK
        <5> QED
          BY <3>1, <4>1, <5>1 DEF Single
      <4>3. \A n \in Retries : queue'[<<d, n>>] = IF n = n1 THEN 1 ELSE 0
        BY <2>1, <3>2, <4>2
      <4>4. \A u \in Workers : Busy(u)' => worker'[u].d # d
        BY <2>2, <4>2
      <4> QED
        BY <1>0, <4>2, <4>3, <4>4 DEF Single
    <3>3. CASE d # d0
      <4>1. \A n \in Retries : queue'[<<d, n>>] = queue[<<d, n>>]
        BY <2>1, <3>3
      <4> QED
        BY <1>0, <1>2, <2>2, <3>1, <4>1 DEF Single
    <3> QED
      BY <3>2, <3>3
  <2>8. /\ \A d \in Deliveries : Queued(d) => Queued(d)'
        /\ Queued(d0)'
        /\ \A d \in Deliveries \ {d0} : (Queued(d)' => Queued(d)) /\ (Working(d) => Working(d)')
        /\ \A d : Working(d)' => Working(d)
    <3>1. \A d \in Deliveries : Queued(d) => Queued(d)'
      BY <2>1 DEF Queued
    <3>2. Queued(d0)'
      BY <2>1 DEF Queued
    <3>3. \A d \in Deliveries \ {d0} : Queued(d)' => Queued(d)
      BY <2>1 DEF Queued
    <3>4. \A d \in Deliveries \ {d0} : Working(d) => Working(d)'
      BY <1>2, <2>0 DEF Working, At
    <3>5. \A d : Working(d)' => Working(d)
      BY <1>2 DEF Working, At
    <3> QED
      BY <3>1, <3>2, <3>3, <3>4, <3>5
  <2>9. NoSilentLoss'
    <3> SUFFICES ASSUME NEW d \in accepted \ (throttled \cup struck), Live(d[1])
                 PROVE  \/ Queued(d)' \/ Working(d)'
                        \/ \E r \in log[d] : IsFinal(r)
                        \/ Cardinality(log[d]) > MaxRetries
      BY <1>0 DEF NoSilentLoss, EndpointOf, Live
    <3>1. \/ Queued(d) \/ Working(d)
          \/ \E r \in log[d] : IsFinal(r)
          \/ Cardinality(log[d]) > MaxRetries
      BY DEF DeliveryInv, NoSilentLoss, EndpointOf
    <3>2. d \in Deliveries
      BY <1>1, AcceptedAreDeliveries
    <3> QED
      BY <2>8, <3>1, <3>2
  <2>10. ReceiptsAreLogged'
    <3>1. \A u \in Workers : At(u, "answered") => worker'[u] = worker[u]
      BY <1>0, <1>2 DEF At
    <3> QED
      BY <1>0, <2>2, <3>1 DEF DeliveryInv, ReceiptsAreLogged, EndpointOf, Live
  <2>11. AnsweredIsOver'
    <3>1. Working(d0)
      BY <1>0, <2>0 DEF Working, At
    <3> QED
      BY <1>0, <2>8, <3>1 DEF DeliveryInv, AnsweredIsOver
  <2> QED
    BY <1>3, <2>3, <2>4, <2>5, <2>6, <2>7, <2>9, <2>10, <2>11 DEF DeliveryInv
<1>6. \/ UNCHANGED queue /\ (worker[w].n >= MaxRetries \/ ~Live(worker[w].d[1]))
      \/ worker[w].n < MaxRetries /\ Publish(worker[w].d, worker[w].n + 1)
  <2>1. worker[w].n \in Nat
    BY <1>1, DeliveryParts
  <2> QED
    BY <2>1, Bounds DEF Retry, EndpointOf, NextTry
<1> QED
  BY <1>4, <1>5, <1>6

\* A worker lets go of its task: acknowledged, or lost with the process.
LEMMA IdleStep ==
  ASSUME DeliveryInv, NEW w \in Workers, ~At(w, "idle"),
         worker' = [worker EXCEPT ![w] = Idle],
         queue' \in [Deliveries \X Retries -> Nat],
         \A c \in Deliveries, m \in Retries :
            c # worker[w].d => queue'[<<c, m>>] = queue[<<c, m>>],
         \/ At(w, "settled") /\ UNCHANGED queue
         \/ worker[w].d \in struck',
         struck \subseteq struck', struck' \subseteq Deliveries,
         crashes' \in 0..MaxCrashes,
         UNCHANGED <<endpoint, emitting, emitted, attempts, log, seen, minute, admitted,
                     sent, accepted, throttled, manual, faults>>
  PROVE  DeliveryInv'
<1>1. TypeOK /\ worker[w].d \in Deliveries
  BY BusyDelivery DEF DeliveryInv
<1>2. /\ worker' \in [Workers -> WorkerState]
      /\ worker'[w].pc = "idle" /\ worker'[w].d = None
      /\ \A u \in Workers \ {w} : worker'[u] = worker[u]
      /\ \A u \in Workers : worker'[u].pc = "idle" <=> worker'[u].d = None
  BY <1>1, IdleOK, WorkerForm
<1>3. TypeOK'
  BY <1>1, <1>2 DEF TypeOK, At
<1>4. \A u \in Workers : /\ Busy(u)' => u # w /\ Busy(u)
                         /\ HasRow(u)' => u # w /\ HasRow(u)
                         /\ At(u, "recorded")' => u # w /\ At(u, "recorded")
                         /\ At(u, "answered")' => u # w /\ At(u, "answered")
  BY <1>2 DEF Busy, HasRow, At
<1>5. KnownOK'
  <2>1. endpoint[worker[w].d[1]] # "new"
    BY <1>1 DEF DeliveryInv, KnownOK
  <2>2. \A d \in Deliveries : d # None
    BY DeliveryParts
  <2> QED
    BY <1>2, <2>1, <2>2 DEF DeliveryInv, KnownOK
<1>6. RowsOK'
  BY <1>2, <1>4 DEF DeliveryInv, RowsOK, HasRow
<1>7. \A d \in Deliveries \ struck', n \in Retries : queue'[<<d, n>>] = queue[<<d, n>>]
  OBVIOUS
<1>8. BudgetOK'
  BY <1>2, <1>4, <1>7 DEF DeliveryInv, BudgetOK, Live
<1>9. SingleOK'
  <2> SUFFICES ASSUME NEW d \in Deliveries \ (manual \cup struck') PROVE Single(d)'
    BY DEF SingleOK
  <2>1. Single(d)
    BY DEF DeliveryInv, SingleOK
  <2> QED
    BY <1>2, <1>4, <1>7, <2>1 DEF Single
<1>10. \A d \in Deliveries \ struck' :
          /\ Queued(d)' <=> Queued(d)
          /\ Working(d)' <=> Working(d)
  <2> SUFFICES ASSUME NEW d \in Deliveries \ struck'
               PROVE  (Queued(d)' <=> Queued(d)) /\ (Working(d)' <=> Working(d))
    OBVIOUS
  <2>1. Queued(d)' <=> Queued(d)
    BY <1>7 DEF Queued
  <2>2. worker[w].d = d => At(w, "settled")
    OBVIOUS
  <2>3. d # None
    BY DeliveryParts
  <2>4. Working(d)' <=> Working(d)
    BY <1>2, <2>2, <2>3 DEF Working, At
  <2> QED
    BY <2>1, <2>4
<1>11. NoSilentLoss' /\ AnsweredIsOver'
  BY <1>1, <1>10, AcceptedAreDeliveries
  DEF DeliveryInv, NoSilentLoss, AnsweredIsOver, EndpointOf, Live
<1>12. ReceiptsAreLogged'
  <2>1. \A u \in Workers : At(u, "answered") /\ worker[u].d \notin struck' =>
            worker'[u] = worker[u]
    BY <1>2 DEF At
  <2> QED
    BY <2>1 DEF DeliveryInv, ReceiptsAreLogged, EndpointOf, Live, At
<1>13. PaceOK'
  <2>1. \A u \in Workers : worker'[u].pc \in {"admitted", "posting"} =>
           worker[u].pc \in {"admitted", "posting"} /\ worker'[u].d = worker[u].d
    BY <1>2
  <2> QED
    BY <1>1, <1>3, <2>1, PaceKept DEF DeliveryInv, TypeOK
<1> QED
  BY <1>3, <1>5, <1>6, <1>8, <1>9, <1>11, <1>12, <1>13 DEF DeliveryInv

LEMMA LettingGoStep ==
  ASSUME DeliveryInv, NEW w \in Workers, Acknowledge(w) \/ LoseProcess(w) \/ LoseWorker(w)
  PROVE  DeliveryInv'
<1>0. TypeOK /\ crashes \in 0..MaxCrashes /\ struck \subseteq Deliveries
      /\ queue \in [Deliveries \X Retries -> Nat]
  BY DEF DeliveryInv, TypeOK
<1>1. CASE Acknowledge(w)
  <2>1. /\ At(w, "settled") /\ ~At(w, "idle")
        /\ worker' = [worker EXCEPT ![w] = Idle]
        /\ UNCHANGED <<endpoint, emitting, emitted, queue, attempts, log, seen, minute,
                       admitted, sent, accepted, throttled, manual, crashes, faults, struck>>
    BY <1>1 DEF Acknowledge, sourceVars, rowVars, clockVars, faultVars, At
  <2> QED
    BY <1>0, <2>1, IdleStep
<1>2. CASE Crash(w) /\ (UNCHANGED queue \/ Publish(worker[w].d, worker[w].n))
  <2>1. /\ ~At(w, "idle")
        /\ crashes < MaxCrashes /\ crashes' = crashes + 1
        /\ struck' = struck \cup {worker[w].d}
        /\ worker' = [worker EXCEPT ![w] = Idle]
        /\ UNCHANGED <<endpoint, emitting, emitted, attempts, log, seen, minute, admitted,
                       sent, accepted, throttled, manual, faults>>
    BY <1>2 DEF Crash, sourceVars, rowVars, clockVars
  <2>2. worker[w].d \in Deliveries /\ worker[w].n \in Retries
    BY <1>0, <2>1, BusyDelivery
  <2>3. /\ queue' \in [Deliveries \X Retries -> Nat]
        /\ \A c \in Deliveries, m \in Retries :
              c # worker[w].d => queue'[<<c, m>>] = queue[<<c, m>>]
    <3>1. CASE UNCHANGED queue
      BY <1>0, <3>1
    <3>2. CASE Publish(worker[w].d, worker[w].n)
      BY <1>0, <2>2, <3>2, PublishForm
    <3> QED
      BY <1>2, <3>1, <3>2
  <2>4. crashes' \in 0..MaxCrashes
    BY <1>0, <2>1, Bounds
  <2> QED
    BY <1>0, <2>1, <2>2, <2>3, <2>4, IdleStep
<1> QED
  BY <1>1, <1>2 DEF LoseProcess, LoseWorker

-----------------------------------------------------------------------------
(* The theorems                                                            *)

LEMMA InitDelivery == Init => DeliveryInv
<1> SUFFICES ASSUME Init PROVE DeliveryInv
  OBVIOUS
<1>1. \A w \in Workers : worker[w] = Idle /\ worker[w].pc = "idle" /\ worker[w].d = None
  BY IdleOK DEF Init
<1>2. TypeOK
  BY <1>1, IdleOK, Bounds DEF Init, TypeOK, At
<1>3. KnownOK
  BY <1>1, DeliveryParts DEF Init, KnownOK
<1>4. RowsOK
  BY <1>1 DEF RowsOK, HasRow
<1>5. BudgetOK
  <2>1. \A d \in Deliveries : IsFiniteSet(log[d])
    BY FS_EmptySet DEF Init
  <2>2. \A d \in Deliveries, n \in Retries : ~(queue[<<d, n>>] > 0)
    BY DEF Init
  <2> QED
    BY <1>1, <2>1, <2>2 DEF BudgetOK, Busy, At
<1>6. SingleOK
  <2>1. \A d \in Deliveries, n \in Retries : queue[<<d, n>>] = 0
    BY DEF Init
  <2>2. \A w \in Workers : ~Busy(w)
    BY <1>1 DEF Busy
  <2>3. \A d \in Deliveries : attempts[d] = 0
    BY DEF Init
  <2> QED
    BY <2>1, <2>2, <2>3 DEF SingleOK, Single
<1>7. PaceOK
  <2>1. \A e : InFlight(e) = {}
    BY <1>1 DEF InFlight
  <2>2. Cardinality({}) = 0
    BY FS_EmptySet
  <2>3. \A e \in Endpoints : sent[e] = 0 /\ admitted[e] = 0 /\ faults = 0
    BY DEF Init
  <2>4. \A e \in Endpoints : Quota(e) = 0
    BY <2>3, Bounds DEF Quota
  <2>5. \A e : Cardinality(InFlight(e)) = 0
    BY <2>1, <2>2
  <2> QED
    BY <2>3, <2>4, <2>5, Bounds DEF PaceOK
<1>8. NoSilentLoss /\ ReceiptsAreLogged /\ AnsweredIsOver
  BY DEF Init, NoSilentLoss, ReceiptsAreLogged, AnsweredIsOver
<1> QED
  BY <1>2, <1>3, <1>4, <1>5, <1>6, <1>7, <1>8 DEF DeliveryInv

LEMMA NextKeeps == DeliveryInv /\ [Next]_vars => DeliveryInv'
<1> SUFFICES ASSUME DeliveryInv, [Next]_vars PROVE DeliveryInv'
  OBVIOUS
<1>1. ASSUME NEW e \in Endpoints, CreateEndpoint(e) \/ DeleteEndpoint(e) \/ TestEndpoint(e)
      PROVE  DeliveryInv'
  BY <1>1, CreateEndpointStep, DeleteEndpointStep, DispatchStep, DeliveryParts
  DEF TestEndpoint
<1>2. ASSUME NEW v \in Events, Match(v) \/ EmitFails(v) PROVE DeliveryInv'
  BY <1>2, MatchStep, EmitFailsStep
<1>3. ASSUME NEW v \in Events, NEW e \in Endpoints, Enqueue(v, e) PROVE DeliveryInv'
  BY <1>3, EnqueueStep
<1>4. ASSUME NEW d \in Deliveries, Replay(d) PROVE DeliveryInv'
  BY <1>4, DispatchStep DEF Replay
<1>5. ASSUME NEW w \in Workers,
             \/ Take(w) \/ PassThrottle(w) \/ ThrottleFails(w) \/ InsertDelivery(w)
             \/ Post(w) \/ RecordAttempt(w) \/ DatabaseFails(w) \/ Retry(w)
             \/ Acknowledge(w) \/ LoseProcess(w) \/ LoseWorker(w)
      PROVE  DeliveryInv'
  BY <1>5, TakeStep, PassThrottleStep, ThrottleFailsStep, InsertDeliveryStep, PostStep,
     RecordAttemptStep, DatabaseFailsStep, RetryStep, LettingGoStep
<1>6. CASE UNCHANGED vars
  <2>1. UNCHANGED <<endpoint, emitting, emitted, queue, worker, attempts, log, seen,
                    minute, admitted, sent, accepted, throttled, manual, crashes, faults,
                    struck>>
    BY <1>6 DEF vars
  <2>2. TypeOK' /\ KnownOK' /\ RowsOK' /\ BudgetOK' /\ SingleOK' /\ PaceOK'
    BY <2>1 DEF DeliveryInv, TypeOK, KnownOK, RowsOK, BudgetOK, SingleOK, Single, PaceOK,
                InFlight, Quota, HasRow, Busy, At, Live
  <2>3. NoSilentLoss' /\ ReceiptsAreLogged' /\ AnsweredIsOver'
    BY <2>1, SameWork DEF DeliveryInv, NoSilentLoss, ReceiptsAreLogged, AnsweredIsOver,
                          At, EndpointOf, Live
  <2> QED
    BY <2>2, <2>3 DEF DeliveryInv
<1> QED
  BY <1>1, <1>2, <1>3, <1>4, <1>5, <1>6, NextMinuteStep DEF Next

\* The strengthening that makes the properties inductive: one task for a delivery,
\* one id for an attempt, one record for a retry.
THEOREM DeliveryInvariant == Spec => []DeliveryInv
BY InitDelivery, NextKeeps, PTL DEF Spec

\* Type correctness, whatever the number of endpoints, events and workers.
THEOREM TypeCorrect == Spec => []TypeOK
<1>1. DeliveryInv => TypeOK
  BY DEF DeliveryInv
<1> QED
  BY <1>1, DeliveryInvariant, PTL

\* However endpoints come and go and workers die, a delivery that was enqueued is
\* under way, answered, or out of retries with every attempt on record.
THEOREM NothingVanishes == Spec => []NoSilentLoss
<1>1. DeliveryInv => NoSilentLoss
  BY DEF DeliveryInv
<1> QED
  BY <1>1, DeliveryInvariant, PTL

\* What a receiver got is in the log, also when it answered too late or not at all.
THEOREM ReceiptsLogged == Spec => []ReceiptsAreLogged
<1>1. DeliveryInv => ReceiptsAreLogged
  BY DEF DeliveryInv
<1> QED
  BY <1>1, DeliveryInvariant, PTL

\* An answered delivery is not sent again, for any number of retries and workers.
THEOREM OverWhenAnswered == Spec => []AnsweredIsOver
<1>1. DeliveryInv => AnsweredIsOver
  BY DEF DeliveryInv
<1> QED
  BY <1>1, DeliveryInvariant, PTL

\* The throttle's bound, for any limit and any number of workers and minutes.
THEOREM Paced == Spec => []PacedPosts
<1>1. DeliveryInv => PacedPosts
  <2> SUFFICES ASSUME DeliveryInv, NEW e \in Endpoints
               PROVE  sent[e] <= MinuteLimit + Cardinality(Workers) + faults
    BY DEF PacedPosts
  <2>1. sent[e] + Cardinality(InFlight(e)) <= Quota(e) + Cardinality(Workers) + faults
    BY DEF DeliveryInv, PaceOK
  <2>2. /\ sent[e] \in Nat /\ admitted[e] \in Nat /\ faults \in Nat
        /\ Cardinality(InFlight(e)) \in Nat
    BY Bounds, InFlightFinite DEF DeliveryInv, TypeOK
  <2>3. Quota(e) <= MinuteLimit /\ Quota(e) \in Nat
    BY <2>2, Bounds DEF Quota
  <2> QED
    BY <2>1, <2>2, <2>3, Bounds
<1> QED
  BY <1>1, DeliveryInvariant, PTL

-----------------------------------------------------------------------------
(* The number of attempts                                                  *)

Before(w)  == worker[w].pc \in {"taken", "admitted"}
Counted(w) == worker[w].pc \in {"posting", "answered", "recorded"}

\* The retry count of a delivery's task tells how many attempts came before it.
Tried(d) ==
    /\ attempts[d] <= MaxRetries + 1
    /\ \A n \in Retries : queue[<<d, n>>] > 0 => attempts[d] <= n
    /\ \A w \in Workers : worker[w].d = d =>
         /\ Before(w) => attempts[d] <= worker[w].n
         /\ Counted(w) => attempts[d] <= worker[w].n + 1
TriesOK == \A d \in Deliveries \ (manual \cup struck) : Tried(d)

\* A step that makes no attempt, and adds no message and takes no task further.
LEMMA TriedStays ==
  ASSUME NEW d, Tried(d), attempts'[d] = attempts[d],
         \A n \in Retries : queue'[<<d, n>>] > 0 => attempts[d] <= n,
         \A w \in Workers : worker'[w].d = d =>
           /\ Before(w)' => Before(w) /\ worker[w].d = d /\ worker'[w].n = worker[w].n
           /\ Counted(w)' => Counted(w) /\ worker[w].d = d /\ worker'[w].n = worker[w].n
  PROVE  Tried(d)'
BY DEF Tried

\* Where events and messages come from: a first message finds no attempt made.
LEMMA TriesFromOutside ==
  ASSUME DeliveryInv, TriesOK, UNCHANGED <<worker, attempts>>,
         manual \subseteq manual', struck \subseteq struck',
         \A d \in Deliveries \ (manual' \cup struck'), n \in Retries :
             \/ queue'[<<d, n>>] = queue[<<d, n>>]
             \/ attempts[d] = 0
  PROVE  TriesOK'
<1> SUFFICES ASSUME NEW d \in Deliveries \ (manual' \cup struck') PROVE Tried(d)'
  BY DEF TriesOK
<1>1. Tried(d)
  BY DEF TriesOK
<1>2. \A n \in Retries : queue'[<<d, n>>] > 0 => attempts[d] <= n
  BY <1>1, DeliveryParts DEF Tried, Retries
<1> QED
  BY <1>1, <1>2, TriedStays DEF Before, Counted

\* A worker moves on, or drops its task, without inserting a row or a message.
LEMMA TriesOfWorker ==
  ASSUME DeliveryInv, TriesOK, NEW w \in Workers, UNCHANGED attempts,
         manual \subseteq manual', struck \subseteq struck',
         \A u \in Workers \ {w} : worker'[u] = worker[u],
         \/ worker'[w].pc \in {"idle", "settled"}
         \/ /\ worker'[w].d = worker[w].d /\ worker'[w].n = worker[w].n
            /\ Before(w)' => Before(w)
            /\ Counted(w)' => Counted(w),
         \A d \in Deliveries \ (manual' \cup struck'), n \in Retries :
             queue'[<<d, n>>] > 0 => queue[<<d, n>>] > 0
  PROVE  TriesOK'
<1> SUFFICES ASSUME NEW d \in Deliveries \ (manual' \cup struck') PROVE Tried(d)'
  BY DEF TriesOK
<1>1. Tried(d)
  BY DEF TriesOK
<1>2. \A n \in Retries : queue'[<<d, n>>] > 0 => attempts[d] <= n
  BY <1>1 DEF Tried
<1>3. \A u \in Workers : worker'[u].d = d =>
        /\ Before(u)' => Before(u) /\ worker[u].d = d /\ worker'[u].n = worker[u].n
        /\ Counted(u)' => Counted(u) /\ worker[u].d = d /\ worker'[u].n = worker[u].n
  BY DEF Before, Counted
<1> QED
  BY <1>1, <1>2, <1>3, TriedStays

\* A worker's step changes that worker only.
LEMMA OneWorkerMoves ==
  ASSUME TypeOK, NEW w \in Workers, ~At(w, "idle"), NEW pc \in WorkerPC \ {"idle"},
         Goto(w, pc)
  PROVE  /\ worker'[w].pc = pc /\ worker'[w].d = worker[w].d
         /\ worker'[w].n = worker[w].n
         /\ \A u \in Workers \ {w} : worker'[u] = worker[u]
BY GotoForm

\* The message a worker takes over hands it the count.
LEMMA TakeTries ==
  ASSUME DeliveryInv, TriesOK, NEW w \in Workers, Take(w)
  PROVE  TriesOK'
<1>0. PICK d0 \in Deliveries, n0 \in Retries :
        /\ queue[<<d0, n0>>] > 0
        /\ queue' = [queue EXCEPT ![<<d0, n0>>] = @ - 1]
        /\ worker' = [worker EXCEPT ![w] = [Idle EXCEPT !.pc = "taken", !.d = d0, !.n = n0]]
  BY DEF Take, Available
<1>1. TypeOK /\ UNCHANGED <<attempts, manual, struck>>
  BY DEF Take, DeliveryInv, sourceVars, rowVars, faultVars
<1>2. /\ worker'[w].pc = "taken" /\ worker'[w].d = d0 /\ worker'[w].n = n0
      /\ \A u \in Workers \ {w} : worker'[u] = worker[u]
  BY <1>0, <1>1 DEF TypeOK, Idle
<1>3. \A d \in Deliveries, n \in Retries : queue'[<<d, n>>] > 0 => queue[<<d, n>>] > 0
  BY <1>0, <1>1 DEF TypeOK
<1> SUFFICES ASSUME NEW d \in Deliveries \ (manual \cup struck) PROVE Tried(d)'
  BY <1>1 DEF TriesOK
<1>4. Tried(d)
  BY DEF TriesOK
<1>5. d = d0 => attempts[d] <= n0
  BY <1>0, <1>4 DEF Tried
<1>6. \A u \in Workers : worker'[u].d = d =>
        /\ Before(u)' => attempts[d] <= worker'[u].n
        /\ Counted(u)' => attempts[d] <= worker'[u].n + 1
  BY <1>2, <1>4, <1>5 DEF Tried, Before, Counted
<1> QED
  BY <1>1, <1>3, <1>4, <1>6 DEF Tried

\* The row a worker inserts is the only one its message stands for.
LEMMA InsertTries ==
  ASSUME DeliveryInv, TriesOK, NEW w \in Workers, InsertDelivery(w)
  PROVE  TriesOK'
<1>0. /\ worker[w].pc = "admitted" /\ ~At(w, "idle")
      /\ UNCHANGED <<queue, manual, struck>>
  BY DEF InsertDelivery, sourceVars, faultVars, At
<1>1. /\ TypeOK /\ worker[w].d \in Deliveries /\ worker[w].n \in Retries
      /\ worker[w] \in WorkerState
  BY <1>0, BusyDelivery DEF DeliveryInv
<1>2. CASE ~Live(worker[w].d[1])
  <2>1. Goto(w, "settled") /\ UNCHANGED attempts
    BY <1>2 DEF InsertDelivery, EndpointOf
  <2>2. worker'[w].pc = "settled" /\ \A u \in Workers \ {w} : worker'[u] = worker[u]
    BY <1>0, <1>1, <2>1, OneWorkerMoves DEF WorkerPC
  <2> QED
    BY <1>0, <2>1, <2>2, TriesOfWorker
<1>3. CASE Live(worker[w].d[1])
  <2> DEFINE d0 == worker[w].d
  <2>1. /\ attempts' = [attempts EXCEPT ![d0] = @ + 1]
        /\ worker' = [worker EXCEPT ![w] = [@ EXCEPT !.pc = "posting", !.id = attempts'[d0]]]
    BY <1>3 DEF InsertDelivery, EndpointOf
  <2>2. /\ worker'[w].pc = "posting" /\ worker'[w].d = d0 /\ worker'[w].n = worker[w].n
        /\ \A u \in Workers \ {w} : worker'[u] = worker[u]
    BY <1>1, <2>1 DEF TypeOK, WorkerState
  <2>3. /\ attempts'[d0] = attempts[d0] + 1 /\ attempts[d0] \in Nat
        /\ \A d \in Deliveries \ {d0} : attempts'[d] = attempts[d]
    BY <1>1, <2>1 DEF TypeOK
  <2> HIDE DEF d0
  <2> SUFFICES ASSUME NEW d \in Deliveries \ (manual \cup struck) PROVE Tried(d)'
    BY <1>0 DEF TriesOK
  <2>4. Tried(d) /\ Single(d)
    BY DEF TriesOK, DeliveryInv, SingleOK
  <2>5. CASE d # d0
    BY <1>0, <2>2, <2>3, <2>4, <2>5 DEF Tried, Before, Counted
  <2>6. CASE d = d0
    <3>1. Busy(w) /\ worker[w].d = d
      BY <1>0, <2>6 DEF Busy, d0
    <3>2. /\ \A n \in Retries : ~(queue[<<d, n>>] > 0)
          /\ \A u \in Workers \ {w} : Busy(u) => worker[u].d # d
      BY <2>4, <3>1 DEF Single
    <3>3. attempts[d] <= worker[w].n /\ worker[w].n \in 0..MaxRetries
      BY <1>0, <1>1, <2>4, <3>1 DEF Tried, Before, Retries
    <3>4. attempts'[d] <= worker'[w].n + 1 /\ attempts'[d] <= MaxRetries + 1
      BY <2>2, <2>3, <2>6, <3>3, Bounds
    <3>5. \A u \in Workers \ {w} : Before(u)' \/ Counted(u)' => worker'[u].d # d
      BY <2>2, <3>2 DEF Before, Counted, Busy
    <3>6. ~Before(w)'
      BY <2>2 DEF Before
    <3> QED
      BY <1>0, <3>2, <3>4, <3>5, <3>6 DEF Tried
  <2> QED
    BY <2>5, <2>6
<1> QED
  BY <1>2, <1>3

\* The next message counts one more.
LEMMA RetryTries ==
  ASSUME DeliveryInv, TriesOK, NEW w \in Workers, Retry(w)
  PROVE  TriesOK'
<1>0. /\ worker[w].pc = "recorded" /\ ~At(w, "idle") /\ Goto(w, "settled")
      /\ UNCHANGED <<attempts, manual, struck>>
  BY DEF Retry, sourceVars, rowVars, faultVars, At
<1>1. TypeOK /\ worker[w].d \in Deliveries /\ worker[w].n \in Retries
  BY <1>0, BusyDelivery DEF DeliveryInv
<1>2. worker'[w].pc = "settled" /\ \A u \in Workers \ {w} : worker'[u] = worker[u]
  BY <1>0, <1>1, OneWorkerMoves DEF WorkerPC
<1>3. CASE UNCHANGED queue
  BY <1>0, <1>2, <1>3, TriesOfWorker
<1>4. CASE worker[w].n < MaxRetries /\ Publish(worker[w].d, worker[w].n + 1)
  <2>1. PICK d0 \in Deliveries, n1 \in Retries :
          /\ d0 = worker[w].d /\ n1 = worker[w].n + 1 /\ Publish(d0, n1)
    <3>1. worker[w].n + 1 \in Retries
      BY <1>1, <1>4, Bounds DEF Retries
    <3> QED
      BY <1>1, <1>4, <3>1
  <2>2. \A c \in Deliveries, m \in Retries :
           c # d0 \/ m # n1 => queue'[<<c, m>>] = queue[<<c, m>>]
    BY <1>1, <2>1, PublishForm
  <2> SUFFICES ASSUME NEW d \in Deliveries \ (manual \cup struck) PROVE Tried(d)'
    BY <1>0 DEF TriesOK
  <2>3. Tried(d)
    BY DEF TriesOK
  <2>4. d = d0 => attempts[d] <= n1
    BY <1>0, <2>1, <2>3 DEF Tried, Counted
  <2>5. \A n \in Retries : queue'[<<d, n>>] > 0 => attempts[d] <= n
    BY <2>2, <2>3, <2>4 DEF Tried
  <2>6. \A u \in Workers : worker'[u].d = d =>
          /\ Before(u)' => Before(u) /\ worker[u].d = d /\ worker'[u].n = worker[u].n
          /\ Counted(u)' => Counted(u) /\ worker[u].d = d /\ worker'[u].n = worker[u].n
    BY <1>2 DEF Before, Counted
  <2> QED
    BY <1>0, <2>3, <2>5, <2>6, TriedStays
<1> QED
  BY <1>3, <1>4 DEF Retry, NextTry

\* The steps of a task that make no attempt.
LEMMA OtherTaskTries ==
  ASSUME DeliveryInv, TriesOK, NEW w \in Workers,
         \/ PassThrottle(w) \/ ThrottleFails(w) \/ Post(w) \/ RecordAttempt(w)
         \/ DatabaseFails(w) \/ Acknowledge(w) \/ LoseProcess(w) \/ LoseWorker(w)
  PROVE  TriesOK'
<1>0. TypeOK /\ ~At(w, "idle") /\ UNCHANGED <<attempts, manual>> /\ struck \subseteq struck'
  BY DEF DeliveryInv, PassThrottle, ThrottleFails, Post, RecordAttempt, DatabaseFails,
         Acknowledge, LoseProcess, LoseWorker, Crash, Fault, sourceVars, rowVars,
         faultVars, At
<1>1. CASE PassThrottle(w) \/ ThrottleFails(w) \/ RecordAttempt(w) \/ DatabaseFails(w)
  <2>1. PICK pc \in {"admitted", "recorded", "settled"} :
          /\ Goto(w, pc) /\ UNCHANGED queue
          /\ pc = "admitted" => worker[w].pc = "taken"
          /\ pc = "recorded" => worker[w].pc = "answered"
    BY <1>1 DEF PassThrottle, ThrottleFails, RecordAttempt, DatabaseFails, At
  <2>2. /\ worker'[w].pc = pc /\ worker'[w].d = worker[w].d /\ worker'[w].n = worker[w].n
        /\ \A u \in Workers \ {w} : worker'[u] = worker[u]
    BY <1>0, <2>1, OneWorkerMoves DEF WorkerPC
  <2> QED
    BY <1>0, <2>1, <2>2, TriesOfWorker DEF Before, Counted
<1>2. CASE Post(w)
  <2>1. worker[w].pc = "posting" /\ UNCHANGED queue
    BY <1>2 DEF Post, At
  <2>2. PICK a \in Answers :
          worker' = [worker EXCEPT ![w] = [@ EXCEPT !.pc = "answered", !.answer = a]]
    BY <1>2 DEF Post
  <2>3. /\ worker'[w].pc = "answered" /\ worker'[w].d = worker[w].d
        /\ worker'[w].n = worker[w].n
        /\ \A u \in Workers \ {w} : worker'[u] = worker[u]
    BY <1>0, <2>2 DEF TypeOK, WorkerState
  <2> QED
    BY <1>0, <2>1, <2>3, TriesOfWorker DEF Before, Counted
<1>3. CASE Acknowledge(w) \/ LoseProcess(w) \/ LoseWorker(w)
  <2>1. worker' = [worker EXCEPT ![w] = Idle]
    BY <1>3 DEF Acknowledge, LoseProcess, LoseWorker, Crash
  <2>2. worker'[w].pc = "idle" /\ \A u \in Workers \ {w} : worker'[u] = worker[u]
    BY <1>0, <2>1, IdleOK DEF TypeOK
  <2>3. worker[w].d \in Deliveries /\ worker[w].n \in Retries
    BY <1>0, BusyDelivery
  <2>4. \A d \in Deliveries \ struck', n \in Retries : queue'[<<d, n>>] = queue[<<d, n>>]
    <3>1. CASE UNCHANGED queue
      BY <3>1
    <3>2. CASE Publish(worker[w].d, worker[w].n) /\ struck' = struck \cup {worker[w].d}
      <4>1. \A d \in Deliveries, n \in Retries :
               d # worker[w].d => queue'[<<d, n>>] = queue[<<d, n>>]
        BY <1>0, <2>3, <3>2, PublishForm
      <4> QED
        BY <3>2, <4>1
    <3> QED
      BY <1>3, <3>1, <3>2 DEF Acknowledge, LoseProcess, LoseWorker, Crash
  <2> QED
    BY <1>0, <2>2, <2>4, TriesOfWorker
<1> QED
  BY <1>1, <1>2, <1>3

LEMMA NextKeepsTries == DeliveryInv /\ TriesOK /\ [Next]_vars => TriesOK'
<1> SUFFICES ASSUME DeliveryInv, TriesOK, [Next]_vars PROVE TriesOK'
  OBVIOUS
<1>0. TypeOK
  BY DEF DeliveryInv
<1>1. CASE \/ \E e \in Endpoints : CreateEndpoint(e) \/ DeleteEndpoint(e)
           \/ \E v \in Events : Match(v) \/ EmitFails(v)
           \/ NextMinute
           \/ UNCHANGED vars
  <2>1. UNCHANGED <<worker, attempts, queue, manual>> /\ struck \subseteq struck'
    BY <1>1 DEF CreateEndpoint, DeleteEndpoint, Match, EmitFails, Fault, NextMinute, vars,
                sourceVars, rowVars, faultVars
  <2> QED
    BY <2>1, TriesFromOutside
<1>2. ASSUME NEW v \in Events, NEW e \in Endpoints, Enqueue(v, e) PROVE TriesOK'
  <2>1. /\ e \in emitting[v] /\ Publish(<<e, v>>, 0)
        /\ UNCHANGED <<worker, attempts, manual, struck>>
    BY <1>2 DEF Enqueue, rowVars, faultVars
  <2>2. <<e, v>> \in Deliveries
    BY <2>1, DeliveryParts DEF DeliveryInv, KnownOK
  <2>3. \A d \in Deliveries, n \in Retries :
           d # <<e, v>> => queue'[<<d, n>>] = queue[<<d, n>>]
    <3>1. PICK d0 \in Deliveries : d0 = <<e, v>> /\ Publish(d0, 0)
      BY <2>1, <2>2
    <3>2. 0 \in Retries
      BY DeliveryParts
    <3>3. \A d \in Deliveries, n \in Retries :
             d # d0 => queue'[<<d, n>>] = queue[<<d, n>>]
      BY <1>0, <3>1, <3>2, PublishForm
    <3> QED
      BY <3>1, <3>3
  <2>4. <<e, v>> \notin manual \cup struck => attempts[<<e, v>>] = 0
    BY <2>1, <2>2 DEF DeliveryInv, SingleOK, Single
  <2> QED
    BY <2>1, <2>3, <2>4, TriesFromOutside
<1>3. ASSUME NEW d0 \in Deliveries, Dispatch(d0) PROVE TriesOK'
  <2>1. /\ Publish(d0, 0) /\ manual' = manual \cup {d0}
        /\ UNCHANGED <<worker, attempts, struck>>
    BY <1>3 DEF Dispatch, rowVars, faultVars
  <2>2. \A d \in Deliveries, n \in Retries : d # d0 => queue'[<<d, n>>] = queue[<<d, n>>]
    BY <1>0, <2>1, DeliveryParts, PublishForm
  <2> QED
    BY <2>1, <2>2, TriesFromOutside
<1>4. ASSUME NEW w \in Workers,
             \/ Take(w) \/ PassThrottle(w) \/ ThrottleFails(w) \/ InsertDelivery(w)
             \/ Post(w) \/ RecordAttempt(w) \/ DatabaseFails(w) \/ Retry(w)
             \/ Acknowledge(w) \/ LoseProcess(w) \/ LoseWorker(w)
      PROVE  TriesOK'
  BY <1>4, TakeTries, InsertTries, RetryTries, OtherTaskTries
<1> QED
  BY <1>1, <1>2, <1>3, <1>4, DeliveryParts DEF Next, TestEndpoint, Replay

\* An event is attempted at most once and once for each retry, however workers and
\* messages interleave and for any number of retries.
THEOREM Bounded == Spec => []AttemptsAreBounded
<1>1. Init => TriesOK
  <2> SUFFICES ASSUME Init PROVE TriesOK
    OBVIOUS
  <2>1. /\ \A w \in Workers : worker[w].pc = "idle"
        /\ \A d \in Deliveries : attempts[d] = 0
        /\ \A d \in Deliveries, n \in Retries : queue[<<d, n>>] = 0
    BY IdleOK DEF Init
  <2> QED
    BY <2>1, Bounds DEF TriesOK, Tried, Before, Counted
<1>2. TriesOK => AttemptsAreBounded
  BY DEF TriesOK, Tried, AttemptsAreBounded
<1> QED
  BY <1>1, <1>2, DeliveryInvariant, NextKeepsTries, PTL DEF Spec
=============================================================================
