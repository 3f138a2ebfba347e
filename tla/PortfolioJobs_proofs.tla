------------------------- MODULE PortfolioJobs_proofs -------------------------
(***************************************************************************)
(* Proofs about PortfolioJobs, for any number of users, resumes,           *)
(* portfolios, workers, retries, crashes and faults.                       *)
(***************************************************************************)
EXTENDS PortfolioJobs, FiniteSetTheorems, TLAPS

\* Moving a worker to another point of the task changes its pc and nothing else.
LEMMA GotoFrame ==
  ASSUME worker \in [Workers -> WorkerState], NEW w \in Workers,
         NEW pc \in WorkerPC, Goto(w, pc)
  PROVE  /\ worker' \in [Workers -> WorkerState]
         /\ worker'[w].pc = pc
         /\ worker'[w].p = worker[w].p
         /\ worker'[w].n = worker[w].n
         /\ worker'[w].dirty = worker[w].dirty
         /\ worker'[w].resume = worker[w].resume
         /\ \A v \in Workers \ {w} : worker'[v] = worker[v]
<1> DEFINE new == [worker[w] EXCEPT !.pc = pc]
<1>1. worker[w] \in WorkerState
  OBVIOUS
<1>2. /\ new \in WorkerState
      /\ new.pc = pc /\ new.p = worker[w].p /\ new.n = worker[w].n
      /\ new.dirty = worker[w].dirty /\ new.resume = worker[w].resume
  BY <1>1 DEF WorkerState
<1>3. worker' = [worker EXCEPT ![w] = new]
  BY DEF Goto
<1> HIDE DEF new
<1> QED
  BY <1>2, <1>3

\* Publishing adds one message and takes none away.
LEMMA PublishFrame ==
  ASSUME queue \in [Portfolios \X Retries -> Nat],
         NEW p \in Portfolios, NEW n \in Retries, Publish(p, n)
  PROVE  /\ queue' \in [Portfolios \X Retries -> Nat]
         /\ queue'[<<p, n>>] > 0
         /\ \A m \in Portfolios \X Retries : queue[m] > 0 => queue'[m] > 0
<1>1. <<p, n>> \in Portfolios \X Retries
  OBVIOUS
<1> QED
  BY <1>1 DEF Publish

\* The part of the type invariant that is about the workers.
WorkersOK ==
    /\ worker \in [Workers -> WorkerState]
    /\ \A w \in Workers : worker[w].pc # "idle" => worker[w].p \in Portfolios

LEMMA GotoKeepsWorkers ==
  ASSUME WorkersOK, NEW w \in Workers, worker[w].pc # "idle",
         NEW pc \in WorkerPC, Goto(w, pc)
  PROVE  WorkersOK'
<1>1. /\ worker' \in [Workers -> WorkerState]
      /\ worker'[w].p = worker[w].p
      /\ \A v \in Workers \ {w} : worker'[v] = worker[v]
  BY GotoFrame DEF WorkersOK
<1> QED
  BY <1>1 DEF WorkersOK

LEMMA IdleKeepsWorkers ==
  ASSUME WorkersOK, NEW w \in Workers, worker' = [worker EXCEPT ![w] = Idle]
  PROVE  WorkersOK'
<1>1. Idle \in WorkerState /\ Idle.pc = "idle"
  BY ConstantsAssumption DEF Idle, WorkerState, WorkerPC, Retries
<1> QED
  BY <1>1 DEF WorkersOK

\* The type invariant is inductive: every action of the API, of the worker and
\* of the environment keeps each variable in its set.
LEMMA TypeStep == TypeOK /\ [Next]_vars => TypeOK'
<1> SUFFICES ASSUME TypeOK, [Next]_vars PROVE TypeOK'
  OBVIOUS
<1> USE ConstantsAssumption
<1> USE DEF TypeOK, RequestPC, RowStatus, ghostVars, faultVars, NoFault, Fault
<1>0. WorkersOK /\ 0 \in Retries /\ (WorkersOK' =>
        /\ worker' \in [Workers -> WorkerState]
        /\ \A w \in Workers : worker'[w].pc # "idle" => worker'[w].p \in Portfolios)
  BY DEF WorkersOK, Retries
<1>1. ASSUME NEW p \in Portfolios, NEW r \in Resumes, AdmitRequest(p, r)
      PROVE  TypeOK'
  BY <1>1 DEF AdmitRequest
<1>2. ASSUME NEW p \in Portfolios, InsertRow(p)
      PROVE  TypeOK'
  BY <1>2 DEF InsertRow, Rollback
<1>3. ASSUME NEW p \in Portfolios, EnqueueTask(p)
      PROVE  TypeOK'
  <2>1. queue' \in [Portfolios \X Retries -> Nat]
    <3>1. CASE Publish(p, 0)
      BY <1>0, <3>1, PublishFrame
    <3>2. CASE UNCHANGED queue
      BY <3>2
    <3> QED
      BY <1>3, <3>1, <3>2 DEF EnqueueTask
  <2>2. NoFault \/ Fault(p)
    BY <1>3 DEF EnqueueTask
  <2>3. crashes' \in Nat /\ faults' \in Nat /\ struck' \subseteq Portfolios
    BY <2>2
  <2> QED
    BY <1>3, <2>1, <2>3 DEF EnqueueTask
<1>4. ASSUME NEW p \in Portfolios, CommitRow(p)
      PROVE  TypeOK'
  BY <1>4 DEF CommitRow
<1>5. ASSUME NEW p \in Portfolios, LoseRequest(p)
      PROVE  TypeOK'
  BY <1>5 DEF LoseRequest, Rollback
<1>6. ASSUME NEW p \in Portfolios, DeletePortfolio(p)
      PROVE  TypeOK'
  BY <1>6 DEF DeletePortfolio
<1>7. ASSUME NEW r \in Resumes, ResumeParsed(r)
      PROVE  TypeOK'
  BY <1>7 DEF ResumeParsed
<1>8. ASSUME NEW r \in Resumes, DeleteResume(r)
      PROVE  TypeOK'
  BY <1>8 DEF DeleteResume
<1>9. ASSUME NEW w \in Workers, NEW p \in Portfolios, NEW n \in Retries, Receive(w, p, n)
      PROVE  TypeOK'
  <2> DEFINE new == [Idle EXCEPT !.pc = "received", !.p = p, !.n = n]
  <2>1. new \in WorkerState /\ new.p = p
    BY DEF Idle, WorkerState, WorkerPC
  <2>2. worker' = [worker EXCEPT ![w] = new]
    BY <1>9 DEF Receive
  <2> HIDE DEF new
  <2> QED
    BY <1>9, <2>1, <2>2 DEF Receive, Available
<1>10. ASSUME NEW w \in Workers, LoadPortfolio(w)
       PROVE  TypeOK'
  <2> DEFINE p == worker[w].p
             loaded == [worker[w] EXCEPT !.pc = "loaded", !.resume = source[p],
                                         !.dirty = status[p] # "generating"]
             gone == [worker[w] EXCEPT !.pc = "settled"]
             new == IF Runnable(p) THEN loaded ELSE gone
  <2>1. worker[w] \in WorkerState /\ p \in Portfolios /\ source[p] \in Resumes \cup {None}
    BY <1>10 DEF LoadPortfolio, At
  <2>2. loaded \in WorkerState /\ loaded.p = p
    BY <2>1 DEF WorkerState, WorkerPC
  <2>3. gone \in WorkerState /\ gone.p = p
    BY <2>1 DEF WorkerState, WorkerPC
  <2>4. worker' = [worker EXCEPT ![w] = new]
    BY <1>10 DEF LoadPortfolio
  <2>5. new \in WorkerState /\ new.p = p
    BY <2>2, <2>3
  <2> HIDE DEF new
  <2> QED
    BY <1>10, <2>1, <2>4, <2>5 DEF LoadPortfolio, At
<1>11. ASSUME NEW w \in Workers, MarkGenerating(w)
       PROVE  TypeOK'
  <2>1. \E pc \in WorkerPC : Goto(w, pc)
    BY <1>11 DEF MarkGenerating, WorkerPC
  <2>2. WorkersOK'
    BY <1>11, <2>1, GotoKeepsWorkers, <1>0 DEF MarkGenerating, At
  <2> QED
    BY <1>0, <1>11, <2>2 DEF MarkGenerating
<1>12. ASSUME NEW w \in Workers, Render(w)
       PROVE  TypeOK'
  <2>1. \E pc \in WorkerPC : Goto(w, pc)
    BY <1>12 DEF Render, WorkerPC, OnError
  <2>2. WorkersOK'
    BY <1>12, <2>1, GotoKeepsWorkers, <1>0 DEF Render, At
  <2> QED
    BY <1>0, <1>12, <2>2 DEF Render
<1>13. ASSUME NEW w \in Workers, CommitPublished(w)
       PROVE  TypeOK'
  <2>1. \E pc \in WorkerPC : Goto(w, pc)
    BY <1>13 DEF CommitPublished, WorkerPC
  <2>2. WorkersOK'
    BY <1>13, <2>1, GotoKeepsWorkers, <1>0 DEF CommitPublished, At
  <2> QED
    BY <1>0, <1>13, <2>2 DEF CommitPublished, At
<1>14. ASSUME NEW w \in Workers, CommitFailed(w)
       PROVE  TypeOK'
  <2>1. \E pc \in WorkerPC : Goto(w, pc)
    BY <1>14 DEF CommitFailed, WorkerPC
  <2>2. WorkersOK'
    BY <1>14, <2>1, GotoKeepsWorkers, <1>0 DEF CommitFailed, At
  <2> QED
    BY <1>0, <1>14, <2>2 DEF CommitFailed
<1>15. ASSUME NEW w \in Workers, AnnouncePublished(w)
       PROVE  TypeOK'
  <2>1. \E pc \in WorkerPC : Goto(w, pc)
    BY <1>15 DEF AnnouncePublished, Announce, WorkerPC
  <2>2. WorkersOK'
    BY <1>15, <2>1, GotoKeepsWorkers, <1>0 DEF AnnouncePublished, Announce, At
  <2> QED
    BY <1>0, <1>15, <2>2 DEF AnnouncePublished, Announce, At
<1>16. ASSUME NEW w \in Workers, AnnounceFailed(w)
       PROVE  TypeOK'
  <2>1. \E pc \in WorkerPC : Goto(w, pc)
    BY <1>16 DEF AnnounceFailed, Announce, WorkerPC
  <2>2. WorkersOK'
    BY <1>16, <2>1, GotoKeepsWorkers, <1>0 DEF AnnounceFailed, Announce, At
  <2> QED
    BY <1>0, <1>16, <2>2 DEF AnnounceFailed, Announce, At
<1>17. ASSUME NEW w \in Workers, RetryOrDeadLetter(w)
       PROVE  TypeOK'
  <2>1. \E pc \in WorkerPC : Goto(w, pc)
    BY <1>17 DEF RetryOrDeadLetter, WorkerPC
  <2>2. WorkersOK'
    BY <1>17, <2>1, GotoKeepsWorkers, <1>0 DEF RetryOrDeadLetter, At
  <2>3. queue' \in [Portfolios \X Retries -> Nat]
    <3>1. CASE worker[w].n < MaxRetries /\ Publish(worker[w].p, worker[w].n + 1)
      <4>1. worker[w].p \in Portfolios /\ worker[w].n + 1 \in Retries
        BY <1>17, <3>1 DEF RetryOrDeadLetter, WorkersOK, WorkerState, Retries, At
      <4> QED
        BY <3>1, <4>1, PublishFrame
    <3>2. CASE UNCHANGED queue
      BY <3>2
    <3> QED
      BY <1>17, <3>1, <3>2 DEF RetryOrDeadLetter
  <2> QED
    BY <1>0, <1>17, <2>2, <2>3 DEF RetryOrDeadLetter, At
<1>18. ASSUME NEW w \in Workers, Acknowledge(w)
       PROVE  TypeOK'
  <2>1. WorkersOK'
    BY <1>0, <1>18, IdleKeepsWorkers DEF Acknowledge
  <2> QED
    BY <1>18, <2>1, <1>0 DEF Acknowledge, Release
<1>19. ASSUME NEW w \in Workers, DatabaseFails(w)
       PROVE  TypeOK'
  <2>1. \E pc \in WorkerPC : Goto(w, pc)
    BY <1>19 DEF DatabaseFails, WorkerPC
  <2>2. WorkersOK'
    BY <1>19, <2>1, GotoKeepsWorkers, <1>0 DEF DatabaseFails, At
  <2> QED
    BY <1>0, <1>19, <2>2 DEF DatabaseFails, At
<1>20. ASSUME NEW w \in Workers, Crash(w)
       PROVE  TypeOK'
  <2>1. WorkersOK'
    BY <1>0, <1>20, IdleKeepsWorkers DEF Crash
  <2>2. worker[w].p \in Portfolios /\ worker[w].n \in Retries
    BY <1>0, <1>20 DEF Crash, At, WorkersOK, WorkerState
  <2>3. queue' \in [Portfolios \X Retries -> Nat]
    BY <1>20, <2>2, PublishFrame DEF Crash, Redeliver
  <2> QED
    BY <1>0, <1>20, <2>1, <2>3 DEF Crash
<1>21. CASE UNCHANGED vars
  BY <1>21 DEF vars
<1> QED
  BY <1>1, <1>2, <1>3, <1>4, <1>5, <1>6, <1>7, <1>8, <1>9, <1>10, <1>11, <1>12,
     <1>13, <1>14, <1>15, <1>16, <1>17, <1>18, <1>19, <1>20, <1>21
     DEF Next, HandlerStep, WorkerStep

\* Every variable keeps its type in every behaviour; in particular no message
\* carries more than max_retries retries.
THEOREM TypeCorrect == Spec => []TypeOK
<1>1. Init => TypeOK
  BY ConstantsAssumption
     DEF Init, TypeOK, RequestPC, RowStatus, WorkerPC, WorkerState, Idle, Retries
<1> QED
  BY <1>1, TypeStep, PTL DEF Spec

-----------------------------------------------------------------------------
(***************************************************************************)
(* No job is forgotten.  Live(p) is too weak to be inductive: a worker that*)
(* has committed an outcome is still live but will not act on the row      *)
(* again.  The invariant asks for a message, or a worker that has not yet  *)
(* written its outcome; and, so that the commit of the row establishes it, *)
(* it asks the same from the moment the task is enqueued.                  *)
(***************************************************************************)
BeforeOutcome == {"received", "loaded", "generating", "rendered", "failing"}
Working(w, p) == worker[w].pc \in BeforeOutcome /\ worker[w].p = p
Attended(p) ==
    Queued(p) \/ (\E w \in Workers : Working(w, p)) \/ p \in outrun \cup struck

RowsAreCommitted == \A p \in Portfolios : Row(p) => request[p] = "done"
LoadedAreCommitted ==
    \A w \in Workers : worker[w].pc \in BeforeOutcome \ {"received"}
                        => request[worker[w].p] = "done"
JobsAttended ==
    \A p \in Portfolios : request[p] = "enqueued" \/ InProgress(p) => Attended(p)

JobInv == TypeOK /\ RowsAreCommitted /\ LoadedAreCommitted /\ JobsAttended

\* A step of worker w keeps a portfolio attended if no other worker moves, no
\* message of it is taken away, and w does not stop working on it.
LEMMA StaysAttended ==
  ASSUME NEW w \in Workers, NEW p \in Portfolios, Attended(p),
         \A v \in Workers \ {w} : worker'[v] = worker[v],
         Working(w, p) => Working(w, p)',
         \A n \in Retries : queue[<<p, n>>] > 0 => queue'[<<p, n>>] > 0,
         outrun \subseteq outrun', struck \subseteq struck'
  PROVE  Attended(p)'
<1>1. CASE Queued(p)
  BY <1>1 DEF Queued, Attended
<1>2. ASSUME NEW v \in Workers, Working(v, p)
      PROVE  Attended(p)'
  BY <1>2 DEF Working, Attended
<1>3. CASE p \in outrun \cup struck
  BY <1>3 DEF Attended
<1> QED
  BY <1>1, <1>2, <1>3 DEF Attended

\* The same for a step that moves no worker.
LEMMA StaysAttendedApi ==
  ASSUME NEW p \in Portfolios, Attended(p), worker' = worker,
         \A n \in Retries : queue[<<p, n>>] > 0 => queue'[<<p, n>>] > 0,
         outrun \subseteq outrun', struck \subseteq struck'
  PROVE  Attended(p)'
  BY DEF Attended, Queued, Working

\* JobInv is kept by the steps of the API.
LEMMA JobInvApi ==
  ASSUME JobInv, TypeOK', NEW p, NEW r,
         \/ p \in Portfolios /\ r \in Resumes /\ AdmitRequest(p, r)
         \/ p \in Portfolios /\ (\/ InsertRow(p) \/ EnqueueTask(p) \/ CommitRow(p)
                                \/ LoseRequest(p) \/ DeletePortfolio(p))
         \/ r \in Resumes /\ (ResumeParsed(r) \/ DeleteResume(r))
  PROVE  JobInv'
<1> USE DEF JobInv, ghostVars, faultVars, NoFault, Fault, Rollback
<1>1. worker' = worker /\ outrun' = outrun /\ struck \subseteq struck'
  BY DEF AdmitRequest, InsertRow, EnqueueTask, CommitRow, LoseRequest,
         DeletePortfolio, ResumeParsed, DeleteResume
<1>2. \A m \in Portfolios \X Retries : queue[m] > 0 => queue'[m] > 0
  <2>1. CASE UNCHANGED queue
    BY <2>1
  <2>2. CASE p \in Portfolios /\ Publish(p, 0)
    <3>1. 0 \in Retries /\ queue \in [Portfolios \X Retries -> Nat]
      BY ConstantsAssumption DEF TypeOK, Retries
    <3> QED
      BY <2>2, <3>1, PublishFrame
  <2> QED
    BY <2>1, <2>2 DEF AdmitRequest, InsertRow, EnqueueTask, CommitRow, LoseRequest,
         DeletePortfolio, ResumeParsed, DeleteResume
<1>3. \A q \in Portfolios : Attended(q) => Attended(q)'
  BY <1>1, <1>2, StaysAttendedApi
<1>4. \A q \in Portfolios : request[q] = "done" => request'[q] = "done"
  BY DEF TypeOK, AdmitRequest, InsertRow, EnqueueTask, CommitRow, LoseRequest,
         DeletePortfolio, ResumeParsed, DeleteResume
<1>5. \A q \in Portfolios :
        \/ status'[q] = status[q]
        \/ status'[q] = "absent"
        \/ status[q] = "absent" /\ request[q] = "enqueued" /\ request'[q] = "done"
  BY DEF RowsAreCommitted, Row, TypeOK, AdmitRequest, InsertRow, EnqueueTask, CommitRow,
         LoseRequest, DeletePortfolio, ResumeParsed, DeleteResume
<1>6. RowsAreCommitted'
  BY <1>4, <1>5 DEF RowsAreCommitted, Row
<1>7. LoadedAreCommitted'
  <2>1. \A w \in Workers : worker[w].pc # "idle" => worker[w].p \in Portfolios
    BY DEF TypeOK
  <2> QED
    BY <1>1, <1>4, <2>1 DEF LoadedAreCommitted, BeforeOutcome
<1>8. JobsAttended'
  <2> SUFFICES ASSUME NEW q \in Portfolios, request'[q] = "enqueued" \/ InProgress(q)'
               PROVE  Attended(q)'
    BY DEF JobsAttended
  <2>1. CASE request[q] = "enqueued" \/ InProgress(q)
    BY <1>3, <2>1 DEF JobsAttended
  <2>2. CASE request[q] # "enqueued" /\ ~InProgress(q)
    <3>1. ~InProgress(q)'
      BY <1>5, <2>2 DEF InProgress
    <3>2. q = p /\ EnqueueTask(p)
      BY <2>2, <3>1 DEF TypeOK, AdmitRequest, InsertRow, EnqueueTask, CommitRow, LoseRequest,
         DeletePortfolio, ResumeParsed, DeleteResume
    <3>3. CASE Publish(p, 0)
      BY <3>2, <3>3, PublishFrame, ConstantsAssumption
         DEF Attended, Queued, TypeOK, Retries
    <3>4. CASE p \in struck'
      BY <3>2, <3>4 DEF Attended
    <3> QED
      BY <3>2, <3>3, <3>4 DEF EnqueueTask
  <2> QED
    BY <2>1, <2>2
<1> QED
  BY <1>6, <1>7, <1>8

\* The worker's steps up to the first commit.
LEMMA JobInvStart ==
  ASSUME JobInv, TypeOK', NEW w \in Workers,
         \/ \E p \in Portfolios, n \in Retries : Receive(w, p, n)
         \/ LoadPortfolio(w)
         \/ MarkGenerating(w)
  PROVE  JobInv'
<1> USE DEF JobInv, ghostVars, faultVars, NoFault
<1>1. worker[w] \in WorkerState /\ WorkersOK
  BY DEF TypeOK, WorkersOK
<1>2. ASSUME NEW p \in Portfolios, NEW n \in Retries, Receive(w, p, n)
      PROVE  JobInv'
  <2> DEFINE new == [Idle EXCEPT !.pc = "received", !.p = p, !.n = n]
  <2>1. new.pc = "received" /\ new.p = p
    BY DEF Idle
  <2>2. worker' = [worker EXCEPT ![w] = new]
    BY <1>2 DEF Receive
  <2> HIDE DEF new
  <2>3. worker'[w].pc = "received" /\ worker'[w].p = p
        /\ \A v \in Workers \ {w} : worker'[v] = worker[v]
    BY <2>1, <2>2 DEF TypeOK
  <2>4. UNCHANGED <<request, status, outrun, struck>> /\ worker[w].pc = "idle"
    BY <1>2 DEF Receive, At
  <2>5. RowsAreCommitted'
    BY <2>4 DEF RowsAreCommitted, Row
  <2>6. LoadedAreCommitted'
    BY <2>3, <2>4 DEF LoadedAreCommitted
  <2>7. \A q \in Portfolios : Attended(q) => Attended(q)'
    <3> SUFFICES ASSUME NEW q \in Portfolios, Attended(q) PROVE Attended(q)'
      OBVIOUS
    <3>1. CASE q = p
      BY <2>3, <3>1 DEF Attended, Working, BeforeOutcome
    <3>2. CASE q # p
      <4>1. \A m \in Retries : queue[<<q, m>>] > 0 => queue'[<<q, m>>] > 0
        BY <1>2, <3>2 DEF Receive, TypeOK
      <4>2. ~Working(w, q)
        BY <2>4 DEF Working, BeforeOutcome
      <4> QED
        BY <2>3, <2>4, <4>1, <4>2, StaysAttended
    <3> QED
      BY <3>1, <3>2
  <2> QED
    BY <2>4, <2>5, <2>6, <2>7 DEF JobsAttended, InProgress
<1>3. CASE LoadPortfolio(w)
  <2> DEFINE p == worker[w].p
             loaded == [worker[w] EXCEPT !.pc = "loaded", !.resume = source[p],
                                         !.dirty = status[p] # "generating"]
             gone == [worker[w] EXCEPT !.pc = "settled"]
             new == IF Row(p) THEN loaded ELSE gone
  <2>1. worker[w].pc = "received" /\ p \in Portfolios
    BY <1>3 DEF LoadPortfolio, At, TypeOK
  <2>2. new.p = p /\ new.pc = IF Row(p) THEN "loaded" ELSE "settled"
    BY <1>1 DEF WorkerState
  <2>3. worker' = [worker EXCEPT ![w] = new]
    BY <1>3 DEF LoadPortfolio, Runnable
  <2> HIDE DEF new
  <2>4. /\ worker'[w].p = p
        /\ worker'[w].pc = IF Row(p) THEN "loaded" ELSE "settled"
        /\ \A v \in Workers \ {w} : worker'[v] = worker[v]
    BY <2>2, <2>3 DEF TypeOK
  <2>5. UNCHANGED <<request, status, queue, struck>>
        /\ outrun' = IF request[p] \in {"inserted", "enqueued"}
                     THEN outrun \cup {p} ELSE outrun
    BY <1>3 DEF LoadPortfolio
  <2>6. RowsAreCommitted'
    BY <2>5 DEF RowsAreCommitted, Row
  <2>7. LoadedAreCommitted'
    BY <2>1, <2>4, <2>5 DEF LoadedAreCommitted, BeforeOutcome, RowsAreCommitted
  <2>8. \A q \in Portfolios : Attended(q) /\ (q = p => Row(p)) => Attended(q)'
    <3> SUFFICES ASSUME NEW q \in Portfolios, Attended(q), q = p => Row(p)
                 PROVE  Attended(q)'
      OBVIOUS
    <3>1. Working(w, q) => Working(w, q)'
      BY <2>4 DEF Working, BeforeOutcome
    <3> QED
      BY <2>4, <2>5, <3>1, StaysAttended
  <2>9. ASSUME NEW q \in Portfolios, request'[q] = "enqueued" \/ InProgress(q)'
        PROVE  Attended(q)'
    <3>1. Attended(q) /\ (request[q] = "enqueued" \/ InProgress(q))
      BY <2>5, <2>9 DEF JobsAttended, InProgress
    <3>2. CASE q = p => Row(p)
      BY <2>8, <3>1, <3>2
    <3>3. CASE q = p /\ ~Row(p)
      <4>1. request[p] = "enqueued"
        BY <3>1, <3>3 DEF InProgress, Row
      <4>2. p \in outrun'
        BY <2>5, <4>1
      <4> QED
        BY <3>3, <4>2 DEF Attended
    <3> QED
      BY <3>2, <3>3
  <2> QED
    BY <2>6, <2>7, <2>9 DEF JobsAttended
<1>4. CASE MarkGenerating(w)
  <2> DEFINE p == worker[w].p
  <2>1. worker[w].pc = "loaded" /\ p \in Portfolios
    BY <1>4 DEF MarkGenerating, At, TypeOK
  <2>2. PICK pc \in {"raised", "generating"} :
           /\ Goto(w, pc)
           /\ pc = "raised" => ~Row(p) /\ status' = status
           /\ pc = "generating" => status' \in {status, [status EXCEPT ![p] = "generating"]}
    BY <1>4 DEF MarkGenerating, UpdateFindsRow
  <2>3. pc \in WorkerPC
    BY DEF WorkerPC
  <2>4. worker'[w].pc = pc /\ worker'[w].p = p
        /\ \A v \in Workers \ {w} : worker'[v] = worker[v]
    BY <1>1, <2>2, <2>3, GotoFrame DEF WorkersOK
  <2>5. UNCHANGED <<request, queue, outrun, struck>>
    BY <1>4 DEF MarkGenerating
  <2>6. request[p] = "done"
    BY <2>1 DEF LoadedAreCommitted, BeforeOutcome
  <2>7. RowsAreCommitted'
    BY <2>2, <2>5, <2>6 DEF RowsAreCommitted, Row, TypeOK
  <2>8. LoadedAreCommitted'
    BY <2>4, <2>5, <2>6 DEF LoadedAreCommitted
  <2>9. ASSUME NEW q \in Portfolios, Attended(q), q = p => pc = "generating"
        PROVE  Attended(q)'
    <3>1. Working(w, q) => Working(w, q)'
      BY <2>4, <2>9 DEF Working, BeforeOutcome
    <3> QED
      BY <2>4, <2>5, <2>9, <3>1, StaysAttended
  <2>10. ASSUME NEW q \in Portfolios, request'[q] = "enqueued" \/ InProgress(q)'
         PROVE  Attended(q)'
    <3>1. CASE q # p
      BY <2>2, <2>5, <2>9, <2>10, <3>1 DEF JobsAttended, InProgress, TypeOK
    <3>2. CASE q = p /\ pc = "generating"
      BY <2>4, <3>2 DEF Attended, Working, BeforeOutcome
    <3>3. CASE q = p /\ pc = "raised"
      BY <2>2, <2>5, <2>6, <2>10, <3>3 DEF InProgress, Row
    <3> QED
      BY <3>1, <3>2, <3>3
  <2> QED
    BY <2>7, <2>8, <2>10 DEF JobsAttended
<1> QED
  BY <1>2, <1>3, <1>4

\* The steps that write an outcome, or fail to.
LEMMA JobInvOutcome ==
  ASSUME JobInv, TypeOK', NEW w \in Workers,
         Render(w) \/ CommitPublished(w) \/ CommitFailed(w) \/ DatabaseFails(w)
  PROVE  JobInv'
<1> USE DEF JobInv, ghostVars, faultVars, NoFault, Fault
<1> DEFINE p == worker[w].p
<1>1. worker[w].pc \in BeforeOutcome /\ p \in Portfolios
  BY DEF Render, CommitPublished, CommitFailed, DatabaseFails, At, TypeOK, BeforeOutcome
<1>2. PICK pc \in {"rendered", "failing", "published", "failed", "raised"} :
         /\ Goto(w, pc)
         /\ pc \in BeforeOutcome => worker[w].pc = "generating" /\ status' = status
         /\ pc \notin BeforeOutcome =>
              \/ p \in struck' /\ status' = status
              \/ ~Row(p) /\ status' = status /\ worker[w].pc # "received"
              \/ /\ Row(p)
                 /\ status' \in {[status EXCEPT ![p] = "published"],
                                 [status EXCEPT ![p] = "failed"]}
  BY DEF Render, CommitPublished, CommitFailed, DatabaseFails, At, OnError,
         UpdateFindsRow, BeforeOutcome
<1>3. worker'[w].pc = pc /\ worker'[w].p = p
      /\ \A v \in Workers \ {w} : worker'[v] = worker[v]
  <2>1. pc \in WorkerPC /\ worker \in [Workers -> WorkerState]
    BY DEF WorkerPC, TypeOK
  <2> QED
    BY <1>2, <2>1, GotoFrame
<1>4. UNCHANGED <<request, queue, outrun>> /\ struck \subseteq struck'
  BY DEF Render, CommitPublished, CommitFailed, DatabaseFails
<1>5. RowsAreCommitted'
  BY <1>1, <1>2, <1>4 DEF RowsAreCommitted, Row, TypeOK
<1>6. LoadedAreCommitted'
  BY <1>1, <1>2, <1>3, <1>4 DEF LoadedAreCommitted, BeforeOutcome
<1>7. ASSUME NEW q \in Portfolios, Attended(q), q = p => pc \in BeforeOutcome
      PROVE  Attended(q)'
  <2>1. Working(w, q) => Working(w, q)'
    BY <1>3, <1>7 DEF Working
  <2> QED
    BY <1>3, <1>4, <1>7, <2>1, StaysAttended
<1>8. ASSUME NEW q \in Portfolios, request'[q] = "enqueued" \/ InProgress(q)'
      PROVE  Attended(q)'
  <2>1. CASE q # p
    <3>1. status'[q] = status[q]
      BY <1>1, <1>2, <2>1 DEF TypeOK
    <3> QED
      BY <1>4, <1>7, <1>8, <2>1, <3>1 DEF JobsAttended, InProgress
  <2>2. CASE q = p /\ pc \in BeforeOutcome
    BY <1>3, <2>2 DEF Attended, Working
  <2>3. CASE q = p /\ pc \notin BeforeOutcome
    <3>1. CASE p \in struck'
      BY <2>3, <3>1 DEF Attended
    <3>2. CASE ~Row(p) /\ status' = status /\ worker[w].pc # "received"
      BY <1>1, <1>4, <1>8, <2>3, <3>2 DEF LoadedAreCommitted, InProgress, Row
    <3>3. CASE Row(p) /\ status' \in {[status EXCEPT ![p] = "published"],
                                     [status EXCEPT ![p] = "failed"]}
      <4>1. request'[p] = "done" /\ status'[p] \in {"published", "failed"}
        BY <1>1, <1>4, <3>3 DEF RowsAreCommitted, TypeOK
      <4> QED
        BY <1>8, <2>3, <4>1 DEF InProgress
    <3> QED
      BY <1>2, <2>3, <3>1, <3>2, <3>3
  <2> QED
    BY <2>1, <2>2, <2>3
<1> QED
  BY <1>5, <1>6, <1>8 DEF JobsAttended

\* The steps after the outcome, and the death of a worker anywhere.
LEMMA JobInvEnd ==
  ASSUME JobInv, TypeOK', NEW w \in Workers,
         \/ AnnouncePublished(w) \/ AnnounceFailed(w) \/ RetryOrDeadLetter(w)
         \/ Acknowledge(w) \/ Crash(w)
  PROVE  JobInv'
<1> USE DEF JobInv, ghostVars, faultVars, NoFault, Fault
<1> DEFINE p == worker[w].p
<1>1. p \in Portfolios /\ worker[w].n \in Retries /\ worker[w] \in WorkerState
  BY DEF AnnouncePublished, AnnounceFailed, Announce, RetryOrDeadLetter, Acknowledge,
         Crash, At, TypeOK, WorkerState
<1>2. /\ worker'[w].pc \notin BeforeOutcome
      /\ \A v \in Workers \ {w} : worker'[v] = worker[v]
  <2>1. CASE worker' = [worker EXCEPT ![w] = Idle]
    BY <2>1 DEF TypeOK, Idle, BeforeOutcome
  <2>2. ASSUME NEW pc \in {"settled", "raised"}, Goto(w, pc)
        PROVE  /\ worker'[w].pc \notin BeforeOutcome
               /\ \A v \in Workers \ {w} : worker'[v] = worker[v]
    <3>1. pc \in WorkerPC /\ worker \in [Workers -> WorkerState] /\ pc \notin BeforeOutcome
      BY DEF WorkerPC, TypeOK, BeforeOutcome
    <3> QED
      BY <2>2, <3>1, GotoFrame
  <2> QED
    BY <2>1, <2>2 DEF AnnouncePublished, AnnounceFailed, Announce, RetryOrDeadLetter,
       Acknowledge, Crash
<1>3. UNCHANGED <<request, status, outrun>> /\ struck \subseteq struck'
  BY DEF AnnouncePublished, AnnounceFailed, Announce, RetryOrDeadLetter, Acknowledge, Crash
<1>4. \A m \in Portfolios \X Retries : queue[m] > 0 => queue'[m] > 0
  <2>1. CASE UNCHANGED queue
    BY <2>1
  <2>2. ASSUME NEW n \in Retries, Publish(p, n)
        PROVE  \A m \in Portfolios \X Retries : queue[m] > 0 => queue'[m] > 0
    BY <1>1, <2>2, PublishFrame DEF TypeOK
  <2>3. worker[w].n < MaxRetries => worker[w].n + 1 \in Retries
    BY <1>1, ConstantsAssumption DEF Retries
  <2> QED
    BY <1>1, <2>1, <2>2, <2>3 DEF AnnouncePublished, AnnounceFailed, Announce,
       RetryOrDeadLetter, Acknowledge, Release, Crash, Redeliver
<1>5. RowsAreCommitted' /\ LoadedAreCommitted'
  BY <1>2, <1>3 DEF RowsAreCommitted, Row, LoadedAreCommitted
<1>6. ASSUME NEW q \in Portfolios, Attended(q)
      PROVE  Attended(q)'
  <2>1. CASE ~Working(w, q)
    BY <1>2, <1>3, <1>4, <1>6, <2>1, StaysAttended
  <2>2. CASE Working(w, q)
    <3>1. Crash(w) /\ q = p
      BY <2>2 DEF Working, BeforeOutcome, AnnouncePublished, AnnounceFailed, Announce,
         RetryOrDeadLetter, Acknowledge, At
    <3>2. queue'[<<p, worker[w].n>>] > 0
      BY <1>1, <3>1, PublishFrame DEF Crash, Redeliver, TypeOK
    <3> QED
      BY <1>1, <3>1, <3>2 DEF Attended, Queued
  <2> QED
    BY <2>1, <2>2
<1> QED
  BY <1>3, <1>5, <1>6 DEF JobsAttended, InProgress

LEMMA JobInvStep == JobInv /\ [Next]_vars => JobInv'
<1> SUFFICES ASSUME JobInv, [Next]_vars PROVE JobInv'
  OBVIOUS
<1>1. TypeOK'
  BY TypeStep DEF JobInv
<1>2. ASSUME NEW p \in Portfolios, NEW r \in Resumes, AdmitRequest(p, r)
      PROVE  JobInv'
  BY <1>1, <1>2, JobInvApi
<1>3. ASSUME NEW p \in Portfolios, HandlerStep(p) \/ LoseRequest(p) \/ DeletePortfolio(p)
      PROVE  JobInv'
  BY <1>1, <1>3, JobInvApi DEF HandlerStep
<1>4. ASSUME NEW r \in Resumes, ResumeParsed(r) \/ DeleteResume(r)
      PROVE  JobInv'
  BY <1>1, <1>4, JobInvApi
<1>5. ASSUME NEW w \in Workers, WorkerStep(w) \/ DatabaseFails(w) \/ Crash(w)
      PROVE  JobInv'
  BY <1>1, <1>5, JobInvStart, JobInvOutcome, JobInvEnd DEF WorkerStep
<1>6. CASE UNCHANGED vars
  BY <1>1, <1>6 DEF vars, JobInv, RowsAreCommitted, LoadedAreCommitted, JobsAttended,
     Row, InProgress, Attended, Queued, Working
<1> QED
  BY <1>2, <1>3, <1>4, <1>5, <1>6 DEF Next

LEMMA JobInvInit == Init => JobInv
<1>1. Init => TypeOK
  BY ConstantsAssumption
     DEF Init, TypeOK, RequestPC, RowStatus, WorkerPC, WorkerState, Idle, Retries
<1> QED
  BY <1>1 DEF Init, JobInv, RowsAreCommitted, LoadedAreCommitted, JobsAttended,
     Row, InProgress, Idle, BeforeOutcome

\* No job is forgotten (NoForgottenJob), whatever the numbers of workers,
\* retries, crashes and faults: acks_late and the retries never leave a row
\* "queued" or "generating" with nothing left to finish it.
THEOREM NoJobForgotten == Spec => []NoForgottenJob
<1>1. JobInv => NoForgottenJob
  BY DEF JobInv, JobsAttended, NoForgottenJob, Attended, Working, BeforeOutcome,
     Live, Holding, At
<1> QED
  BY <1>1, JobInvInit, JobInvStep, PTL DEF Spec

-----------------------------------------------------------------------------
(***************************************************************************)
(* The refinement of PortfolioLifecycle.  A worker may skip the UPDATE of  *)
(* the status it loaded as "generating"; what the mapping needs is that    *)
(* the row it then writes an outcome to is never one that still waits.     *)
(***************************************************************************)
PastQueued ==
    \A w \in Workers :
        \/ worker[w].pc = "loaded" /\ ~worker[w].dirty
        \/ worker[w].pc \in {"generating", "rendered", "failing"}
        => status[worker[w].p] # "queued"

LifeInv == JobInv /\ PastQueued

\* The five ways a step touches what the lifecycle sees.
NoMove ==
    /\ status' = status
    /\ \A q \in Portfolios : request'[q] = "done" <=> request[q] = "done"
Accepts(p) ==
    /\ status[p] = "absent" /\ request[p] = "enqueued"
    /\ status' = [status EXCEPT ![p] = "queued"]
    /\ request' = [request EXCEPT ![p] = "done"]
Writes(p, from, to) ==
    /\ status[p] \in from
    /\ status' = [status EXCEPT ![p] = to]
    /\ request' = request
Touches ==
    \/ NoMove
    \/ \E p \in Portfolios :
         \/ Accepts(p)
         \/ Writes(p, RowStatus \ {"absent"}, "absent")
         \/ Writes(p, RowStatus \ {"absent"}, "generating")
         \/ \E o \in {"published", "failed"} :
               Writes(p, {"generating", "published", "failed"}, o)

LEMMA StepTouches == LifeInv /\ [Next]_vars => Touches
<1> SUFFICES ASSUME LifeInv, [Next]_vars PROVE Touches
  OBVIOUS
<1> USE DEF LifeInv, JobInv, Rollback
<1>1. \A w \in Workers : worker[w].pc # "idle" => worker[w].p \in Portfolios
  BY DEF TypeOK
<1>2. ASSUME NEW p \in Portfolios,
             \/ \E r \in Resumes : AdmitRequest(p, r)
             \/ InsertRow(p) \/ EnqueueTask(p) \/ LoseRequest(p)
      PROVE  NoMove
  BY <1>2 DEF AdmitRequest, InsertRow, EnqueueTask, LoseRequest, NoMove, TypeOK
<1>3. ASSUME NEW p \in Portfolios, CommitRow(p)
      PROVE  Accepts(p)
  BY <1>3 DEF CommitRow, Accepts, RowsAreCommitted, Row
<1>4. ASSUME NEW p \in Portfolios, DeletePortfolio(p)
      PROVE  Writes(p, RowStatus \ {"absent"}, "absent")
  BY <1>4 DEF DeletePortfolio, Writes, Row, TypeOK
<1>5. ASSUME NEW r \in Resumes, ResumeParsed(r) \/ DeleteResume(r)
      PROVE  NoMove
  BY <1>5 DEF ResumeParsed, DeleteResume, NoMove
<1>6. ASSUME NEW w \in Workers, WorkerStep(w) \/ DatabaseFails(w) \/ Crash(w)
      PROVE  Touches
  <2>1. CASE status' = status /\ request' = request
    BY <2>1 DEF NoMove, Touches
  <2>2. CASE MarkGenerating(w) /\ status' # status
    <3>1. worker[w].p \in Portfolios /\ Row(worker[w].p) /\ request' = request
          /\ status' = [status EXCEPT ![worker[w].p] = "generating"]
      BY <1>1, <2>2 DEF MarkGenerating, At, UpdateFindsRow
    <3> QED
      BY <3>1 DEF Writes, Touches, Row, TypeOK
  <2>3. CASE (CommitPublished(w) \/ CommitFailed(w)) /\ status' # status
    <3>1. PICK o \in {"published", "failed"} :
             /\ worker[w].p \in Portfolios /\ Row(worker[w].p) /\ request' = request
             /\ status' = [status EXCEPT ![worker[w].p] = o]
      BY <1>1, <2>3 DEF CommitPublished, CommitFailed, At, UpdateFindsRow
    <3>2. status[worker[w].p] # "queued"
      BY <2>3 DEF PastQueued, CommitPublished, CommitFailed, At
    <3>3. status[worker[w].p] \in {"generating", "published", "failed"}
      BY <3>1, <3>2 DEF Row, TypeOK, RowStatus
    <3> QED
      BY <3>1, <3>3 DEF Writes, Touches
  <2> QED
    BY <1>6, <2>1, <2>2, <2>3 DEF WorkerStep, Receive, LoadPortfolio, MarkGenerating, Render,
       CommitPublished, CommitFailed, AnnouncePublished, AnnounceFailed, Announce,
       RetryOrDeadLetter, Acknowledge, DatabaseFails, Crash
<1>7. CASE UNCHANGED vars
  BY <1>7 DEF vars, NoMove, Touches
<1> QED
  BY <1>2, <1>3, <1>4, <1>5, <1>6, <1>7 DEF Next, HandlerStep, Touches

\* A worker gets past "queued" only by finding the row in another status or by
\* writing it, and a row becomes "queued" before any worker has loaded it.
LEMMA PastQueuedStep == LifeInv /\ [Next]_vars => PastQueued'
<1> SUFFICES ASSUME LifeInv, [Next]_vars,
                    NEW v \in Workers,
                    \/ worker'[v].pc = "loaded" /\ ~worker'[v].dirty
                    \/ worker'[v].pc \in {"generating", "rendered", "failing"}
             PROVE  status'[worker'[v].p] # "queued"
  BY DEF PastQueued
<1> USE DEF LifeInv, JobInv
<1>1. Touches
  BY StepTouches
<1>2. ASSUME NEW q \in Portfolios, status[q] # "queued", status'[q] = "queued"
      PROVE  request[q] = "enqueued"
  BY <1>1, <1>2 DEF Touches, NoMove, Accepts, Writes, TypeOK, RowStatus
<1>3. CASE worker'[v] = worker[v]
  <2>1. worker[v].p \in Portfolios /\ status[worker[v].p] # "queued"
        /\ request[worker[v].p] = "done"
    BY <1>3 DEF TypeOK, PastQueued, LoadedAreCommitted, BeforeOutcome
  <2> QED
    BY <1>2, <1>3, <2>1
<1>4. ASSUME NEW w \in Workers, WorkerStep(w) \/ DatabaseFails(w) \/ Crash(w),
             worker'[v] # worker[v]
      PROVE  status'[worker'[v].p] # "queued"
  <2>1. worker[w] \in WorkerState /\ worker \in [Workers -> WorkerState]
    BY DEF TypeOK
  <2>2. ASSUME NEW pc, Goto(w, pc), pc \in WorkerPC
        PROVE  /\ v = w
               /\ worker'[v].pc = pc /\ worker'[v].p = worker[w].p
               /\ worker'[v].dirty = worker[w].dirty
    BY <1>4, <2>1, <2>2, GotoFrame
  <2>3. ASSUME NEW p \in Portfolios, NEW n \in Retries, Receive(w, p, n)
        PROVE  FALSE
    <3> DEFINE new == [Idle EXCEPT !.pc = "received", !.p = p, !.n = n]
    <3>1. new.pc = "received"
      BY DEF Idle
    <3>2. worker' = [worker EXCEPT ![w] = new]
      BY <2>3 DEF Receive
    <3> HIDE DEF new
    <3> QED
      BY <1>4, <2>1, <3>1, <3>2
  <2>4. CASE LoadPortfolio(w)
    <3> DEFINE p == worker[w].p
               loaded == [worker[w] EXCEPT !.pc = "loaded", !.resume = source[p],
                                           !.dirty = status[p] # "generating"]
               gone == [worker[w] EXCEPT !.pc = "settled"]
               new == IF Row(p) THEN loaded ELSE gone
    <3>1. new.p = p /\ new.pc \in {"loaded", "settled"}
          /\ (new.pc = "loaded" => new.dirty = (status[p] # "generating"))
      BY <2>1 DEF WorkerState
    <3>2. worker' = [worker EXCEPT ![w] = new] /\ status' = status
      BY <2>4 DEF LoadPortfolio, Runnable
    <3> HIDE DEF new
    <3>3. v = w /\ worker'[v] = new
      BY <1>4, <2>1, <3>2
    <3> QED
      BY <3>1, <3>2, <3>3
  <2>5. CASE MarkGenerating(w)
    <3>1. v = w /\ worker'[v].p = worker[w].p
          /\ (worker'[v].pc = "generating" \/ worker'[v].pc = "raised")
      BY <2>2, <2>5 DEF MarkGenerating, WorkerPC
    <3>2. CASE worker[w].dirty
      <4>1. worker[w].p \in Portfolios
        BY <2>5 DEF MarkGenerating, At, TypeOK
      <4>2. Goto(w, "raised") \/ status' = [status EXCEPT ![worker[w].p] = "generating"]
        BY <2>5, <3>2 DEF MarkGenerating
      <4>3. Goto(w, "raised") => worker'[v].pc = "raised"
        BY <2>2 DEF WorkerPC
      <4> QED
        BY <3>1, <4>1, <4>2, <4>3 DEF TypeOK
    <3>3. CASE ~worker[w].dirty
      BY <2>5, <3>1, <3>3 DEF MarkGenerating, PastQueued, At
    <3> QED
      BY <3>2, <3>3
  <2>6. CASE Render(w)
    <3>1. v = w /\ worker'[v].p = worker[w].p
      BY <2>2, <2>6 DEF Render, WorkerPC, OnError
    <3> QED
      BY <2>6, <3>1 DEF Render, PastQueued, At
  <2>7. CASE \E pc \in {"published", "failed", "settled", "raised"} : Goto(w, pc)
    BY <2>2, <2>7 DEF WorkerPC
  <2>8. CASE worker' = [worker EXCEPT ![w] = Idle]
    BY <1>4, <2>1, <2>8 DEF Idle
  <2> QED
    BY <1>4, <2>3, <2>4, <2>5, <2>6, <2>7, <2>8 DEF WorkerStep, CommitPublished,
       CommitFailed, AnnouncePublished, AnnounceFailed, Announce, RetryOrDeadLetter,
       Acknowledge, DatabaseFails, Crash
<1>5. CASE worker' = worker
  BY <1>3, <1>5
<1> QED
  BY <1>3, <1>4, <1>5 DEF Next, HandlerStep, AdmitRequest, InsertRow, EnqueueTask, CommitRow,
     LoseRequest, DeletePortfolio, ResumeParsed, DeleteResume, vars

\* Every such step is a step of the lifecycle, or leaves it alone.
LEMMA TouchesRefines == LifeInv /\ Touches => [Lifecycle!Next]_Stage
<1> SUFFICES ASSUME LifeInv, Touches PROVE Lifecycle!Next \/ Stage' = Stage
  OBVIOUS
<1> USE DEF LifeInv, JobInv, TypeOK
<1>1. CASE NoMove
  BY <1>1 DEF NoMove, Stage, Row
<1>2. ASSUME NEW p \in Portfolios, Accepts(p)
      PROVE  Lifecycle!Accept(p)
  <2>1. Stage[p] = "none"
    BY <1>2 DEF Stage, Row, Accepts
  <2>2. Stage' = [Stage EXCEPT ![p] = "queued"]
    BY <1>2 DEF Stage, Row, Accepts
  <2> QED
    BY <2>1, <2>2 DEF Lifecycle!Accept, Lifecycle!Moves
<1>3. ASSUME NEW p \in Portfolios, Writes(p, RowStatus \ {"absent"}, "absent")
      PROVE  Lifecycle!Delete(p)
  <2>1. Stage[p] \in {"queued", "generating", "published", "failed"}
    BY <1>3 DEF Stage, Row, Writes, RowStatus
  <2>2. request[p] = "done"
    BY <1>3 DEF RowsAreCommitted, Row, Writes
  <2>3. Stage' = [Stage EXCEPT ![p] = "deleted"]
    BY <1>3, <2>2 DEF Stage, Row, Writes
  <2> QED
    BY <2>1, <2>3 DEF Lifecycle!Delete, Lifecycle!Moves, Lifecycle!Outcomes
<1>4. ASSUME NEW p \in Portfolios, Writes(p, RowStatus \ {"absent"}, "generating")
      PROVE  Lifecycle!Begin(p) \/ Stage' = Stage
  <2>1. Stage[p] \in {"queued", "generating", "published", "failed"}
    BY <1>4 DEF Stage, Row, Writes, RowStatus
  <2>2. Stage' = [Stage EXCEPT ![p] = "generating"]
    BY <1>4 DEF Stage, Row, Writes
  <2>3. status[p] = "generating" => Stage' = Stage
    <3>1. status[p] = "generating" => status' = status /\ request' = request
      BY <1>4 DEF Writes
    <3> QED
      BY <3>1 DEF Stage, Row
  <2>4. Stage[p] = "generating" => status[p] = "generating"
    BY DEF Stage, Row
  <2> QED
    BY <2>1, <2>2, <2>3, <2>4 DEF Lifecycle!Begin, Lifecycle!Moves, Lifecycle!Outcomes
<1>5. ASSUME NEW p \in Portfolios, NEW o \in {"published", "failed"},
             Writes(p, {"generating", "published", "failed"}, o)
      PROVE  Lifecycle!Finish(p)
  <2>1. Stage[p] \in {"generating", "published", "failed"}
    BY <1>5 DEF Stage, Row, Writes
  <2>2. Stage' = [Stage EXCEPT ![p] = o]
    BY <1>5 DEF Stage, Row, Writes
  <2> QED
    BY <2>1, <2>2 DEF Lifecycle!Finish, Lifecycle!Moves, Lifecycle!Outcomes
<1> QED
  BY <1>1, <1>2, <1>3, <1>4, <1>5 DEF Touches, Lifecycle!Next

\* The handler, the queue and the workers implement the lifecycle of
\* PortfolioLifecycle (ImplementsLifecycle): whatever crashes, duplicates,
\* retries and races with deletion happen, an accepted portfolio moves only
\* along it, and a deleted one never returns.
THEOREM Implementation == Spec => ImplementsLifecycle
<1>1. Init => Lifecycle!Init
  BY DEF Init, Lifecycle!Init, Stage, Row
<1>2. Init => LifeInv
  BY JobInvInit DEF Init, LifeInv, PastQueued, Idle
<1>3. LifeInv /\ [Next]_vars => LifeInv'
  BY JobInvStep, PastQueuedStep DEF LifeInv
<1>4. LifeInv /\ [Next]_vars => [Lifecycle!Next]_Stage
  BY StepTouches, TouchesRefines
<1> QED
  BY <1>1, <1>2, <1>3, <1>4, PTL DEF Spec, ImplementsLifecycle, Lifecycle!SafeSpec

(***************************************************************************)
(* The plan limit.  What a user holds, rows and open requests together,    *)
(* grows only when a request is admitted, and then both parts were counted.*)
(***************************************************************************)
OpenPC  == {"admitted", "inserted", "enqueued"}
Holds(p, u) == owner[p] = u /\ (Row(p) \/ request[p] \in OpenPC)
Held(u) == {p \in Portfolios : Holds(p, u)}
HeldBounded ==
    \A u \in FreeUsers :
        /\ IsFiniteSet(Held(u))
        /\ Cardinality(Held(u)) <= FreePortfolioLimit + MaxInFlight - 1
LimitInv == JobInv /\ HeldBounded

\* No row is counted twice: a portfolio is held as a row or as a request.
LEMMA HeldParts ==
  ASSUME RowsAreCommitted, NEW u, IsFiniteSet(Held(u))
  PROVE  /\ IsFiniteSet(RowsOf(u)) /\ IsFiniteSet(OpenRequests(u))
         /\ Cardinality(RowsOf(u)) \in Nat /\ Cardinality(OpenRequests(u)) \in Nat
         /\ Cardinality(Held(u)) = Cardinality(RowsOf(u)) + Cardinality(OpenRequests(u))
<1>1. Held(u) = RowsOf(u) \cup OpenRequests(u)
  BY DEF Held, Holds, RowsOf, OpenRequests, OpenPC
<1>2. RowsOf(u) \cap OpenRequests(u) = {}
  BY DEF RowsAreCommitted, RowsOf, OpenRequests
<1>3. IsFiniteSet(RowsOf(u)) /\ IsFiniteSet(OpenRequests(u))
  BY <1>1, FS_Subset
<1>4. Cardinality(RowsOf(u)) \in Nat /\ Cardinality(OpenRequests(u)) \in Nat
  BY <1>3, FS_CardinalityType
<1>5. Cardinality(RowsOf(u) \cap OpenRequests(u)) = 0
  BY <1>2, FS_EmptySet
<1>6. Cardinality(RowsOf(u) \cup OpenRequests(u))
        = Cardinality(RowsOf(u)) + Cardinality(OpenRequests(u))
          - Cardinality(RowsOf(u) \cap OpenRequests(u))
  BY <1>3, FS_Union
<1> QED
  BY <1>1, <1>3, <1>4, <1>5, <1>6

\* Only AdmitRequest gives anything to a user.
LEMMA OnlyAdmissionGives ==
  ASSUME JobInv, Next, NEW u \in FreeUsers,
         ~ \E p \in Portfolios, r \in Resumes : AdmitRequest(p, r)
  PROVE  Held(u)' \subseteq Held(u)
<1> SUFFICES ASSUME NEW q \in Portfolios, Holds(q, u)'
             PROVE  Holds(q, u)
  BY DEF Held
<1> USE DEF Holds, Row, OpenPC
<1>0. u # None /\ owner \in [Portfolios -> Users \cup {None}]
      /\ request \in [Portfolios -> RequestPC] /\ status \in [Portfolios -> RowStatus]
  BY ConstantsAssumption DEF JobInv, TypeOK
<1>1. CASE \E p \in Portfolios : HandlerStep(p) \/ LoseRequest(p)
  BY <1>0, <1>1 DEF HandlerStep, InsertRow, EnqueueTask, CommitRow, LoseRequest,
     Rollback, NoFault, Fault, ghostVars, faultVars
<1>2. CASE \E p \in Portfolios : DeletePortfolio(p)
  BY <1>0, <1>2 DEF DeletePortfolio
<1>3. CASE \E r \in Resumes : ResumeParsed(r) \/ DeleteResume(r)
  BY <1>3 DEF ResumeParsed, DeleteResume
<1>4. CASE \E w \in Workers : \/ MarkGenerating(w) \/ CommitPublished(w)
                              \/ CommitFailed(w)
  <2> PICK w \in Workers : MarkGenerating(w) \/ CommitPublished(w) \/ CommitFailed(w)
    BY <1>4
  <2>1. owner' = owner /\ request' = request
    BY DEF MarkGenerating, CommitPublished, CommitFailed
  <2>2. \/ status' = status
        \/ Row(worker[w].p) /\ \E s : status' = [status EXCEPT ![worker[w].p] = s]
    BY DEF MarkGenerating, CommitPublished, CommitFailed, UpdateFindsRow
  <2> QED
    BY <1>0, <2>1, <2>2
<1>5. CASE \E w \in Workers :
             \/ \E p \in Portfolios, n \in Retries : Receive(w, p, n)
             \/ LoadPortfolio(w) \/ Render(w) \/ AnnouncePublished(w)
             \/ AnnounceFailed(w) \/ RetryOrDeadLetter(w) \/ Acknowledge(w)
             \/ DatabaseFails(w) \/ Crash(w)
  BY <1>5 DEF Receive, LoadPortfolio, Render, AnnouncePublished, AnnounceFailed,
     Announce, RetryOrDeadLetter, Acknowledge, DatabaseFails, Crash
<1> QED
  BY <1>1, <1>2, <1>3, <1>4, <1>5 DEF Next, WorkerStep

LEMMA HeldBoundedStep ==
  ASSUME LimitInv, [Next]_vars
  PROVE  HeldBounded'
<1> SUFFICES ASSUME NEW u \in FreeUsers
             PROVE  /\ IsFiniteSet(Held(u)')
                    /\ Cardinality(Held(u)') <= FreePortfolioLimit + MaxInFlight - 1
  BY DEF HeldBounded
<1>1. /\ IsFiniteSet(Held(u)) /\ Cardinality(Held(u)) \in Nat
      /\ Cardinality(Held(u)) <= FreePortfolioLimit + MaxInFlight - 1
  BY FS_CardinalityType DEF LimitInv, HeldBounded
<1>2. FreePortfolioLimit \in Nat /\ MaxInFlight \in Nat
  BY ConstantsAssumption
<1>3. CASE Held(u)' \subseteq Held(u)
  <2>1. IsFiniteSet(Held(u)') /\ Cardinality(Held(u)') <= Cardinality(Held(u))
    BY <1>1, <1>3, FS_Subset
  <2>2. Cardinality(Held(u)') \in Nat
    BY <2>1, FS_CardinalityType
  <2> QED
    BY <1>1, <1>2, <2>1, <2>2
<1>4. CASE \E p \in Portfolios, r \in Resumes : AdmitRequest(p, r)
  <2> PICK p \in Portfolios, r \in Resumes : AdmitRequest(p, r)
    BY <1>4
  <2>0. /\ owner \in [Portfolios -> Users \cup {None}]
        /\ request \in [Portfolios -> RequestPC]
        /\ ResumeOwner[r] \in Users
    BY ConstantsAssumption DEF LimitInv, JobInv, TypeOK
  <2>1. /\ owner' = [owner EXCEPT ![p] = ResumeOwner[r]]
        /\ request' = [request EXCEPT ![p] = "admitted"]
        /\ status' = status /\ request[p] = "unused"
    BY DEF AdmitRequest
  <2>2. CASE ResumeOwner[r] # u
    <3>1. Held(u)' \subseteq Held(u)
      BY <2>0, <2>1, <2>2 DEF Held, Holds, Row, OpenPC
    <3> QED
      BY <3>1, <1>3
  <2>3. CASE ResumeOwner[r] = u
    <3>1. Held(u)' \subseteq Held(u) \cup {p}
      BY <2>0, <2>1 DEF Held, Holds, Row, OpenPC
    <3>2. /\ Cardinality(OpenRequests(u)) < MaxInFlight
          /\ Cardinality(RowsOf(u)) < FreePortfolioLimit
      BY <2>3 DEF AdmitRequest, UnderPlanLimit
    <3>3. Cardinality(Held(u)) <= FreePortfolioLimit + MaxInFlight - 2
      BY <1>1, <1>2, <3>2, HeldParts DEF LimitInv, JobInv
    <3>4. /\ IsFiniteSet(Held(u) \cup {p})
          /\ Cardinality(Held(u) \cup {p}) <= Cardinality(Held(u)) + 1
      <4>1. /\ IsFiniteSet(Held(u) \cup {p})
            /\ Cardinality(Held(u) \cup {p})
                 = IF p \in Held(u) THEN Cardinality(Held(u)) ELSE Cardinality(Held(u)) + 1
        BY <1>1, FS_AddElement
      <4> QED
        BY <1>1, <4>1
    <3>5. /\ IsFiniteSet(Held(u)')
          /\ Cardinality(Held(u)') <= Cardinality(Held(u) \cup {p})
      BY <3>1, <3>4, FS_Subset
    <3>6. Cardinality(Held(u)') \in Nat /\ Cardinality(Held(u) \cup {p}) \in Nat
      BY <3>4, <3>5, FS_CardinalityType
    <3> QED
      BY <1>1, <1>2, <3>3, <3>4, <3>5, <3>6
  <2> QED
    BY <2>2, <2>3
<1>5. CASE UNCHANGED vars
  <2>1. Held(u)' = Held(u)
    BY <1>5 DEF vars, Held, Holds, Row
  <2> QED
    BY <2>1, <1>3
<1> QED
  BY <1>3, <1>4, <1>5, OnlyAdmissionGives DEF LimitInv

\* A FREE user never holds more than FREE_PORTFOLIO_LIMIT portfolios and, on
\* top, one for each further request that was open at the same time
\* (FreePlanLimit); with one request at a time the limit is exact.
THEOREM LimitBounded == Spec => []FreePlanLimit
<1>1. Init => LimitInv
  <2>1. Init => \A u \in FreeUsers : Held(u) = {}
    BY DEF Init, Held, Holds, Row, OpenPC
  <2>2. Init => HeldBounded
    BY <2>1, FS_EmptySet, ConstantsAssumption DEF HeldBounded
  <2> QED
    BY <2>2, JobInvInit DEF LimitInv
<1>2. LimitInv /\ [Next]_vars => LimitInv'
  BY HeldBoundedStep, JobInvStep DEF LimitInv
<1>3. LimitInv => FreePlanLimit
  BY HeldParts DEF LimitInv, JobInv, HeldBounded, FreePlanLimit
<1> QED
  BY <1>1, <1>2, <1>3, PTL DEF Spec

-----------------------------------------------------------------------------
(***************************************************************************)
(* The outcome is announced.  A worker that has written an outcome is      *)
(* about to announce it; if it dies there, its message leads another       *)
(* worker to write and announce an outcome again.                          *)
(***************************************************************************)
Outcomes == {"published", "failed"}
Telling(w, p) == worker[w].p = p /\ worker[w].pc = status[p]
Following(p) == Queued(p) \/ \E w \in Workers : Working(w, p) \/ Telling(w, p)
OutcomesFollowed ==
    \A p \in Portfolios :
        status[p] \in Outcomes =>
            status[p] \in announced[p] \/ Following(p) \/ p \in struck
OutcomeInv == JobInv /\ OutcomesFollowed

\* A step of worker w keeps an outcome followed if no other worker moves, no
\* message is taken away, and w does not stop before it has told the outcome.
LEMMA StaysFollowed ==
  ASSUME NEW w \in Workers, NEW p \in Portfolios, Following(p),
         \A v \in Workers \ {w} : worker'[v] = worker[v],
         \A n \in Retries : queue[<<p, n>>] > 0 => queue'[<<p, n>>] > 0,
         status'[p] = status[p],
         Working(w, p) \/ Telling(w, p) => Following(p)'
  PROVE  Following(p)'
<1>1. CASE Queued(p)
  BY <1>1 DEF Queued, Following
<1>2. ASSUME NEW v \in Workers, v # w, Working(v, p) \/ Telling(v, p)
      PROVE  Following(p)'
  <2>1. worker'[v] = worker[v]
    BY <1>2
  <2> QED
    BY <1>2, <2>1 DEF Working, Telling, Following
<1> QED
  BY <1>1, <1>2 DEF Following

\* A step that writes no outcome, moves no worker away from one, takes no
\* message and loses no announcement.
LEMMA OutcomesKept ==
  ASSUME OutcomesFollowed,
         \A p \in Portfolios : status'[p] \in Outcomes =>
            /\ status'[p] = status[p]
            /\ announced[p] \subseteq announced'[p]
            /\ Following(p) => \/ Following(p)'
                               \/ status[p] \in announced'[p]
                               \/ p \in struck',
         struck \subseteq struck'
  PROVE  OutcomesFollowed'
  BY DEF OutcomesFollowed

LEMMA OutcomesApi ==
  ASSUME OutcomeInv, NEW p, NEW r,
         \/ p \in Portfolios /\ r \in Resumes /\ AdmitRequest(p, r)
         \/ p \in Portfolios /\ (\/ InsertRow(p) \/ EnqueueTask(p) \/ CommitRow(p)
                                \/ LoseRequest(p) \/ DeletePortfolio(p))
         \/ r \in Resumes /\ (ResumeParsed(r) \/ DeleteResume(r))
  PROVE  OutcomesFollowed'
<1> USE DEF OutcomeInv, JobInv, ghostVars, faultVars, NoFault, Fault, Rollback
<1>1. worker' = worker /\ announced' = announced /\ struck \subseteq struck'
  BY DEF AdmitRequest, InsertRow, EnqueueTask, CommitRow, LoseRequest,
         DeletePortfolio, ResumeParsed, DeleteResume
<1>2. \A m \in Portfolios \X Retries : queue[m] > 0 => queue'[m] > 0
  <2>1. CASE UNCHANGED queue
    BY <2>1
  <2>2. CASE p \in Portfolios /\ Publish(p, 0)
    <3>1. 0 \in Retries /\ queue \in [Portfolios \X Retries -> Nat]
      BY ConstantsAssumption DEF TypeOK, Retries
    <3> QED
      BY <2>2, <3>1, PublishFrame
  <2> QED
    BY <2>1, <2>2 DEF AdmitRequest, InsertRow, EnqueueTask, CommitRow, LoseRequest,
         DeletePortfolio, ResumeParsed, DeleteResume
<1>3. \A q \in Portfolios : status'[q] \in {status[q], "absent", "queued"}
  BY DEF TypeOK, AdmitRequest, InsertRow, EnqueueTask, CommitRow,
         LoseRequest, DeletePortfolio, ResumeParsed, DeleteResume
<1>4. ASSUME NEW q \in Portfolios, status'[q] \in Outcomes, Following(q)
      PROVE  Following(q)'
  <2>1. status'[q] = status[q]
    BY <1>3, <1>4 DEF Outcomes
  <2>2. Queued(q) => Queued(q)'
    BY <1>2 DEF Queued
  <2>3. \A w \in Workers : /\ Working(w, q) => Working(w, q)'
                           /\ Telling(w, q) => Telling(w, q)'
    BY <1>1, <2>1 DEF Working, Telling
  <2> QED
    BY <1>4, <2>2, <2>3 DEF Following
<1> QED
  BY <1>1, <1>3, <1>4, OutcomesKept DEF Outcomes

\* The steps of a worker up to its outcome.  An UPDATE that finds no row is one
\* of a row that shows no outcome.
LEMMA OutcomesStart ==
  ASSUME OutcomeInv, NEW w \in Workers,
         \/ \E p \in Portfolios, n \in Retries : Receive(w, p, n)
         \/ LoadPortfolio(w) \/ MarkGenerating(w) \/ Render(w) \/ DatabaseFails(w)
  PROVE  OutcomesFollowed'
<1> USE DEF OutcomeInv, JobInv, ghostVars, faultVars, NoFault, Fault
<1>1. worker \in [Workers -> WorkerState] /\ worker[w] \in WorkerState
  BY DEF TypeOK
<1>2. /\ announced' = announced /\ struck \subseteq struck'
      /\ \A q \in Portfolios : status'[q] \in {status[q], "generating"}
  BY DEF TypeOK, Receive, LoadPortfolio, MarkGenerating, Render, DatabaseFails
<1> SUFFICES ASSUME NEW q \in Portfolios, status'[q] = status[q], status[q] \in Outcomes,
                    Following(q)
             PROVE  Following(q)' \/ q \in struck'
  BY <1>2, OutcomesKept DEF Outcomes
<1>3. Row(q)
  BY DEF Row, Outcomes
<1>4. ASSUME NEW p \in Portfolios, NEW n \in Retries, Receive(w, p, n)
      PROVE  Following(q)'
  <2> DEFINE new == [Idle EXCEPT !.pc = "received", !.p = p, !.n = n]
  <2>1. new.pc = "received" /\ new.p = p /\ worker' = [worker EXCEPT ![w] = new]
    BY <1>4 DEF Idle, Receive
  <2> HIDE DEF new
  <2>2. worker'[w].pc = "received" /\ worker'[w].p = p /\ worker[w].pc = "idle"
        /\ \A v \in Workers \ {w} : worker'[v] = worker[v]
    BY <1>1, <1>4, <2>1 DEF Receive, At
  <2>3. CASE q = p
    BY <2>2, <2>3 DEF Following, Working, BeforeOutcome
  <2>4. CASE q # p
    <3>1. \A m \in Retries : queue[<<q, m>>] > 0 => queue'[<<q, m>>] > 0
      BY <1>4, <2>4 DEF Receive, TypeOK
    <3>2. ~Working(w, q) /\ ~Telling(w, q)
      BY <2>2 DEF Working, Telling, BeforeOutcome, Outcomes
    <3> QED
      BY <2>2, <3>1, <3>2, StaysFollowed
  <2> QED
    BY <2>3, <2>4
<1>5. ASSUME ~ \E p \in Portfolios, n \in Retries : Receive(w, p, n)
      PROVE  Following(q)' \/ q \in struck'
  <2> DEFINE p == worker[w].p
  <2>1. worker[w].pc \in BeforeOutcome /\ p \in Portfolios /\ UNCHANGED queue
    BY <1>5 DEF LoadPortfolio, MarkGenerating, Render, DatabaseFails, At, BeforeOutcome, TypeOK
  <2>2. /\ \A v \in Workers \ {w} : worker'[v] = worker[v]
        /\ worker'[w].p = p
        /\ worker'[w].pc \in BeforeOutcome \/ ~Row(p) \/ p \in struck'
    <3>1. CASE LoadPortfolio(w)
      <4> DEFINE loaded == [worker[w] EXCEPT !.pc = "loaded", !.resume = source[p],
                                             !.dirty = status[p] # "generating"]
                 gone == [worker[w] EXCEPT !.pc = "settled"]
                 new == IF Row(p) THEN loaded ELSE gone
      <4>1. new.p = p /\ new.pc = IF Row(p) THEN "loaded" ELSE "settled"
        BY <1>1 DEF WorkerState
      <4>2. worker' = [worker EXCEPT ![w] = new]
        BY <3>1 DEF LoadPortfolio, Runnable
      <4> HIDE DEF new
      <4> QED
        BY <1>1, <4>1, <4>2 DEF BeforeOutcome
    <3>2. ASSUME ~LoadPortfolio(w)
          PROVE  \E pc \in WorkerPC : /\ Goto(w, pc)
                                      /\ pc \in BeforeOutcome \/ ~Row(p) \/ p \in struck'
      BY <1>5, <3>2 DEF MarkGenerating, Render, DatabaseFails, UpdateFindsRow, OnError,
         WorkerPC, BeforeOutcome
    <3> QED
      BY <1>1, <3>1, <3>2, GotoFrame
  <2>3. CASE q # p
    <3>1. ~Working(w, q) /\ ~Telling(w, q)
      BY <2>3 DEF Working, Telling
    <3> QED
      BY <2>1, <2>2, <3>1, StaysFollowed
  <2>4. CASE q = p
    BY <1>3, <2>2, <2>4 DEF Following, Working
  <2> QED
    BY <2>3, <2>4
<1> QED
  BY <1>4, <1>5

\* The worker that writes an outcome is the one to tell it.
LEMMA OutcomesWritten ==
  ASSUME OutcomeInv, NEW w \in Workers, CommitPublished(w) \/ CommitFailed(w)
  PROVE  OutcomesFollowed'
<1> USE DEF OutcomeInv, JobInv, ghostVars, faultVars, NoFault
<1> DEFINE p == worker[w].p
<1>1. worker[w].pc \in {"rendered", "failing"} /\ p \in Portfolios
      /\ worker \in [Workers -> WorkerState] /\ status \in [Portfolios -> RowStatus]
  BY DEF CommitPublished, CommitFailed, At, TypeOK
<1>2. UNCHANGED <<queue, announced, struck>>
  BY DEF CommitPublished, CommitFailed
<1>3. PICK pc \in {"published", "failed", "raised"} :
         /\ Goto(w, pc)
         /\ IF pc = "raised" THEN ~Row(p) /\ status' = status
                             ELSE Row(p) /\ status' = [status EXCEPT ![p] = pc]
  BY DEF CommitPublished, CommitFailed, UpdateFindsRow
<1>4. /\ worker'[w].pc = pc /\ worker'[w].p = p
      /\ \A v \in Workers \ {w} : worker'[v] = worker[v]
  <2>1. pc \in WorkerPC
    BY DEF WorkerPC
  <2> QED
    BY <1>1, <1>3, <2>1, GotoFrame
<1>5. ASSUME NEW q \in Portfolios, status'[q] \in Outcomes
      PROVE  status'[q] \in announced'[q] \/ Following(q)' \/ q \in struck'
  <2>1. CASE q = p
    <3>1. pc # "raised"
      BY <1>3, <1>5, <2>1 DEF Row, Outcomes
    <3>2. Telling(w, q)'
      BY <1>1, <1>3, <1>4, <2>1, <3>1 DEF Telling
    <3> QED
      BY <3>2 DEF Following
  <2>2. CASE q # p
    <3>1. status'[q] = status[q]
      BY <1>1, <1>3, <2>2
    <3>2. ~Working(w, q) /\ ~Telling(w, q)
      BY <2>2 DEF Working, Telling
    <3>3. Following(q) => Following(q)'
      BY <1>2, <1>4, <3>1, <3>2, StaysFollowed
    <3> QED
      BY <1>2, <1>5, <3>1, <3>3 DEF OutcomesFollowed
  <2> QED
    BY <2>1, <2>2
<1> QED
  BY <1>5 DEF OutcomesFollowed

\* Telling, the end of the task, and the death of a worker.
LEMMA OutcomesEnd ==
  ASSUME OutcomeInv, NEW w \in Workers,
         \/ AnnouncePublished(w) \/ AnnounceFailed(w) \/ RetryOrDeadLetter(w)
         \/ Acknowledge(w) \/ Crash(w)
  PROVE  OutcomesFollowed'
<1> USE DEF OutcomeInv, JobInv, ghostVars, faultVars, NoFault, Fault
<1> DEFINE p == worker[w].p
<1>1. p \in Portfolios /\ worker[w].n \in Retries /\ worker \in [Workers -> WorkerState]
      /\ queue \in [Portfolios \X Retries -> Nat]
      /\ announced \in [Portfolios -> SUBSET {"published", "failed"}]
  BY DEF AnnouncePublished, AnnounceFailed, Announce, RetryOrDeadLetter, Acknowledge,
         Crash, At, TypeOK, WorkerState
<1>2. \A v \in Workers \ {w} : worker'[v] = worker[v]
  <2>1. CASE worker' = [worker EXCEPT ![w] = Idle]
    BY <1>1, <2>1
  <2>2. CASE \E pc \in WorkerPC : Goto(w, pc)
    BY <1>1, <2>2, GotoFrame
  <2> QED
    BY <2>1, <2>2 DEF AnnouncePublished, AnnounceFailed, Announce, RetryOrDeadLetter,
       Acknowledge, Crash, WorkerPC
<1>3. status' = status /\ struck \subseteq struck'
      /\ \A q \in Portfolios : announced[q] \subseteq announced'[q]
  BY <1>1 DEF AnnouncePublished, AnnounceFailed, Announce, RetryOrDeadLetter, Acknowledge, Crash
<1>4. \A m \in Portfolios \X Retries : queue[m] > 0 => queue'[m] > 0
  <2>1. CASE UNCHANGED queue
    BY <2>1
  <2>2. ASSUME NEW n \in Retries, Publish(p, n)
        PROVE  \A m \in Portfolios \X Retries : queue[m] > 0 => queue'[m] > 0
    BY <1>1, <2>2, PublishFrame
  <2>3. worker[w].n < MaxRetries => worker[w].n + 1 \in Retries
    BY <1>1, ConstantsAssumption DEF Retries
  <2> QED
    BY <1>1, <2>1, <2>2, <2>3 DEF AnnouncePublished, AnnounceFailed, Announce,
       RetryOrDeadLetter, Acknowledge, Release, Crash, Redeliver
<1>5. ASSUME NEW q \in Portfolios, status[q] \in Outcomes, Following(q),
             status[q] \notin announced'[q], q \notin struck'
      PROVE  Following(q)'
  <2>1. Working(w, q) \/ Telling(w, q) => Crash(w) /\ q = p
    <3>1. Acknowledge(w) \/ RetryOrDeadLetter(w) => ~(Working(w, q) \/ Telling(w, q))
      BY <1>5 DEF Acknowledge, RetryOrDeadLetter, At, Working, Telling, BeforeOutcome, Outcomes
    <3>2. ASSUME AnnouncePublished(w) \/ AnnounceFailed(w), Working(w, q) \/ Telling(w, q)
          PROVE  FALSE
      <4>1. Telling(w, q) /\ q = p
        BY <3>2 DEF AnnouncePublished, AnnounceFailed, Announce, At, Working, BeforeOutcome,
           Telling
      <4>2. status[p] \in announced'[p] \/ p \in struck'
        BY <1>1, <3>2, <4>1 DEF AnnouncePublished, AnnounceFailed, Announce, At, Telling
      <4> QED
        BY <1>5, <4>1, <4>2
    <3> QED
      BY <3>1, <3>2 DEF Working, Telling
  <2>2. Crash(w) => \E n \in Retries : queue'[<<p, n>>] > 0
    <3>1. Crash(w) => Publish(p, worker[w].n)
      BY DEF Crash, Redeliver
    <3>2. Crash(w) => queue'[<<p, worker[w].n>>] > 0
      BY <1>1, <3>1, PublishFrame
    <3> QED
      BY <1>1, <3>2
  <2>3. Working(w, q) \/ Telling(w, q) => Following(q)'
    BY <2>1, <2>2 DEF Following, Queued
  <2> QED
    BY <1>2, <1>3, <1>4, <1>5, <2>3, StaysFollowed
<1> QED
  BY <1>3, <1>5, OutcomesKept

LEMMA OutcomeInvStep == OutcomeInv /\ [Next]_vars => OutcomeInv'
<1> SUFFICES ASSUME OutcomeInv, [Next]_vars PROVE OutcomesFollowed'
  BY JobInvStep DEF OutcomeInv
<1>1. ASSUME NEW p \in Portfolios, NEW r \in Resumes, AdmitRequest(p, r)
      PROVE  OutcomesFollowed'
  BY <1>1, OutcomesApi
<1>2. ASSUME NEW p \in Portfolios, HandlerStep(p) \/ LoseRequest(p) \/ DeletePortfolio(p)
      PROVE  OutcomesFollowed'
  BY <1>2, OutcomesApi DEF HandlerStep
<1>3. ASSUME NEW r \in Resumes, ResumeParsed(r) \/ DeleteResume(r)
      PROVE  OutcomesFollowed'
  BY <1>3, OutcomesApi
<1>4. ASSUME NEW w \in Workers, WorkerStep(w) \/ DatabaseFails(w) \/ Crash(w)
      PROVE  OutcomesFollowed'
  BY <1>4, OutcomesStart, OutcomesWritten, OutcomesEnd DEF WorkerStep
<1>5. CASE UNCHANGED vars
  BY <1>5 DEF vars, OutcomeInv, OutcomesFollowed, Following, Queued, Working, Telling
<1> QED
  BY <1>1, <1>2, <1>3, <1>4, <1>5 DEF Next

\* Every outcome that a portfolio shows has been announced to the subscribers
\* once nothing is left to run for it (OutcomeAnnounced): no number of deaths
\* between the commit and the event, and no duplicate that writes another
\* outcome meanwhile, leaves them with the wrong news or with none.
THEOREM OutcomeTold == Spec => []OutcomeAnnounced
<1>1. Init => OutcomeInv
  BY JobInvInit DEF Init, OutcomeInv, OutcomesFollowed, Outcomes
<1>2. OutcomeInv => OutcomeAnnounced
  BY DEF OutcomeInv, OutcomesFollowed, Outcomes, OutcomeAnnounced, Following, Working,
     Telling, BeforeOutcome, Live, Holding, At
<1> QED
  BY <1>1, <1>2, OutcomeInvStep, PTL DEF Spec

-----------------------------------------------------------------------------
(***************************************************************************)
(* Copies of a task.  A retry is published by a worker that then gives its *)
(* own copy up, so only a death adds one.  That the count is exact needs a *)
(* bound on each counter of the queue, and that nothing is queued or held  *)
(* of a portfolio before its request sends the message.                    *)
(***************************************************************************)
Unsent == {"unused", "admitted", "inserted"}
Holders(p) == {w \in Workers : Holding(w, p) /\ ~At(w, "settled")}
Messages(p) == {m \in Retries \X (1..(MaxCrashes + 1)) : m[2] <= queue[<<p, m[1]>>]}
CopiesOK(p) ==
    /\ IsFiniteSet(Holders(p))
    /\ LiveCopies(p) <= 1 + crashes
    /\ \A n \in Retries : queue[<<p, n>>] <= 1 + crashes
    /\ request[p] \in Unsent =>
         /\ \A n \in Retries : queue[<<p, n>>] = 0
         /\ \A w \in Workers : ~Holding(w, p)
CopyInv ==
    /\ TypeOK
    /\ crashes <= MaxCrashes
    /\ \A p \in Portfolios : CopiesOK(p)

LEMMA CopyCount ==
  ASSUME NEW p, IsFiniteSet(Holders(p))
  PROVE  /\ LiveCopies(p) = Cardinality(Holders(p)) + Cardinality(Messages(p))
         /\ Cardinality(Holders(p)) \in Nat
         /\ IsFiniteSet(Messages(p)) /\ Cardinality(Messages(p)) \in Nat
<1>1. IsFiniteSet(Retries) /\ IsFiniteSet(1..(MaxCrashes + 1))
  BY ConstantsAssumption, FS_Interval DEF Retries
<1>2. IsFiniteSet(Retries \X (1..(MaxCrashes + 1)))
  BY <1>1, FS_Product
<1>3. IsFiniteSet(Messages(p))
  BY <1>2, FS_Subset DEF Messages
<1> QED
  BY <1>3, FS_CardinalityType DEF LiveCopies, Holders, Messages

\* The same of the next state.
LEMMA CopyCountNext ==
  ASSUME NEW p, IsFiniteSet(Holders(p)')
  PROVE  /\ LiveCopies(p)' = Cardinality(Holders(p)') + Cardinality(Messages(p)')
         /\ Cardinality(Holders(p)') \in Nat
         /\ IsFiniteSet(Messages(p)') /\ Cardinality(Messages(p)') \in Nat
<1>1. IsFiniteSet(Retries) /\ IsFiniteSet(1..(MaxCrashes + 1))
  BY ConstantsAssumption, FS_Interval DEF Retries
<1>2. IsFiniteSet(Retries \X (1..(MaxCrashes + 1)))
  BY <1>1, FS_Product
<1>3. IsFiniteSet(Messages(p)')
  BY <1>2, FS_Subset DEF Messages
<1> QED
  BY <1>3, FS_CardinalityType DEF LiveCopies, Holders, Messages

\* As many messages with one retry count are as many messages.
LEMMA FullCounter ==
  ASSUME NEW p, NEW n \in Retries, NEW k \in Nat, IsFiniteSet(Messages(p)),
         k <= MaxCrashes + 1, queue[<<p, n>>] \in Nat, queue[<<p, n>>] >= k
  PROVE  k <= Cardinality(Messages(p))
<1>1. {n} \X (1..k) \subseteq Messages(p)
  BY ConstantsAssumption DEF Messages
<1>2. IsFiniteSet({n}) /\ Cardinality({n}) = 1
  BY FS_Singleton
<1>3. IsFiniteSet(1..k) /\ Cardinality(1..k) = k
  BY FS_Interval
<1>4. IsFiniteSet({n} \X (1..k)) /\ Cardinality({n} \X (1..k)) = k
  <2> DEFINE one == {n}
             upTo == 1..k
  <2>1. /\ IsFiniteSet(one) /\ Cardinality(one) = 1
        /\ IsFiniteSet(upTo) /\ Cardinality(upTo) = k
    BY <1>2, <1>3
  <2> HIDE DEF one, upTo
  <2>2. /\ IsFiniteSet(one \X upTo)
        /\ Cardinality(one \X upTo) = Cardinality(one) * Cardinality(upTo)
    BY <2>1, FS_Product
  <2>3. Cardinality(one \X upTo) = k
    BY <2>1, <2>2
  <2> QED
    BY <2>2, <2>3 DEF one, upTo
<1>5. Cardinality({n} \X (1..k)) <= Cardinality(Messages(p))
  BY <1>1, FS_Subset
<1> QED
  BY <1>4, <1>5

LEMMA PublishAdds ==
  ASSUME queue \in [Portfolios \X Retries -> Nat],
         NEW p \in Portfolios, NEW n \in Retries, Publish(p, n),
         IsFiniteSet(Holders(p)), IsFiniteSet(Holders(p)')
  PROVE  /\ Cardinality(Messages(p)') <= Cardinality(Messages(p)) + 1
         /\ queue'[<<p, n>>] = queue[<<p, n>>] + 1
         /\ \A m \in Retries \ {n} : queue'[<<p, m>>] = queue[<<p, m>>]
         /\ \A q \in Portfolios \ {p}, m \in Retries : queue'[<<q, m>>] = queue[<<q, m>>]
<1> DEFINE new == <<n, queue[<<p, n>>] + 1>>
<1>1. /\ queue'[<<p, n>>] = queue[<<p, n>>] + 1
      /\ \A m \in Retries \ {n} : queue'[<<p, m>>] = queue[<<p, m>>]
      /\ \A q \in Portfolios \ {p}, m \in Retries : queue'[<<q, m>>] = queue[<<q, m>>]
      /\ queue[<<p, n>>] \in Nat
  BY DEF Publish
<1>2. Messages(p)' \subseteq Messages(p) \cup {new}
  <2> SUFFICES ASSUME NEW k \in Retries, NEW i \in 1..(MaxCrashes + 1),
                      i <= queue'[<<p, k>>], <<k, i>> # new
               PROVE  i <= queue[<<p, k>>]
    BY DEF Messages
  <2>1. CASE k # n
    BY <1>1, <2>1
  <2>2. CASE k = n
    <3>1. i # queue[<<p, n>>] + 1 /\ i <= queue[<<p, n>>] + 1 /\ i \in Int
      BY <1>1, <2>2, ConstantsAssumption
    <3> QED
      BY <1>1, <2>2, <3>1
  <2> QED
    BY <2>1, <2>2
<1>3. IsFiniteSet(Messages(p)) /\ Cardinality(Messages(p)) \in Nat
      /\ Cardinality(Messages(p)') \in Nat
  BY CopyCount, CopyCountNext
<1> HIDE DEF new
<1>4. /\ IsFiniteSet(Messages(p) \cup {new})
      /\ Cardinality(Messages(p) \cup {new}) \in
           {Cardinality(Messages(p)), Cardinality(Messages(p)) + 1}
  BY <1>3, FS_AddElement
<1>5. Cardinality(Messages(p)') <= Cardinality(Messages(p) \cup {new})
  BY <1>2, <1>4, FS_Subset
<1> QED
  BY <1>1, <1>3, <1>4, <1>5

\* A step that gives no worker a copy and leaves the messages of p alone.
LEMMA CopiesShrink ==
  ASSUME NEW p \in Portfolios, TypeOK, crashes' \in Nat, CopiesOK(p),
         \A w \in Workers : Holding(w, p)' =>
             Holding(w, p) /\ (At(w, "settled") => At(w, "settled")'),
         \A n \in Retries : queue'[<<p, n>>] = queue[<<p, n>>],
         request'[p] \in Unsent => request[p] \in Unsent,
         crashes <= crashes'
  PROVE  CopiesOK(p)'
<1>1. Holders(p)' \subseteq Holders(p) /\ Messages(p)' = Messages(p)
  BY DEF Holders, Messages
<1>2. IsFiniteSet(Holders(p)) /\ LiveCopies(p) <= 1 + crashes /\ crashes \in Nat
  BY DEF CopiesOK, TypeOK
<1>3. IsFiniteSet(Holders(p)') /\ Cardinality(Holders(p)') <= Cardinality(Holders(p))
  BY <1>1, <1>2, FS_Subset
<1>4. LiveCopies(p)' <= LiveCopies(p) /\ LiveCopies(p) \in Nat /\ LiveCopies(p)' \in Nat
  BY <1>1, <1>2, <1>3, CopyCount, CopyCountNext
<1>5. LiveCopies(p)' <= 1 + crashes'
  BY <1>2, <1>4
<1>6. \A n \in Retries : queue'[<<p, n>>] <= 1 + crashes'
  <2> TAKE n \in Retries
  <2>1. queue[<<p, n>>] \in Nat /\ queue[<<p, n>>] <= 1 + crashes
    BY DEF TypeOK, CopiesOK
  <2> QED
    BY <1>2, <2>1
<1> QED
  BY <1>3, <1>5, <1>6 DEF CopiesOK

\* The steps of the API: only EnqueueTask sends, and nothing of the portfolio
\* was sent before.
LEMMA CopiesApi ==
  ASSUME CopyInv, TypeOK', NEW p, NEW r,
         \/ p \in Portfolios /\ r \in Resumes /\ AdmitRequest(p, r)
         \/ p \in Portfolios /\ (\/ InsertRow(p) \/ EnqueueTask(p) \/ CommitRow(p)
                                \/ LoseRequest(p) \/ DeletePortfolio(p))
         \/ r \in Resumes /\ (ResumeParsed(r) \/ DeleteResume(r))
  PROVE  CopyInv'
<1> USE DEF ghostVars, faultVars, NoFault, Fault, Rollback
<1>1. worker' = worker /\ crashes' = crashes
  BY DEF AdmitRequest, InsertRow, EnqueueTask, CommitRow, LoseRequest,
         DeletePortfolio, ResumeParsed, DeleteResume
<1>2. \A q \in Portfolios : request'[q] \in Unsent => request[q] \in Unsent
  BY DEF CopyInv, TypeOK, Unsent, AdmitRequest, InsertRow, EnqueueTask, CommitRow, LoseRequest,
         DeletePortfolio, ResumeParsed, DeleteResume
<1>3. ASSUME NEW q \in Portfolios,
             \A n \in Retries : queue'[<<q, n>>] = queue[<<q, n>>]
      PROVE  CopiesOK(q)'
  BY <1>1, <1>2, <1>3, CopiesShrink DEF CopyInv, TypeOK, Holding, At
<1>4. CASE UNCHANGED queue
  BY <1>1, <1>3, <1>4 DEF CopyInv
<1>5. CASE p \in Portfolios /\ EnqueueTask(p) /\ Publish(p, 0)
  <2>1. 0 \in Retries /\ queue \in [Portfolios \X Retries -> Nat] /\ crashes \in Nat
    BY ConstantsAssumption DEF CopyInv, TypeOK, Retries
  <2>2. request[p] = "inserted" /\ request'[p] = "enqueued"
    BY <1>5 DEF EnqueueTask, CopyInv, TypeOK
  <2>3. /\ \A n \in Retries : queue[<<p, n>>] = 0
        /\ \A w \in Workers : ~Holding(w, p)
    BY <1>5, <2>2 DEF CopyInv, CopiesOK, Unsent
  <2>4. Holders(p) = {} /\ Holders(p)' = {} /\ Messages(p) = {}
    BY <1>1, <2>3 DEF Holders, Holding, At, Messages
  <2>5. /\ Cardinality(Messages(p)') <= Cardinality(Messages(p)) + 1
        /\ queue'[<<p, 0>>] = queue[<<p, 0>>] + 1
        /\ \A m \in Retries \ {0} : queue'[<<p, m>>] = queue[<<p, m>>]
        /\ \A q \in Portfolios \ {p}, m \in Retries : queue'[<<q, m>>] = queue[<<q, m>>]
    BY <1>5, <2>1, <2>4, FS_EmptySet, PublishAdds
  <2>6. CopiesOK(p)'
    <3>0. IsFiniteSet(Holders(p)') /\ Cardinality(Holders(p)') = 0
          /\ Cardinality(Messages(p)) = 0
      BY <2>4, FS_EmptySet
    <3>1. LiveCopies(p)' <= 1 + crashes'
      BY <1>1, <2>1, <2>5, <3>0, CopyCountNext
    <3>2. \A n \in Retries : queue'[<<p, n>>] <= 1 + crashes'
      BY <1>1, <2>1, <2>3, <2>5
    <3> QED
      BY <2>2, <3>0, <3>1, <3>2 DEF CopiesOK, Unsent
  <2> QED
    BY <1>1, <1>3, <2>5, <2>6 DEF CopyInv
<1> QED
  BY <1>4, <1>5 DEF AdmitRequest, InsertRow, EnqueueTask, CommitRow, LoseRequest,
         DeletePortfolio, ResumeParsed, DeleteResume

\* A message that is received becomes the copy of the worker.
LEMMA CopiesReceive ==
  ASSUME CopyInv, TypeOK', NEW w \in Workers, NEW p \in Portfolios, NEW n \in Retries,
         Receive(w, p, n)
  PROVE  CopyInv'
<1>1. /\ request' = request /\ crashes' = crashes /\ crashes \in Nat
      /\ queue[<<p, n>>] > 0 /\ worker[w].pc = "idle"
      /\ queue' = [queue EXCEPT ![<<p, n>>] = @ - 1]
      /\ queue \in [Portfolios \X Retries -> Nat]
  BY DEF Receive, Available, At, NoFault, faultVars, CopyInv, TypeOK
<1>2. /\ worker'[w].pc = "received" /\ worker'[w].p = p
      /\ \A v \in Workers \ {w} : worker'[v] = worker[v]
  <2> DEFINE new == [Idle EXCEPT !.pc = "received", !.p = p, !.n = n]
  <2>1. new.pc = "received" /\ new.p = p /\ worker' = [worker EXCEPT ![w] = new]
    BY DEF Idle, Receive
  <2> HIDE DEF new
  <2> QED
    BY <2>1 DEF CopyInv, TypeOK
<1>3. /\ queue'[<<p, n>>] = queue[<<p, n>>] - 1 /\ queue[<<p, n>>] \in Nat
      /\ \A m \in Retries \ {n} : queue'[<<p, m>>] = queue[<<p, m>>]
      /\ \A q \in Portfolios \ {p}, m \in Retries : queue'[<<q, m>>] = queue[<<q, m>>]
  BY <1>1
<1>4. ASSUME NEW q \in Portfolios \ {p}
      PROVE  CopiesOK(q)'
  <2>1. \A v \in Workers : Holding(v, q)' =>
             Holding(v, q) /\ (At(v, "settled") => At(v, "settled")')
    BY <1>2, <1>4 DEF Holding, At
  <2> QED
    BY <1>1, <1>3, <2>1, CopiesShrink DEF CopyInv
<1>5. CopiesOK(p) /\ IsFiniteSet(Holders(p)) /\ queue[<<p, n>>] <= MaxCrashes + 1
  <2>1. queue[<<p, n>>] <= 1 + crashes /\ crashes <= MaxCrashes
    BY DEF CopyInv, CopiesOK
  <2> QED
    BY <1>1, <1>3, <2>1, ConstantsAssumption DEF CopyInv, CopiesOK
<1>6. Holders(p)' = Holders(p) \cup {w} /\ w \notin Holders(p)
  BY <1>1, <1>2 DEF Holders, Holding, At
<1>7. /\ IsFiniteSet(Holders(p)')
      /\ Cardinality(Holders(p)') = Cardinality(Holders(p)) + 1
  BY <1>5, <1>6, FS_AddElement
<1> DEFINE last == <<n, queue[<<p, n>>]>>
<1>8. last \in Messages(p) /\ Messages(p)' = Messages(p) \ {last}
  <2>1. last \in Messages(p)
    BY <1>1, <1>3, <1>5, ConstantsAssumption DEF Messages
  <2>2. ASSUME NEW m \in Retries, NEW i \in 1..(MaxCrashes + 1)
        PROVE  i <= queue'[<<p, m>>] <=> i <= queue[<<p, m>>] /\ <<m, i>> # last
    <3>1. CASE m = n
      BY <1>3, <3>1, ConstantsAssumption
    <3>2. CASE m # n
      BY <1>3, <3>2
    <3> QED
      BY <3>1, <3>2
  <2> QED
    BY <2>1, <2>2 DEF Messages
<1> HIDE DEF last
<1>9. Cardinality(Messages(p)') = Cardinality(Messages(p)) - 1
  BY <1>5, <1>8, CopyCount, FS_RemoveElement
<1>10. LiveCopies(p)' = LiveCopies(p)
  BY <1>5, <1>7, <1>9, CopyCount, CopyCountNext
<1>11. \A m \in Retries : queue'[<<p, m>>] <= 1 + crashes'
  <2> TAKE m \in Retries
  <2>1. queue[<<p, m>>] <= 1 + crashes /\ queue[<<p, m>>] \in Nat
    BY <1>1, <1>5 DEF CopiesOK
  <2> QED
    BY <1>1, <1>3, <2>1
<1>12. request'[p] \notin Unsent
  BY <1>1, <1>3, <1>5 DEF CopiesOK
<1>13. CopiesOK(p)'
  BY <1>1, <1>5, <1>7, <1>10, <1>11, <1>12 DEF CopiesOK
<1> QED
  BY <1>1, <1>4, <1>13 DEF CopyInv

\* A worker's step that publishes nothing.
LEMMA CopiesQuiet ==
  ASSUME CopyInv, TypeOK', NEW w \in Workers,
         ~At(w, "idle"), worker'[w].p = worker[w].p \/ worker'[w].pc = "idle",
         At(w, "settled") => worker'[w].pc = "idle",
         \A v \in Workers \ {w} : worker'[v] = worker[v],
         UNCHANGED <<request, queue, crashes>>
  PROVE  CopyInv'
<1>1. ASSUME NEW q \in Portfolios
      PROVE  CopiesOK(q)'
  <2>1. \A v \in Workers : Holding(v, q)' =>
             Holding(v, q) /\ (At(v, "settled") => At(v, "settled")')
    BY DEF Holding, At
  <2>2. CopiesOK(q) /\ crashes \in Nat
    BY DEF CopyInv, TypeOK
  <2> QED
    BY <2>1, <2>2, CopiesShrink DEF CopyInv
<1> QED
  BY <1>1 DEF CopyInv

\* A retry takes the place of the copy that raised.
LEMMA CopiesRetry ==
  ASSUME CopyInv, TypeOK', NEW w \in Workers, RetryOrDeadLetter(w)
  PROVE  CopyInv'
<1> PICK p \in Portfolios, n \in Retries : worker[w].p = p /\ worker[w].n = n
  BY DEF CopyInv, TypeOK, WorkerState, RetryOrDeadLetter, At
<1>1. /\ worker[w].pc = "raised" /\ worker'[w].pc = "settled" /\ worker'[w].p = p
      /\ \A v \in Workers \ {w} : worker'[v] = worker[v]
  <2>1. "settled" \in WorkerPC
    BY DEF WorkerPC
  <2> QED
    BY <2>1, GotoFrame DEF RetryOrDeadLetter, At, CopyInv, TypeOK
<1>2. request' = request /\ crashes' = crashes /\ crashes \in Nat
  BY DEF RetryOrDeadLetter, Fault, NoFault, faultVars, CopyInv, TypeOK
<1>3. CASE UNCHANGED queue
  BY <1>1, <1>2, <1>3, CopiesQuiet DEF At
<1>4. CASE n < MaxRetries /\ Publish(p, n + 1)
  <2> DEFINE m == n + 1
  <2>1. m \in Retries /\ queue \in [Portfolios \X Retries -> Nat]
    BY <1>4, ConstantsAssumption DEF Retries, CopyInv, TypeOK
  <2>2. CopiesOK(p) /\ IsFiniteSet(Holders(p))
    BY DEF CopyInv, CopiesOK
  <2>3. w \in Holders(p) /\ Holders(p)' = Holders(p) \ {w}
    BY <1>1 DEF Holders, Holding, At
  <2>4. /\ IsFiniteSet(Holders(p)')
        /\ Cardinality(Holders(p)') = Cardinality(Holders(p)) - 1
    BY <2>2, <2>3, FS_RemoveElement
  <2> HIDE DEF m
  <2>5. /\ Cardinality(Messages(p)') <= Cardinality(Messages(p)) + 1
        /\ queue'[<<p, m>>] = queue[<<p, m>>] + 1
        /\ \A k \in Retries \ {m} : queue'[<<p, k>>] = queue[<<p, k>>]
        /\ \A q \in Portfolios \ {p}, k \in Retries : queue'[<<q, k>>] = queue[<<q, k>>]
    <3>1. Publish(p, m)
      BY <1>4 DEF m
    <3> QED
      BY <2>1, <2>2, <2>4, <3>1, PublishAdds
  <2>6. LiveCopies(p)' <= 1 + crashes
    <3>1. LiveCopies(p) <= 1 + crashes
      BY <2>2 DEF CopiesOK
    <3> QED
      BY <1>2, <2>2, <2>4, <2>5, <3>1, CopyCount, CopyCountNext
  <2>7. queue[<<p, m>>] <= crashes
    <3> SUFFICES ASSUME queue[<<p, m>>] >= 1 + crashes PROVE FALSE
      BY <1>2, <2>1
    <3>1. crashes + 1 <= Cardinality(Messages(p))
      BY <1>2, <2>1, <2>2, CopyCount, FullCounter, ConstantsAssumption DEF CopyInv
    <3>2. Cardinality(Holders(p)) >= 1
      BY <2>2, <2>4, CopyCount, CopyCountNext
    <3> QED
      BY <1>2, <2>2, <3>1, <3>2, CopyCount DEF CopiesOK
  <2>8. \A k \in Retries : queue'[<<p, k>>] <= 1 + crashes
    BY <1>2, <2>1, <2>2, <2>5, <2>7 DEF CopiesOK
  <2>9. request'[p] \notin Unsent
    BY <1>1, <1>2, <2>2 DEF CopiesOK, Holding, At
  <2>10. CopiesOK(p)'
    BY <1>2, <2>2, <2>4, <2>6, <2>8, <2>9 DEF CopiesOK
  <2>11. ASSUME NEW q \in Portfolios \ {p}
         PROVE  CopiesOK(q)'
    <3>1. \A v \in Workers : Holding(v, q)' =>
             Holding(v, q) /\ (At(v, "settled") => At(v, "settled")')
      BY <1>1, <2>11 DEF Holding, At
    <3> QED
      BY <1>2, <2>5, <3>1, CopiesShrink DEF CopyInv
  <2> QED
    BY <1>2, <2>10, <2>11 DEF CopyInv
<1> QED
  BY <1>3, <1>4 DEF RetryOrDeadLetter

\* A death is one copy more at most: that of a task that had ended.
LEMMA CopiesCrash ==
  ASSUME CopyInv, TypeOK', NEW w \in Workers, Crash(w)
  PROVE  CopyInv'
<1> PICK p \in Portfolios, n \in Retries : worker[w].p = p /\ worker[w].n = n
  BY DEF CopyInv, TypeOK, WorkerState, Crash
<1>1. /\ worker[w].pc # "idle" /\ worker'[w].pc = "idle"
      /\ \A v \in Workers \ {w} : worker'[v] = worker[v]
  BY DEF Crash, CopyInv, TypeOK, Idle
<1>2. /\ request' = request /\ crashes \in Nat /\ crashes' = crashes + 1
      /\ crashes' <= MaxCrashes /\ Publish(p, n)
      /\ queue \in [Portfolios \X Retries -> Nat]
  BY ConstantsAssumption DEF Crash, Redeliver, CopyInv, TypeOK
<1>3. CopiesOK(p) /\ IsFiniteSet(Holders(p))
  BY DEF CopyInv, CopiesOK
<1>4. Holders(p)' \subseteq Holders(p)
  BY <1>1 DEF Holders, Holding, At
<1>5. IsFiniteSet(Holders(p)') /\ Cardinality(Holders(p)') <= Cardinality(Holders(p))
  BY <1>3, <1>4, FS_Subset
<1>6. /\ Cardinality(Messages(p)') <= Cardinality(Messages(p)) + 1
      /\ queue'[<<p, n>>] = queue[<<p, n>>] + 1
      /\ \A k \in Retries \ {n} : queue'[<<p, k>>] = queue[<<p, k>>]
      /\ \A q \in Portfolios \ {p}, k \in Retries : queue'[<<q, k>>] = queue[<<q, k>>]
  BY <1>2, <1>3, <1>5, PublishAdds
<1>7. LiveCopies(p)' <= 1 + crashes'
  <2>1. LiveCopies(p) <= 1 + crashes
    BY <1>3 DEF CopiesOK
  <2> QED
    BY <1>2, <1>3, <1>5, <1>6, <2>1, CopyCount, CopyCountNext
<1>8. \A k \in Retries : queue'[<<p, k>>] <= 1 + crashes'
  <2> TAKE k \in Retries
  <2>1. queue[<<p, k>>] <= 1 + crashes /\ queue[<<p, k>>] \in Nat
    BY <1>2, <1>3 DEF CopiesOK
  <2> QED
    BY <1>2, <1>6, <2>1
<1>9. request'[p] \notin Unsent
  BY <1>1, <1>2, <1>3 DEF CopiesOK, Holding, At
<1>10. CopiesOK(p)'
  BY <1>3, <1>5, <1>7, <1>8, <1>9 DEF CopiesOK
<1>11. ASSUME NEW q \in Portfolios \ {p}
       PROVE  CopiesOK(q)'
  <2>1. \A v \in Workers : Holding(v, q)' =>
             Holding(v, q) /\ (At(v, "settled") => At(v, "settled")')
    BY <1>1, <1>11 DEF Holding, At
  <2> QED
    BY <1>2, <1>6, <2>1, CopiesShrink DEF CopyInv
<1> QED
  BY <1>2, <1>10, <1>11 DEF CopyInv

LEMMA CopyInvStep == CopyInv /\ [Next]_vars => CopyInv'
<1> SUFFICES ASSUME CopyInv, [Next]_vars PROVE CopyInv'
  OBVIOUS
<1>1. TypeOK' /\ worker \in [Workers -> WorkerState]
  BY TypeStep DEF CopyInv, TypeOK
<1>2. ASSUME NEW p \in Portfolios, NEW r \in Resumes, AdmitRequest(p, r)
      PROVE  CopyInv'
  BY <1>1, <1>2, CopiesApi
<1>3. ASSUME NEW p \in Portfolios, HandlerStep(p) \/ LoseRequest(p) \/ DeletePortfolio(p)
      PROVE  CopyInv'
  BY <1>1, <1>3, CopiesApi DEF HandlerStep
<1>4. ASSUME NEW r \in Resumes, ResumeParsed(r) \/ DeleteResume(r)
      PROVE  CopyInv'
  BY <1>1, <1>4, CopiesApi
<1>5. ASSUME NEW w \in Workers, NEW p \in Portfolios, NEW n \in Retries, Receive(w, p, n)
      PROVE  CopyInv'
  BY <1>1, <1>5, CopiesReceive
<1>6. ASSUME NEW w \in Workers, LoadPortfolio(w)
      PROVE  CopyInv'
  <2> DEFINE p == worker[w].p
             loaded == [worker[w] EXCEPT !.pc = "loaded", !.resume = source[p],
                                         !.dirty = status[p] # "generating"]
             gone == [worker[w] EXCEPT !.pc = "settled"]
             new == IF Runnable(p) THEN loaded ELSE gone
  <2>1. new.p = p /\ worker' = [worker EXCEPT ![w] = new]
    BY <1>1, <1>6 DEF WorkerState, LoadPortfolio
  <2> HIDE DEF new
  <2>2. /\ At(w, "received") /\ worker'[w].p = worker[w].p
        /\ \A v \in Workers \ {w} : worker'[v] = worker[v]
        /\ UNCHANGED <<request, queue, crashes>>
    BY <1>1, <1>6, <2>1 DEF LoadPortfolio, NoFault, faultVars
  <2> QED
    BY <1>1, <2>2, CopiesQuiet DEF At
<1>7. ASSUME NEW w \in Workers,
             \/ MarkGenerating(w) \/ Render(w) \/ CommitPublished(w) \/ CommitFailed(w)
             \/ AnnouncePublished(w) \/ AnnounceFailed(w) \/ DatabaseFails(w)
      PROVE  CopyInv'
  <2>1. worker[w].pc \notin {"idle", "settled"} /\ \E pc \in WorkerPC : Goto(w, pc)
    BY <1>7 DEF MarkGenerating, Render, CommitPublished, CommitFailed, AnnouncePublished,
       AnnounceFailed, Announce, DatabaseFails, OnError, At, WorkerPC
  <2>2. UNCHANGED <<request, queue, crashes>>
    BY <1>7 DEF MarkGenerating, Render, CommitPublished, CommitFailed, AnnouncePublished,
       AnnounceFailed, Announce, DatabaseFails, NoFault, Fault, faultVars
  <2>3. worker'[w].p = worker[w].p /\ \A v \in Workers \ {w} : worker'[v] = worker[v]
    BY <1>1, <2>1, GotoFrame
  <2> QED
    BY <1>1, <2>1, <2>2, <2>3, CopiesQuiet DEF At
<1>8. ASSUME NEW w \in Workers, Acknowledge(w)
      PROVE  CopyInv'
  <2>1. /\ At(w, "settled") /\ worker'[w].pc = "idle"
        /\ \A v \in Workers \ {w} : worker'[v] = worker[v]
        /\ UNCHANGED <<request, queue, crashes>>
    BY <1>1, <1>8 DEF Acknowledge, Release, Idle, At, NoFault, faultVars
  <2> QED
    BY <1>1, <2>1, CopiesQuiet DEF At
<1>9. ASSUME NEW w \in Workers, RetryOrDeadLetter(w) \/ Crash(w)
      PROVE  CopyInv'
  BY <1>1, <1>9, CopiesRetry, CopiesCrash
<1>10. CASE UNCHANGED vars
  <2>1. \A q \in Portfolios : LiveCopies(q)' = LiveCopies(q)
    BY <1>10 DEF vars, LiveCopies, Holding, At
  <2> QED
    BY <1>10, <2>1 DEF vars, CopyInv, TypeOK, CopiesOK, Holders, Holding, At
<1> QED
  BY <1>2, <1>3, <1>4, <1>5, <1>6, <1>7, <1>8, <1>9, <1>10 DEF Next, WorkerStep

LEMMA CopyInvInit == Init => CopyInv
<1> SUFFICES ASSUME Init PROVE CopyInv
  OBVIOUS
<1>1. TypeOK
  BY JobInvInit DEF JobInv
<1>2. ASSUME NEW p \in Portfolios
      PROVE  CopiesOK(p)
  <2>1. Holders(p) = {} /\ Messages(p) = {} /\ crashes = 0
    BY DEF Init, Holders, Messages, Holding, At, Idle
  <2>2. LiveCopies(p) <= 1
    BY <2>1, FS_EmptySet, CopyCount
  <2>3. \A n \in Retries : queue[<<p, n>>] = 0
    BY DEF Init
  <2>4. \A w \in Workers : ~Holding(w, p)
    BY DEF Init, Holding, At, Idle
  <2> QED
    BY <2>1, <2>2, <2>3, <2>4, FS_EmptySet DEF CopiesOK
<1> QED
  BY <1>1, <1>2, ConstantsAssumption DEF CopyInv, Init

\* Only a worker's death duplicates a task (DuplicatesNeedCrashes): however many
\* retries there are, the copies of a portfolio's task, queued or being worked
\* on, are never more than one and the number of deaths.
THEOREM CopiesBounded == Spec => []DuplicatesNeedCrashes
<1>1. CopyInv => DuplicatesNeedCrashes
  BY DEF CopyInv, CopiesOK, DuplicatesNeedCrashes
<1> QED
  BY <1>1, CopyInvInit, CopyInvStep, PTL DEF Spec

-----------------------------------------------------------------------------
(***************************************************************************)
(* As long as no worker has died a task has one copy, and what its worker  *)
(* has read of the row stays true: nobody but a deletion touches the row.  *)
(***************************************************************************)
CopyKnows(w) ==
    LET p == worker[w].p IN
    /\ worker[w].pc \in {"received", "failed", "raised"} => status[p] # "published"
    /\ worker[w].pc = "loaded" =>
         status[p] \in IF worker[w].dirty THEN {"absent", "queued", "failed"}
                                          ELSE {"absent", "generating"}
    /\ worker[w].pc \in {"generating", "rendered", "failing"} =>
         status[p] \in {"absent", "generating"}
SoleCopyKnows ==
    crashes = 0 =>
        /\ \A w \in Workers : ~At(w, "idle") => CopyKnows(w)
        /\ \A p \in Portfolios : Queued(p) => status[p] # "published"
SoleInv == JobInv /\ CopyInv /\ SoleCopyKnows

\* Without deaths a worker that is at work on a portfolio is alone with it.
LEMMA Alone ==
  ASSUME CopyInv, crashes = 0, NEW p \in Portfolios, NEW w \in Holders(p)
  PROVE  /\ \A v \in Workers \ {w} : Holding(v, p) => At(v, "settled")
         /\ ~Queued(p)
<1>1. /\ IsFiniteSet(Holders(p)) /\ LiveCopies(p) <= 1
  BY DEF CopyInv, CopiesOK
<1>2. IsFiniteSet({w}) /\ Cardinality({w}) = 1 /\ {w} \subseteq Holders(p)
  BY FS_Singleton
<1>3. Cardinality(Holders(p)) >= 1
  BY <1>1, <1>2, FS_Subset
<1>4. ASSUME NEW v \in Workers \ {w}, Holding(v, p), ~At(v, "settled")
      PROVE  FALSE
  <2>1. {w} \cup {v} \subseteq Holders(p)
    BY <1>4 DEF Holders
  <2>2. Cardinality({w} \cup {v}) = 2
    <3>1. v \notin {w}
      OBVIOUS
    <3>2. Cardinality({w} \cup {v}) = Cardinality({w}) + 1
      BY <1>2, <3>1, FS_AddElement
    <3> QED
      BY <1>2, <3>2
  <2>3. Cardinality(Holders(p)) >= 2
    BY <1>1, <2>1, <2>2, FS_Subset
  <2> QED
    BY <1>1, <2>3, CopyCount
<1>5. ASSUME NEW n \in Retries, queue[<<p, n>>] > 0
      PROVE  FALSE
  <2>1. queue[<<p, n>>] \in Nat /\ queue[<<p, n>>] >= 1
    BY <1>5 DEF CopyInv, TypeOK
  <2>2. 1 <= Cardinality(Messages(p))
    BY <1>1, <2>1, CopyCount, FullCounter, ConstantsAssumption
  <2> QED
    BY <1>1, <1>3, <2>2, CopyCount
<1> QED
  BY <1>4, <1>5 DEF Queued

\* What a worker knows stays true when it does not move and the row is at most
\* deleted.
LEMMA KnowledgeKept ==
  ASSUME NEW v \in Workers, CopyKnows(v), worker'[v] = worker[v],
         status'[worker[v].p] \in {status[worker[v].p], "absent"}
  PROVE  CopyKnows(v)'
BY DEF CopyKnows

LEMMA SoleApi ==
  ASSUME SoleInv, crashes' = 0, NEW p, NEW r,
         \/ p \in Portfolios /\ r \in Resumes /\ AdmitRequest(p, r)
         \/ p \in Portfolios /\ (\/ InsertRow(p) \/ EnqueueTask(p) \/ CommitRow(p)
                                \/ LoseRequest(p) \/ DeletePortfolio(p))
         \/ r \in Resumes /\ (ResumeParsed(r) \/ DeleteResume(r))
  PROVE  /\ SoleCopyKnows'
         /\ \A q \in Portfolios : Advances(status[q], status'[q])
<1> USE DEF SoleInv, JobInv, ghostVars, faultVars, NoFault, Fault, Rollback
<1>1. worker' = worker /\ crashes = 0 /\ SoleCopyKnows
  BY DEF AdmitRequest, InsertRow, EnqueueTask, CommitRow, LoseRequest,
         DeletePortfolio, ResumeParsed, DeleteResume
<1>2. \A q \in Portfolios :
        \/ status'[q] \in {status[q], "absent"}
        \/ status[q] = "absent" /\ status'[q] = "queued" /\ request[q] = "enqueued"
  BY DEF RowsAreCommitted, Row, TypeOK, AdmitRequest, InsertRow, EnqueueTask, CommitRow,
         LoseRequest, DeletePortfolio, ResumeParsed, DeleteResume
<1>3. ASSUME NEW v \in Workers, worker[v].pc # "idle"
      PROVE  CopyKnows(v)'
  <2> PICK q \in Portfolios : worker[v].p = q
    BY <1>3 DEF TypeOK
  <2>1. CASE status'[q] \in {status[q], "absent"}
    BY <1>1, <1>3, <2>1, KnowledgeKept DEF SoleCopyKnows, At
  <2>2. CASE status'[q] = "queued" /\ request[q] = "enqueued"
    <3>1. worker[v].pc \notin {"loaded", "generating", "rendered", "failing"}
      BY <2>2 DEF LoadedAreCommitted, BeforeOutcome
    <3> QED
      BY <1>1, <2>2, <3>1 DEF CopyKnows
  <2> QED
    BY <1>2, <2>1, <2>2
<1>4. ASSUME NEW q \in Portfolios, status'[q] = "published"
      PROVE  ~Queued(q)'
  <2>1. status[q] = "published"
    BY <1>2, <1>4
  <2>2. ~Queued(q) /\ request[q] = "done"
    BY <1>1, <2>1 DEF SoleCopyKnows, RowsAreCommitted, Row
  <2>3. \A n \in Retries : queue'[<<q, n>>] = queue[<<q, n>>]
    <3>1. CASE UNCHANGED queue
      BY <3>1
    <3>2. CASE p \in Portfolios /\ request[p] = "inserted" /\ Publish(p, 0)
      BY <2>2, <3>2 DEF Publish, TypeOK
    <3> QED
      BY <3>1, <3>2 DEF AdmitRequest, InsertRow, EnqueueTask, CommitRow, LoseRequest,
         DeletePortfolio, ResumeParsed, DeleteResume
  <2> QED
    BY <2>2, <2>3 DEF Queued
<1>5. SoleCopyKnows'
  BY <1>1, <1>3, <1>4 DEF SoleCopyKnows, At
<1> QED
  BY <1>2, <1>5 DEF Advances

\* A step of worker w, alone with its portfolio p, moves the row as promised and
\* leaves the others' knowledge alone.
LEMMA SoleMove ==
  ASSUME SoleInv, TypeOK', crashes = 0, NEW w \in Workers, NEW p \in Portfolios,
         w \in Holders(p) \/ status' = status,
         \A v \in Workers \ {w} : worker'[v] = worker[v],
         \A q \in Portfolios \ {p} : status'[q] = status[q],
         worker'[w].pc # "idle" => CopyKnows(w)',
         \A q \in Portfolios : Queued(q)' =>
             \/ Queued(q) /\ status'[q] = status[q]
             \/ status'[q] # "published"
             \/ Queued(q) /\ w \in Holders(q)
  PROVE  SoleCopyKnows'
<1>0. SoleCopyKnows /\ CopyInv
  BY DEF SoleInv
<1>1. ASSUME NEW v \in Workers \ {w}, worker[v].pc # "idle"
      PROVE  CopyKnows(v)'
  <2> PICK q \in Portfolios : worker[v].p = q
    BY <1>1 DEF CopyInv, TypeOK, SoleInv
  <2>1. CASE status'[q] = status[q]
    BY <1>0, <1>1, <2>1, KnowledgeKept DEF SoleCopyKnows, At
  <2>2. CASE status'[q] # status[q]
    <3>1. q = p /\ w \in Holders(p)
      BY <2>2
    <3>2. At(v, "settled")
      BY <1>0, <1>1, <3>1, Alone DEF Holding, At
    <3> QED
      BY <1>1, <3>2 DEF CopyKnows, At
  <2> QED
    BY <2>1, <2>2
<1>2. ASSUME NEW q \in Portfolios, Queued(q)'
      PROVE  status'[q] # "published"
  <2>1. ~(Queued(q) /\ w \in Holders(q))
    BY <1>0, Alone
  <2> QED
    BY <1>0, <1>2, <2>1 DEF SoleCopyKnows
<1>3. ASSUME NEW v \in Workers, worker'[v].pc # "idle"
      PROVE  CopyKnows(v)'
  BY <1>1, <1>3
<1> QED
  BY <1>2, <1>3 DEF SoleCopyKnows, At

LEMMA SoleWorker ==
  ASSUME SoleInv, TypeOK', crashes' = 0, NEW w \in Workers,
         WorkerStep(w) \/ DatabaseFails(w) \/ Crash(w)
  PROVE  /\ SoleCopyKnows'
         /\ \A q \in Portfolios : Advances(status[q], status'[q])
<1> USE DEF ghostVars, faultVars, NoFault, Fault
<1>0. /\ worker \in [Workers -> WorkerState] /\ worker[w] \in WorkerState
      /\ status \in [Portfolios -> RowStatus] /\ crashes \in Nat
      /\ queue \in [Portfolios \X Retries -> Nat]
      /\ SoleCopyKnows /\ CopyInv
  BY DEF SoleInv, JobInv, TypeOK
<1>1. crashes = 0 /\ ~Crash(w)
  <2>1. ~Crash(w)
    BY <1>0 DEF Crash
  <2>2. crashes' = crashes
    BY <2>1 DEF WorkerStep, Receive, LoadPortfolio, MarkGenerating, Render, CommitPublished,
       CommitFailed, AnnouncePublished, AnnounceFailed, Announce, RetryOrDeadLetter,
       Acknowledge, DatabaseFails
  <2> QED
    BY <2>1, <2>2
<1>2. ASSUME NEW p \in Portfolios, NEW n \in Retries, Receive(w, p, n)
      PROVE  SoleCopyKnows' /\ status' = status
  <2>1. status' = status /\ Queued(p)
    BY <1>2 DEF Receive, Available, Queued
  <2>2. /\ worker'[w].pc = "received" /\ worker'[w].p = p
        /\ \A v \in Workers \ {w} : worker'[v] = worker[v]
    <3> DEFINE new == [Idle EXCEPT !.pc = "received", !.p = p, !.n = n]
    <3>1. new.pc = "received" /\ new.p = p /\ worker' = [worker EXCEPT ![w] = new]
      BY <1>2 DEF Idle, Receive
    <3> HIDE DEF new
    <3> QED
      BY <1>0, <3>1
  <2>3. CopyKnows(w)'
    BY <1>0, <1>1, <2>1, <2>2 DEF CopyKnows, SoleCopyKnows
  <2>4. ASSUME NEW q \in Portfolios, Queued(q)'
        PROVE  Queued(q)
    <3> PICK m \in Retries : queue'[<<q, m>>] > 0
      BY <2>4 DEF Queued
    <3>1. queue[<<q, m>>] > 0
      BY <1>0, <1>2 DEF Receive, Available
    <3> QED
      BY <3>1 DEF Queued
  <2> QED
    BY <1>1, <2>1, <2>2, <2>3, <2>4, SoleMove
<1>3. ASSUME ~ \E p \in Portfolios, n \in Retries : Receive(w, p, n)
      PROVE  /\ SoleCopyKnows'
             /\ \A q \in Portfolios : Advances(status[q], status'[q])
  <2>1. worker[w].pc # "idle"
    BY <1>1, <1>3 DEF WorkerStep, LoadPortfolio, MarkGenerating, Render, CommitPublished,
       CommitFailed, AnnouncePublished, AnnounceFailed, Announce, RetryOrDeadLetter,
       Acknowledge, DatabaseFails, At
  <2> PICK p \in Portfolios : worker[w].p = p
    BY <2>1 DEF SoleInv, JobInv, TypeOK
  <2>2. worker[w].pc # "settled" => w \in Holders(p)
    BY <2>1 DEF Holders, Holding, At
  <2>3. CopyKnows(w)
    BY <1>0, <1>1, <2>1 DEF SoleCopyKnows, At
  <2>4. CASE LoadPortfolio(w)
    <3> DEFINE loaded == [worker[w] EXCEPT !.pc = "loaded", !.resume = source[p],
                                           !.dirty = status[p] # "generating"]
               gone == [worker[w] EXCEPT !.pc = "settled"]
               new == IF Row(p) THEN loaded ELSE gone
    <3>1. /\ new.p = p /\ new.pc = IF Row(p) THEN "loaded" ELSE "settled"
          /\ Row(p) => new.dirty = (status[p] # "generating")
      BY <1>0 DEF WorkerState
    <3>2. worker' = [worker EXCEPT ![w] = new]
      BY <2>4 DEF LoadPortfolio, Runnable
    <3> HIDE DEF new
    <3>3. status' = status /\ queue' = queue /\ worker[w].pc = "received"
      BY <2>4 DEF LoadPortfolio, At
    <3>4. CopyKnows(w)'
      BY <1>0, <2>3, <3>1, <3>2, <3>3 DEF CopyKnows, RowStatus, Row
    <3>5. \A v \in Workers \ {w} : worker'[v] = worker[v]
      BY <1>0, <3>2
    <3> QED
      BY <1>1, <3>3, <3>4, <3>5, SoleMove DEF Queued, Advances
  <2>5. CASE MarkGenerating(w) \/ CommitPublished(w) \/ CommitFailed(w)
    <3> DEFINE Raises(pc) == pc = "raised" /\ status' = status
               Marks(pc) == /\ pc = "generating" /\ worker[w].pc = "loaded"
                            /\ IF worker[w].dirty
                               THEN Row(p) /\ status' = [status EXCEPT ![p] = "generating"]
                               ELSE status' = status
               Commits(pc) == /\ pc \in {"published", "failed"} /\ Row(p)
                              /\ worker[w].pc \in {"rendered", "failing"}
                              /\ status' = [status EXCEPT ![p] = pc]
    <3>1. PICK pc \in WorkerPC :
             /\ Goto(w, pc)
             /\ worker[w].pc \in {"loaded", "rendered", "failing"}
             /\ Raises(pc) \/ Marks(pc) \/ Commits(pc)
      <4>1. CASE MarkGenerating(w)
        BY <4>1 DEF MarkGenerating, At, UpdateFindsRow, WorkerPC
      <4>2. CASE CommitPublished(w)
        BY <4>2 DEF CommitPublished, At, UpdateFindsRow, WorkerPC
      <4>3. CASE CommitFailed(w)
        BY <4>3 DEF CommitFailed, At, UpdateFindsRow, WorkerPC
      <4> QED
        BY <2>5, <4>1, <4>2, <4>3
    <3>2. /\ worker'[w].pc = pc /\ worker'[w].p = p
          /\ \A v \in Workers \ {w} : worker'[v] = worker[v]
      BY <1>0, <3>1, GotoFrame
    <3>3. queue' = queue /\ w \in Holders(p)
      BY <2>2, <2>5 DEF MarkGenerating, CommitPublished, CommitFailed, At
    <3>4. /\ CopyKnows(w)'
          /\ \A q \in Portfolios \ {p} : status'[q] = status[q]
          /\ Advances(status[p], status'[p])
      <4>1. CASE Raises(pc)
        BY <2>3, <3>1, <3>2, <4>1 DEF CopyKnows, Advances
      <4>2. CASE Marks(pc)
        BY <1>0, <2>3, <3>2, <4>2 DEF CopyKnows, Advances, Row
      <4>3. CASE Commits(pc)
        BY <1>0, <2>3, <3>2, <4>3 DEF CopyKnows, Advances, Row
      <4> QED
        BY <3>1, <4>1, <4>2, <4>3
    <3>7. \A q \in Portfolios : Queued(q)' => Queued(q)
      BY <3>3 DEF Queued
    <3>8. SoleCopyKnows'
      BY <1>1, <3>2, <3>3, <3>4, <3>7, SoleMove
    <3> QED
      BY <3>4, <3>8 DEF Advances
  <2>6. CASE Render(w) \/ DatabaseFails(w) \/ AnnouncePublished(w) \/ AnnounceFailed(w)
    <3>1. PICK pc \in WorkerPC :
             /\ Goto(w, pc)
             /\ \/ pc \in {"rendered", "failing"} /\ worker[w].pc = "generating"
                \/ pc = "raised" /\ worker[w].pc # "published"
                   /\ worker[w].pc \in BeforeOutcome \cup {"failed"}
                \/ pc = "settled"
      BY <2>6 DEF Render, DatabaseFails, AnnouncePublished, AnnounceFailed, Announce, At,
         OnError, WorkerPC, BeforeOutcome
    <3>2. /\ worker'[w].pc = pc /\ worker'[w].p = p
          /\ \A v \in Workers \ {w} : worker'[v] = worker[v]
      BY <1>0, <3>1, GotoFrame
    <3>3. queue' = queue /\ status' = status
      BY <2>6 DEF Render, DatabaseFails, AnnouncePublished, AnnounceFailed, Announce
    <3>4. CopyKnows(w)'
      BY <2>3, <3>1, <3>2, <3>3 DEF CopyKnows, BeforeOutcome
    <3> QED
      BY <1>1, <3>2, <3>3, <3>4, SoleMove DEF Queued, Advances
  <2>7. CASE RetryOrDeadLetter(w)
    <3>1. Goto(w, "settled") /\ worker[w].pc = "raised" /\ status' = status
      BY <2>7 DEF RetryOrDeadLetter, At
    <3>2. /\ worker'[w].pc = "settled" /\ worker'[w].p = p
          /\ \A v \in Workers \ {w} : worker'[v] = worker[v]
      BY <1>0, <3>1, GotoFrame DEF WorkerPC
    <3>3. status[p] # "published"
      BY <2>3, <3>1 DEF CopyKnows
    <3>4. ASSUME NEW q \in Portfolios \ {p}, NEW m \in Retries
          PROVE  queue'[<<q, m>>] = queue[<<q, m>>]
      BY <1>0, <2>7, <3>4 DEF RetryOrDeadLetter, Publish
    <3>5. \A q \in Portfolios : Queued(q)' => Queued(q) \/ q = p
      BY <3>4 DEF Queued
    <3>6. CopyKnows(w)'
      BY <3>2 DEF CopyKnows
    <3> QED
      BY <1>1, <3>1, <3>2, <3>3, <3>5, <3>6, SoleMove DEF Advances
  <2>8. CASE Acknowledge(w)
    <3>1. /\ worker'[w].pc = "idle" /\ \A v \in Workers \ {w} : worker'[v] = worker[v]
          /\ queue' = queue /\ status' = status
      BY <1>0, <2>8 DEF Acknowledge, Release, Idle
    <3> QED
      BY <1>1, <3>1, SoleMove DEF Queued, Advances
  <2> QED
    BY <1>1, <1>3, <2>4, <2>5, <2>6, <2>7, <2>8 DEF WorkerStep
<1> QED
  BY <1>2, <1>3 DEF Advances

LEMMA SoleStep ==
  ASSUME SoleInv, [Next]_vars, crashes' = 0
  PROVE  /\ SoleCopyKnows'
         /\ \A q \in Portfolios : Advances(status[q], status'[q])
<1>1. TypeOK'
  BY TypeStep DEF SoleInv, JobInv
<1>2. ASSUME NEW p \in Portfolios, NEW r \in Resumes, AdmitRequest(p, r)
      PROVE  /\ SoleCopyKnows'
             /\ \A q \in Portfolios : Advances(status[q], status'[q])
  BY <1>2, SoleApi
<1>3. ASSUME NEW p \in Portfolios, HandlerStep(p) \/ LoseRequest(p) \/ DeletePortfolio(p)
      PROVE  /\ SoleCopyKnows'
             /\ \A q \in Portfolios : Advances(status[q], status'[q])
  BY <1>3, SoleApi DEF HandlerStep
<1>4. ASSUME NEW r \in Resumes, ResumeParsed(r) \/ DeleteResume(r)
      PROVE  /\ SoleCopyKnows'
             /\ \A q \in Portfolios : Advances(status[q], status'[q])
  BY <1>4, SoleApi
<1>5. ASSUME NEW w \in Workers, WorkerStep(w) \/ DatabaseFails(w) \/ Crash(w)
      PROVE  /\ SoleCopyKnows'
             /\ \A q \in Portfolios : Advances(status[q], status'[q])
  BY <1>1, <1>5, SoleWorker
<1>6. CASE UNCHANGED vars
  BY <1>6 DEF vars, SoleInv, SoleCopyKnows, CopyKnows, Queued, At, Advances
<1> QED
  BY <1>2, <1>3, <1>4, <1>5, <1>6 DEF Next

\* While no worker has died the status of a row only advances (StatusAdvances):
\* retries and failures take it from failed back to generating, never from
\* published, and no other request or task interferes.
THEOREM AdvancesOnly == Spec => StatusAdvances
<1>1. Init => SoleInv
  BY JobInvInit, CopyInvInit
     DEF SoleInv, SoleCopyKnows, CopyKnows, Queued, At, Init, Idle
<1>2. SoleInv /\ [Next]_vars => SoleInv'
  BY SoleStep, JobInvStep, CopyInvStep DEF SoleInv, SoleCopyKnows
<1>3. SoleInv /\ [Next]_vars =>
        [crashes' = 0 => \A p \in Portfolios : Advances(status[p], status'[p])]_vars
  BY SoleStep
<1> QED
  BY <1>1, <1>2, <1>3, PTL DEF Spec, StatusAdvances

=============================================================================
