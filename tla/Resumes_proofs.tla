--------------------------- MODULE Resumes_proofs ---------------------------
(***************************************************************************)
(* Proofs about Resumes, for any number of resumes, exports, workers,      *)
(* retries, deaths and failures.                                           *)
(***************************************************************************)
EXTENDS Resumes, TLAPS

-----------------------------------------------------------------------------
(* Type correctness                                                        *)

ParsePC  == {"loaded", "processing", "parsed", "failing"}
ExportPC == {"rendering", "stored"}

\* A busy worker holds a message of the task it runs.
WorkerOK(w) ==
    /\ worker[w].pc # "idle" => worker[w].job \in Jobs
    /\ worker[w].pc \in ParsePC => worker[w].job \in Resumes
    /\ worker[w].pc \in ExportPC => worker[w].job \in Exports
    /\ worker[w].pc = "parsed" => worker[w].content \in Contents

\* An export that was asked for is of a resume that was created.
ExportOK(e) ==
    export[e] # "unused" => /\ source[e] \in Resumes
                            /\ upload[source[e]] \in {"committed", "built"}

TypeInv == /\ TypeOK
           /\ \A w \in Workers : WorkerOK(w)
           /\ \A e \in Exports : ExportOK(e)

\* A constant that is no id.
LEMMA NoneIsNoJob == None \notin Jobs /\ None \notin Contents
  BY ConstantsAssumption DEF Jobs

\* A message has room for one more retry while the limit allows it.
LEMMA RetryFits ==
  ASSUME NEW j \in Jobs, NEW n \in Retries
  PROVE  /\ MaxRetries(j) \in Nat
         /\ n < MaxRetries(j) => n + 1 \in Retries
         /\ 0 \in Retries
  BY ConstantsAssumption DEF MaxRetries, Retries

\* Publishing keeps the type of the queue.
LEMMA PublishType ==
  ASSUME queue \in [Jobs \X Retries -> Nat], NEW j \in Jobs, NEW n \in Retries,
         Publish(j, n)
  PROVE  queue' \in [Jobs \X Retries -> Nat]
  BY DEF Publish

\* A step of one worker keeps the others' states.
LEMMA WorkerStep ==
  ASSUME TypeInv, NEW w \in Workers, NEW s \in WorkerState,
         worker' = [worker EXCEPT ![w] = s]
  PROVE  /\ worker' \in [Workers -> WorkerState]
         /\ worker'[w] = s
         /\ \A v \in Workers \ {w} : worker'[v] = worker[v] /\ WorkerOK(v)'
<1>1. /\ worker' \in [Workers -> WorkerState]
      /\ worker'[w] = s
      /\ \A v \in Workers \ {w} : worker'[v] = worker[v]
  BY DEF TypeInv, TypeOK
<1> QED
  BY <1>1 DEF WorkerOK, TypeInv

\* The idle worker.
LEMMA IdleType == Idle \in WorkerState /\ Idle.pc = "idle" /\ Idle.job = None
  BY ConstantsAssumption DEF Idle, WorkerState, WorkerPC, Retries

-----------------------------------------------------------------------------
(* Every step keeps the types                                              *)

\* A step that leaves the workers and the exports alone, and a created resume
\* created.
LEMMA RequestFrame ==
  ASSUME TypeInv, UNCHANGED <<worker, source>>,
         \A r \in Resumes : upload[r] \in {"committed", "built"}
                            => upload'[r] = upload[r],
         \A e \in Exports : export[e] = "unused" => export'[e] = "unused",
         TypeOK'
  PROVE  TypeInv'
<1>1. \A w \in Workers : WorkerOK(w)'
  BY DEF TypeInv, WorkerOK
<1>2. ASSUME NEW e \in Exports, export'[e] # "unused"
      PROVE  source'[e] \in Resumes /\ upload'[source'[e]] \in {"committed", "built"}
  <2>1. export[e] # "unused"
    BY <1>2
  <2>2. source[e] \in Resumes /\ upload[source[e]] \in {"committed", "built"}
    BY <2>1 DEF TypeInv, ExportOK
  <2> QED
    BY <2>2
<1> QED
  BY <1>1, <1>2 DEF TypeInv, ExportOK

\* A failure is counted and charged to a job.
LEMMA FaultType ==
  ASSUME TypeOK, NEW j \in Jobs, Fault(j)
  PROVE  /\ struck' \subseteq Jobs
         /\ crashes' \in 0..MaxCrashes /\ faults' \in 0..MaxFaults
  BY ConstantsAssumption DEF Fault, TypeOK

LEMMA NoFaultType ==
  ASSUME TypeOK, NoFault
  PROVE  /\ struck' \subseteq Jobs
         /\ crashes' \in 0..MaxCrashes /\ faults' \in 0..MaxFaults
  BY DEF NoFault, faultVars, TypeOK

\* The handlers of uploads.
LEMMA UploadTypes ==
  ASSUME TypeInv, NEW r \in Resumes,
         \/ StoreObject(r) \/ StoreFails(r) \/ ParseInline(r) \/ EnqueueParse(r)
         \/ CommitUpload(r) \/ LoseUpload(r) \/ BuildResume(r)
  PROVE  TypeInv'
<1>1. TypeOK /\ r \in Jobs /\ 0 \in Retries
  BY ConstantsAssumption DEF TypeInv, Jobs, Retries
<1>2. /\ UNCHANGED <<worker, source, export, hash, undispatched, pdf, deletion, account,
                     outrun, redelivered, spent>>
      /\ upload' \in [Resumes -> UploadPC]
      /\ \A x \in Resumes : upload[x] \in {"committed", "built"} => upload'[x] = upload[x]
  BY <1>1 DEF StoreObject, StoreFails, ParseInline, EnqueueParse, CommitUpload,
              LoseUpload, BuildResume, OnPutError, TypeOK, UploadPC, exportVars,
              ghostVars
<1>3. objects' \subseteq Resumes
  BY <1>1 DEF StoreObject, StoreFails, ParseInline, EnqueueParse, CommitUpload,
              LoseUpload, BuildResume, TypeOK
<1>4. status' \in [Resumes -> RowStatus] /\ data' \in [Resumes -> Contents \cup {None}]
  BY <1>1 DEF StoreObject, StoreFails, ParseInline, EnqueueParse, CommitUpload,
              LoseUpload, BuildResume, TypeOK, RowStatus, resumeVars
<1>5. queue' \in [Jobs \X Retries -> Nat]
  <2>1. UNCHANGED queue \/ Publish(r, 0)
    BY DEF StoreObject, StoreFails, ParseInline, EnqueueParse, CommitUpload,
           LoseUpload, BuildResume
  <2> QED
    BY <1>1, <2>1, PublishType DEF TypeOK
<1>6. /\ struck' \subseteq Jobs
      /\ crashes' \in 0..MaxCrashes /\ faults' \in 0..MaxFaults
  <2>1. Fault(r) \/ NoFault
    BY DEF StoreObject, StoreFails, ParseInline, EnqueueParse, CommitUpload,
           LoseUpload, BuildResume, NoFault
  <2> QED
    BY <1>1, <2>1, FaultType, NoFaultType
<1>7. TypeOK'
  BY <1>1, <1>2, <1>3, <1>4, <1>5, <1>6 DEF TypeOK
<1> QED
  BY <1>2, <1>7, RequestFrame

\* The handler of deletions.
LEMMA DeleteTypes ==
  ASSUME TypeInv, NEW r \in Resumes,
         DeleteObject(r) \/ DeleteObjectFails(r) \/ CommitDelete(r) \/ LoseDelete(r)
  PROVE  TypeInv'
<1>1. TypeOK /\ r \in Jobs
  BY DEF TypeInv, Jobs
<1>2. UNCHANGED <<worker, upload, account, source, hash, undispatched, pdf, queue,
                  outrun, redelivered, spent>>
  BY DEF DeleteObject, DeleteObjectFails, CommitDelete, LoseDelete, exportVars, ghostVars
<1>3. deletion' \in [Resumes -> DeletePC] /\ objects' \subseteq Resumes
  BY <1>1 DEF DeleteObject, DeleteObjectFails, CommitDelete, LoseDelete, TypeOK,
              DeletePC, OnDeleteError
<1>4. status' \in [Resumes -> RowStatus] /\ data' \in [Resumes -> Contents \cup {None}]
  BY <1>1 DEF DeleteObject, DeleteObjectFails, CommitDelete, LoseDelete, TypeOK,
              RowStatus, resumeVars
<1>5. /\ export' \in [Exports -> ExportLife]
      /\ \A e \in Exports : export[e] = "unused" => export'[e] = "unused"
  BY <1>1 DEF DeleteObject, DeleteObjectFails, CommitDelete, LoseDelete, TypeOK,
              ExportLife, ExportRow, exportVars
<1>6. /\ struck' \subseteq Jobs
      /\ crashes' \in 0..MaxCrashes /\ faults' \in 0..MaxFaults
  <2>1. Fault(r) \/ NoFault
    BY DEF DeleteObject, DeleteObjectFails, CommitDelete, LoseDelete, NoFault
  <2> QED
    BY <1>1, <2>1, FaultType, NoFaultType
<1>7. TypeOK'
  BY <1>1, <1>2, <1>3, <1>4, <1>5, <1>6 DEF TypeOK
<1> QED
  BY <1>2, <1>5, <1>7, RequestFrame

\* The deletion of the account.
LEMMA AccountTypes ==
  ASSUME TypeInv, DeleteAccount
  PROVE  TypeInv'
<1>1. TypeOK /\ UNCHANGED <<worker, source, upload>>
  BY DEF TypeInv, DeleteAccount
<1>2. /\ status' \in [Resumes -> RowStatus] /\ data' \in [Resumes -> Contents \cup {None}]
      /\ export' \in [Exports -> ExportLife]
      /\ \A e \in Exports : export[e] = "unused" => export'[e] = "unused"
  BY <1>1 DEF DeleteAccount, TypeOK, RowStatus, ExportLife, ExportRow
<1>3. TypeOK'
  BY <1>1, <1>2 DEF DeleteAccount, TypeOK, ghostVars, faultVars
<1> QED
  BY <1>1, <1>2, <1>3, RequestFrame

\* The handler of export requests.
LEMMA ExportTypes ==
  ASSUME TypeInv, NEW e \in Exports,
         \/ \E r \in Resumes : MissCache(e, r)
         \/ InsertExport(e) \/ DispatchExport(e),
         \A r \in Resumes : Row(r) => upload[r] \in {"committed", "built"}
  PROVE  TypeInv'
<1>1. TypeOK /\ e \in Jobs /\ 0 \in Retries
  BY ConstantsAssumption DEF TypeInv, Jobs, Retries
<1>2. UNCHANGED <<worker, upload, status, data, objects, deletion, account, pdf, outrun,
                  redelivered, spent>>
  BY DEF MissCache, InsertExport, DispatchExport, resumeVars, ghostVars
<1>3. \A w \in Workers : WorkerOK(w)'
  BY <1>2 DEF TypeInv, WorkerOK
<1>4. undispatched' \subseteq Exports
  BY <1>1 DEF MissCache, InsertExport, DispatchExport, TypeOK
<1>5. queue' \in [Jobs \X Retries -> Nat]
  <2>1. UNCHANGED queue \/ Publish(e, 0)
    BY DEF MissCache, InsertExport, DispatchExport
  <2> QED
    BY <1>1, <2>1, PublishType DEF TypeOK
<1>6. /\ struck' \subseteq Jobs
      /\ crashes' \in 0..MaxCrashes /\ faults' \in 0..MaxFaults
  <2>1. Fault(e) \/ NoFault
    BY DEF MissCache, InsertExport, DispatchExport, NoFault
  <2> QED
    BY <1>1, <2>1, FaultType, NoFaultType
<1>7. /\ export' \in [Exports -> ExportLife]
      /\ source' \in [Exports -> Resumes \cup {None}]
      /\ hash' \in [Exports -> Hashes \cup {None}]
      /\ \A x \in Exports : ExportOK(x)'
  <2>1. ASSUME NEW r \in Resumes, MissCache(e, r)
        PROVE  <1>7
    <3>1. content_hash(data[r]) \in Hashes
      BY <1>1, <2>1, ConstantsAssumption DEF MissCache, TypeOK, content_hash
    <3>2. upload[r] \in {"committed", "built"}
      BY <2>1 DEF MissCache
    <3>3. /\ export' = [export EXCEPT ![e] = "missed"]
          /\ source' = [source EXCEPT ![e] = r]
          /\ hash' = [hash EXCEPT ![e] = content_hash(data[r])]
      BY <2>1 DEF MissCache
    <3>4. /\ export' \in [Exports -> ExportLife]
          /\ source' \in [Exports -> Resumes \cup {None}]
          /\ hash' \in [Exports -> Hashes \cup {None}]
      BY <1>1, <3>1, <3>3 DEF TypeOK, ExportLife
    <3>5. \A x \in Exports : ExportOK(x)'
      BY <1>1, <1>2, <3>2, <3>3 DEF TypeInv, ExportOK, TypeOK
    <3> QED
      BY <3>4, <3>5
  <2>2. CASE InsertExport(e) \/ DispatchExport(e)
    <3>1. UNCHANGED <<source, hash>>
      BY <2>2 DEF InsertExport, DispatchExport
    <3>2. /\ export' \in [Exports -> ExportLife]
          /\ \A x \in Exports : export[x] = "unused" => export'[x] = "unused"
      BY <1>1, <2>2 DEF InsertExport, DispatchExport, TypeOK, ExportLife
    <3>3. \A x \in Exports : ExportOK(x)'
      BY <1>2, <3>1, <3>2 DEF TypeInv, ExportOK
    <3> QED
      BY <1>1, <3>1, <3>2, <3>3 DEF TypeOK
  <2> QED
    BY <2>1, <2>2
<1>8. TypeOK'
  BY <1>1, <1>2, <1>4, <1>5, <1>6, <1>7 DEF TypeOK
<1> QED
  BY <1>3, <1>7, <1>8 DEF TypeInv

-----------------------------------------------------------------------------
(* The workers                                                             *)

\* A worker's step that leaves the requests alone and its own state consistent.
LEMMA WorkerFrame ==
  ASSUME TypeInv, NEW w \in Workers, NEW s \in WorkerState,
         worker' = [worker EXCEPT ![w] = s], WorkerOK(w)',
         UNCHANGED <<upload, source>>,
         \A e \in Exports : export[e] = "unused" => export'[e] = "unused",
         TypeOK'
  PROVE  TypeInv'
<1>1. \A v \in Workers : WorkerOK(v)'
  BY WorkerStep
<1>2. \A e \in Exports : ExportOK(e)'
  BY DEF TypeInv, ExportOK
<1> QED
  BY <1>1, <1>2 DEF TypeInv

\* What Goto does to the state of the worker.
LEMMA GotoType ==
  ASSUME TypeInv, NEW w \in Workers, NEW pc \in WorkerPC, Goto(w, pc)
  PROVE  \E s \in WorkerState :
            /\ worker' = [worker EXCEPT ![w] = s]
            /\ worker'[w] = s
            /\ s = [worker[w] EXCEPT !.pc = pc]
            /\ s.pc = pc /\ s.job = worker[w].job /\ s.n = worker[w].n
            /\ s.dirty = worker[w].dirty /\ s.content = worker[w].content
<1> DEFINE s == [worker[w] EXCEPT !.pc = pc]
<1>1. worker[w] \in WorkerState
  BY DEF TypeInv, TypeOK
<1>2. /\ s \in WorkerState /\ s.pc = pc /\ s.job = worker[w].job
      /\ s.n = worker[w].n /\ s.dirty = worker[w].dirty
      /\ s.content = worker[w].content
  BY <1>1 DEF WorkerState
<1>3. worker' = [worker EXCEPT ![w] = s]
  BY DEF Goto, TypeInv, TypeOK
<1>4. worker'[w] = s
  BY <1>3 DEF TypeInv, TypeOK
<1> QED
  BY <1>2, <1>3, <1>4

\* The busy worker's message.
LEMMA BusyType ==
  ASSUME TypeInv, NEW w \in Workers, worker[w].pc # "idle"
  PROVE  /\ worker[w].job \in Jobs /\ worker[w].n \in Retries
         /\ worker[w] \in WorkerState
  BY DEF TypeInv, TypeOK, WorkerOK, WorkerState

\* Taking a message.
LEMMA TakeTypes ==
  ASSUME TypeInv, NEW w \in Workers, NEW j \in Jobs, NEW n \in Retries, Take(w, j, n)
  PROVE  TypeInv'
<1> DEFINE s == [Idle EXCEPT !.pc = "taken", !.job = j, !.n = n]
<1>1. s \in WorkerState /\ s.pc = "taken" /\ s.job = j
  BY ConstantsAssumption DEF Idle, WorkerState, WorkerPC
<1>2. worker' = [worker EXCEPT ![w] = s]
  BY DEF Take
<1>3. /\ UNCHANGED <<upload, objects, deletion, account, pdf>>
      /\ UNCHANGED <<status, data, export, source, hash, undispatched>>
      /\ UNCHANGED <<outrun, redelivered, spent, crashes, faults, struck>>
  BY DEF Take, resumeVars, exportVars, ghostVars, faultVars
<1>4. queue' \in [Jobs \X Retries -> Nat]
  BY DEF Take, Available, TypeInv, TypeOK
<1> HIDE DEF s
<1>5. worker' \in [Workers -> WorkerState] /\ worker'[w] = s
  BY <1>1, <1>2, WorkerStep
<1>6. TypeOK'
  BY <1>3, <1>4, <1>5 DEF TypeInv, TypeOK
<1>7. WorkerOK(w)'
  BY <1>1, <1>5 DEF WorkerOK, ParsePC, ExportPC
<1> QED
  BY <1>1, <1>2, <1>3, <1>6, <1>7, WorkerFrame

\* The steps of parse_resume_task.
LEMMA ParseTypes ==
  ASSUME TypeInv, NEW w \in Workers,
         \/ LoadResume(w) \/ MarkProcessing(w) \/ ParseFile(w)
         \/ CommitParsed(w) \/ CommitFailed(w)
  PROVE  TypeInv'
<1> DEFINE r == worker[w].job
<1>1. worker[w].pc # "idle"
  BY DEF LoadResume, MarkProcessing, ParseFile, CommitParsed, CommitFailed, At
<1>2. TypeOK /\ r \in Resumes /\ worker[w] \in WorkerState
  BY <1>1 DEF LoadResume, MarkProcessing, ParseFile, CommitParsed, CommitFailed, At,
              TypeInv, TypeOK, WorkerOK, ParsePC
<1>3. /\ UNCHANGED <<upload, objects, deletion, account, pdf, queue>>
      /\ UNCHANGED <<export, source, hash, undispatched>>
      /\ UNCHANGED <<redelivered, spent, crashes, faults, struck>>
  BY DEF LoadResume, MarkProcessing, ParseFile, CommitParsed, CommitFailed,
         exportVars, ghostVars, faultVars
<1>4. outrun' \subseteq Resumes
  BY <1>2 DEF LoadResume, MarkProcessing, ParseFile, CommitParsed, CommitFailed,
              ghostVars, TypeOK
<1>5. status' \in [Resumes -> RowStatus]
  BY <1>2 DEF LoadResume, MarkProcessing, ParseFile, CommitParsed, CommitFailed,
              resumeVars, TypeOK, RowStatus
<1>6. data' \in [Resumes -> Contents \cup {None}]
  <2>1. CASE CommitParsed(w)
    <3>1. worker[w].content \in Contents
      BY <2>1 DEF CommitParsed, At, TypeInv, WorkerOK
    <3> QED
      BY <1>2, <2>1, <3>1 DEF CommitParsed, TypeOK, resumeVars
  <2>2. CASE ~CommitParsed(w)
    BY <1>2, <2>2 DEF LoadResume, MarkProcessing, ParseFile, CommitFailed,
                      resumeVars, TypeOK
  <2> QED
    BY <2>1, <2>2
<1>7. \E s \in WorkerState :
          /\ worker' = [worker EXCEPT ![w] = s]
          /\ s.pc \in WorkerPC \ {"idle", "rendering", "stored"}
          /\ s.job = r
          /\ s.pc = "parsed" => s.content \in Contents
  <2>1. CASE LoadResume(w)
    <3>1. [worker[w] EXCEPT !.pc = "loaded", !.dirty = status[r] # "processing"]
            \in WorkerState
      BY <1>2 DEF WorkerState, WorkerPC
    <3>2. [worker[w] EXCEPT !.pc = "settled"] \in WorkerState
      BY <1>2 DEF WorkerState, WorkerPC
    <3>3. CASE Row(r)
      <4> WITNESS [worker[w] EXCEPT !.pc = "loaded", !.dirty = status[r] # "processing"]
            \in WorkerState
      <4> QED
        BY <1>2, <2>1, <3>3 DEF LoadResume, WorkerState, WorkerPC
    <3>4. CASE ~Row(r)
      <4> WITNESS [worker[w] EXCEPT !.pc = "settled"] \in WorkerState
      <4> QED
        BY <1>2, <2>1, <3>4 DEF LoadResume, WorkerState, WorkerPC
    <3> QED
      BY <3>3, <3>4
  <2>2. ASSUME NEW c \in Contents,
               worker' = [worker EXCEPT ![w].pc = "parsed", ![w].content = c]
        PROVE  <1>7
    <3> DEFINE s == [worker[w] EXCEPT !.pc = "parsed", !.content = c]
    <3>1. s \in WorkerState /\ s.pc = "parsed" /\ s.job = r /\ s.content = c
      BY <1>2 DEF WorkerState, WorkerPC
    <3>2. worker' = [worker EXCEPT ![w] = s]
      BY <1>2, <2>2 DEF TypeOK
    <3> QED
      BY <3>1, <3>2 DEF WorkerPC
  <2>3. ASSUME NEW pc \in {"processing", "settled", "raised", "failing"}, Goto(w, pc)
        PROVE  <1>7
    <3>1. pc \in WorkerPC
      BY DEF WorkerPC
    <3> QED
      BY <2>3, <3>1, GotoType DEF WorkerPC
  <2>4. \/ LoadResume(w)
        \/ \E c \in Contents :
              worker' = [worker EXCEPT ![w].pc = "parsed", ![w].content = c]
        \/ \E pc \in {"processing", "settled", "raised", "failing"} : Goto(w, pc)
    BY DEF MarkProcessing, ParseFile, CommitParsed, CommitFailed
  <2> QED
    BY <2>1, <2>2, <2>3, <2>4
<1>8. PICK s \in WorkerState :
          /\ worker' = [worker EXCEPT ![w] = s]
          /\ s.pc \in WorkerPC \ {"idle", "rendering", "stored"}
          /\ s.job = r
          /\ s.pc = "parsed" => s.content \in Contents
  BY <1>7
<1>9. worker' \in [Workers -> WorkerState] /\ worker'[w] = s
  BY <1>8, WorkerStep
<1>10. TypeOK'
  BY <1>2, <1>3, <1>4, <1>5, <1>6, <1>9 DEF TypeOK
<1>11. WorkerOK(w)'
  BY <1>2, <1>8, <1>9 DEF WorkerOK, ParsePC, ExportPC, Jobs
<1> QED
  BY <1>3, <1>8, <1>10, <1>11, WorkerFrame

\* The steps of resume.export_pdf.
LEMMA RenderTypes ==
  ASSUME TypeInv, NEW w \in Workers,
         LoadExport(w) \/ RenderPdf(w) \/ CommitExport(w)
  PROVE  TypeInv'
<1> DEFINE e == worker[w].job
<1>1. worker[w].pc # "idle"
  BY DEF LoadExport, RenderPdf, CommitExport, At
<1>2. TypeOK /\ e \in Exports /\ worker[w] \in WorkerState
  BY <1>1 DEF LoadExport, RenderPdf, CommitExport, At, TypeInv, TypeOK, WorkerOK,
              ExportPC
<1>3. /\ UNCHANGED <<upload, objects, deletion, account, queue>>
      /\ UNCHANGED <<status, data, source, hash, undispatched>>
      /\ UNCHANGED <<outrun, redelivered, spent, crashes, faults, struck>>
  BY DEF LoadExport, RenderPdf, CommitExport, resumeVars, exportVars, ghostVars,
         faultVars
<1>4. /\ export' \in [Exports -> ExportLife]
      /\ \A x \in Exports : export[x] = "unused" => export'[x] = "unused"
  BY <1>2 DEF LoadExport, RenderPdf, CommitExport, exportVars, TypeOK, ExportLife,
              ExportRow
<1>5. pdf' \in [Hashes -> Contents \cup {None}]
  <2>1. worker[w].content \in Contents \cup {None}
    BY <1>2 DEF WorkerState
  <2> QED
    BY <1>2, <2>1 DEF LoadExport, RenderPdf, CommitExport, TypeOK
<1>6. \E s \in WorkerState :
          /\ worker' = [worker EXCEPT ![w] = s]
          /\ s.pc \in {"rendering", "stored", "settled", "raised"}
          /\ s.job = e
  <2>1. CASE LoadExport(w) /\ ExportRow(e) /\ data[source[e]] # None
    <3>1. source[e] \in Resumes
      BY <1>2, <2>1 DEF TypeInv, ExportOK, ExportRow
    <3> DEFINE s == [worker[w] EXCEPT !.pc = "rendering", !.dirty = export[e] = "queued",
                                      !.content = data[source[e]]]
    <3>2. s \in WorkerState /\ s.pc = "rendering" /\ s.job = e
      BY <1>2, <3>1 DEF WorkerState, WorkerPC, TypeOK
    <3>3. worker' = [worker EXCEPT ![w] = s]
      BY <1>2, <2>1 DEF LoadExport
    <3> QED
      BY <3>2, <3>3
  <2>2. CASE LoadExport(w) /\ ~(ExportRow(e) /\ data[source[e]] # None)
    <3> DEFINE s == [worker[w] EXCEPT !.pc = "settled"]
    <3>1. s \in WorkerState /\ s.pc = "settled" /\ s.job = e
      BY <1>2 DEF WorkerState, WorkerPC
    <3>2. worker' = [worker EXCEPT ![w] = s]
      BY <1>2, <2>2 DEF LoadExport
    <3> QED
      BY <3>1, <3>2
  <2>3. ASSUME NEW pc \in {"stored", "settled", "raised"}, Goto(w, pc)
        PROVE  <1>6
    <3>1. pc \in WorkerPC
      BY DEF WorkerPC
    <3> QED
      BY <2>3, <3>1, GotoType
  <2>4. LoadExport(w) \/ \E pc \in {"stored", "settled", "raised"} : Goto(w, pc)
    BY DEF RenderPdf, CommitExport, OnRenderError
  <2> QED
    BY <2>1, <2>2, <2>3, <2>4
<1>7. PICK s \in WorkerState :
          /\ worker' = [worker EXCEPT ![w] = s]
          /\ s.pc \in {"rendering", "stored", "settled", "raised"}
          /\ s.job = e
  BY <1>6
<1>8. worker' \in [Workers -> WorkerState] /\ worker'[w] = s
  BY <1>7, WorkerStep
<1>9. TypeOK'
  BY <1>2, <1>3, <1>4, <1>5, <1>8 DEF TypeOK
<1>10. WorkerOK(w)'
  BY <1>2, <1>7, <1>8 DEF WorkerOK, ParsePC, ExportPC, Jobs
<1> QED
  BY <1>3, <1>4, <1>7, <1>9, <1>10, WorkerFrame

\* The end of a task, by its acknowledgement or by a death.
LEMMA IdleFrame ==
  ASSUME TypeInv, NEW w \in Workers, worker' = [worker EXCEPT ![w] = Idle],
         UNCHANGED <<upload, objects, deletion, account, pdf, outrun, spent>>,
         UNCHANGED <<status, data, export, source, hash, undispatched>>,
         queue' \in [Jobs \X Retries -> Nat],
         redelivered' \subseteq Jobs, struck' \subseteq Jobs,
         crashes' \in 0..MaxCrashes, faults' \in 0..MaxFaults
  PROVE  TypeInv'
<1>1. worker' \in [Workers -> WorkerState] /\ worker'[w] = Idle
  BY IdleType, WorkerStep
<1>2. WorkerOK(w)'
  BY <1>1, IdleType DEF WorkerOK, ParsePC, ExportPC
<1>3. TypeOK'
  BY <1>1 DEF TypeInv, TypeOK
<1> QED
  BY <1>2, <1>3, IdleType, WorkerFrame

\* What both tasks share.
LEMMA TaskTypes ==
  ASSUME TypeInv, NEW w \in Workers,
         \/ DatabaseFails(w) \/ RetryOrGiveUp(w) \/ Acknowledge(w)
         \/ LoseWorker(w) \/ LoseProcess(w)
  PROVE  TypeInv'
<1> DEFINE j == worker[w].job
           n == worker[w].n
<1>1. worker[w].pc # "idle"
  BY DEF DatabaseFails, RetryOrGiveUp, Acknowledge, LoseWorker, LoseProcess, Crash, At
<1>2. TypeOK /\ j \in Jobs /\ n \in Retries
  BY <1>1, BusyType DEF TypeInv
<1>3. /\ UNCHANGED <<upload, objects, deletion, account, pdf, outrun>>
      /\ UNCHANGED <<status, data, export, source, hash, undispatched>>
  BY DEF DatabaseFails, RetryOrGiveUp, Acknowledge, LoseWorker, LoseProcess, Crash,
         resumeVars, exportVars, ghostVars
<1>4. ASSUME NEW pc \in {"raised", "settled"}, Goto(w, pc), UNCHANGED redelivered,
             spent' \subseteq Exports, queue' \in [Jobs \X Retries -> Nat],
             Fault(j) \/ NoFault
      PROVE  TypeInv'
  <2>1. pc \in WorkerPC
    BY DEF WorkerPC
  <2>2. PICK s \in WorkerState :
          worker' = [worker EXCEPT ![w] = s] /\ worker'[w] = s /\ s.pc = pc /\ s.job = j
    BY <1>4, <2>1, GotoType
  <2>3. worker' \in [Workers -> WorkerState]
    BY <2>2, WorkerStep
  <2>4. /\ struck' \subseteq Jobs
        /\ crashes' \in 0..MaxCrashes /\ faults' \in 0..MaxFaults
    BY <1>2, <1>4, FaultType, NoFaultType
  <2>5. TypeOK'
    BY <1>2, <1>3, <1>4, <2>3, <2>4 DEF TypeOK
  <2>6. WorkerOK(w)'
    BY <1>2, <2>2 DEF WorkerOK, ParsePC, ExportPC
  <2> QED
    BY <1>3, <2>2, <2>5, <2>6, WorkerFrame
<1>5. CASE DatabaseFails(w)
  <2>1. UNCHANGED <<queue, redelivered, spent>> /\ Goto(w, "raised") /\ Fault(j)
    BY <1>5 DEF DatabaseFails, ghostVars
  <2> QED
    BY <1>2, <1>4, <2>1 DEF TypeOK
<1>6. CASE RetryOrGiveUp(w)
  <2>1. Goto(w, "settled") /\ UNCHANGED redelivered /\ (Fault(j) \/ NoFault)
    BY <1>6 DEF RetryOrGiveUp
  <2>2. spent' \subseteq Exports
    BY <1>2, <1>6 DEF RetryOrGiveUp, TypeOK
  <2>3. UNCHANGED queue \/ (n < MaxRetries(j) /\ Publish(j, n + 1))
    BY <1>6 DEF RetryOrGiveUp
  <2>4. queue' \in [Jobs \X Retries -> Nat]
    BY <1>2, <2>3, RetryFits, PublishType DEF TypeOK
  <2> QED
    BY <1>4, <2>1, <2>2, <2>4
<1>7. CASE Acknowledge(w)
  BY <1>2, <1>3, <1>7, IdleFrame DEF Acknowledge, Release, TypeOK, ghostVars, faultVars
<1>8. CASE LoseWorker(w) \/ LoseProcess(w)
  <2>1. Crash(w) /\ (Redeliver(w) \/ /\ struck' = struck \cup ({j} \cap Exports)
                                     /\ UNCHANGED <<queue, redelivered>>)
    BY <1>8 DEF LoseWorker, LoseProcess
  <2>2. /\ worker' = [worker EXCEPT ![w] = Idle]
        /\ crashes' \in 0..MaxCrashes /\ faults' \in 0..MaxFaults
        /\ UNCHANGED spent
    BY <1>2, <2>1, ConstantsAssumption DEF Crash, TypeOK
  <2>3. /\ queue' \in [Jobs \X Retries -> Nat]
        /\ redelivered' \subseteq Jobs /\ struck' \subseteq Jobs
    BY <1>2, <2>1, PublishType DEF Redeliver, TypeOK
  <2> QED
    BY <1>3, <2>2, <2>3, IdleFrame
<1> QED
  BY <1>5, <1>6, <1>7, <1>8

-----------------------------------------------------------------------------
(* Rows and files                                                          *)

Open == {"stored", "parsed", "unparsed", "enqueued"}

\* A row belongs to a completed upload or build; until it is committed its file
\* is in the bucket, and a deletion takes the file before the row.  A closed account
\* has no row and no flushed insert.
FileOK(r) ==
    /\ Row(r) => upload[r] \in {"committed", "built"}
    /\ upload[r] \in Open => r \in objects
    /\ deletion[r] # "none" => upload[r] \in {"committed", "built"}
    /\ deletion[r] = "object" => r \notin objects
    /\ Row(r) /\ HasKey(r) /\ r \notin objects => deletion[r] # "none"
    /\ r \in objects => \/ Row(r) \/ upload[r] \notin {"unused", "committed", "built"}
                       \/ account = "closed"
    /\ account = "closed" => ~Row(r) /\ upload[r] \notin {"parsed", "unparsed", "enqueued"}

FilesInv == TypeInv /\ \A r \in Resumes : FileOK(r)

\* A step that neither touches files nor makes or removes a row.
LEMMA FilesFrame ==
  ASSUME FilesInv, UNCHANGED <<upload, objects, deletion, account>>,
         \A r \in Resumes : Row(r)' <=> Row(r)
  PROVE  \A r \in Resumes : FileOK(r)'
  BY DEF FilesInv, FileOK, HasKey

\* The handlers that touch files, one by one.
LEMMA UploadFiles ==
  ASSUME FilesInv, NEW r \in Resumes,
         \/ StoreObject(r) \/ StoreFails(r) \/ ParseInline(r) \/ EnqueueParse(r)
         \/ CommitUpload(r) \/ LoseUpload(r) \/ BuildResume(r)
  PROVE  \A x \in Resumes : FileOK(x)'
<1>1. TypeOK /\ \A x \in Resumes : FileOK(x)
  BY DEF FilesInv, TypeInv
<1>2. ASSUME NEW x \in Resumes \ {r}
      PROVE  FileOK(x)'
  <2>1. /\ upload'[x] = upload[x] /\ status'[x] = status[x] /\ UNCHANGED <<deletion, account>>
        /\ x \in objects' <=> x \in objects
    BY <1>1 DEF StoreObject, StoreFails, ParseInline, EnqueueParse, CommitUpload,
                LoseUpload, BuildResume, TypeOK, resumeVars
  <2> QED
    BY <1>1, <2>1 DEF FileOK, Row, HasKey
<1>3. FileOK(r)'
  <2>1. UNCHANGED <<deletion, account>> /\ deletion[r] \in DeletePC /\ status[r] \in RowStatus
    BY <1>1 DEF StoreObject, StoreFails, ParseInline, EnqueueParse, CommitUpload,
                LoseUpload, BuildResume, TypeOK
  <2>2. CASE StoreObject(r)
    BY <1>1, <2>1, <2>2 DEF StoreObject, TypeOK, FileOK, Row, HasKey, Open, resumeVars
  <2>3. CASE StoreFails(r)
    BY <1>1, <2>1, <2>3 DEF StoreFails, TypeOK, FileOK, Row, HasKey, Open, resumeVars,
                            OnPutError
  <2>4. CASE ParseInline(r)
    BY <1>1, <2>1, <2>4 DEF ParseInline, TypeOK, FileOK, Row, HasKey, Open, resumeVars
  <2>5. CASE EnqueueParse(r)
    BY <1>1, <2>1, <2>5 DEF EnqueueParse, TypeOK, FileOK, Row, HasKey, Open, resumeVars
  <2>6. CASE CommitUpload(r)
    BY <1>1, <2>1, <2>6 DEF CommitUpload, TypeOK, FileOK, Row, HasKey, Open
  <2>7. CASE LoseUpload(r)
    BY <1>1, <2>1, <2>7 DEF LoseUpload, TypeOK, FileOK, Row, HasKey, Open, resumeVars
  <2>8. CASE BuildResume(r)
    BY <1>1, <2>1, <2>8 DEF BuildResume, TypeOK, FileOK, Row, HasKey, Open
  <2> QED
    BY <2>2, <2>3, <2>4, <2>5, <2>6, <2>7, <2>8
<1> QED
  BY <1>2, <1>3

LEMMA DeleteFiles ==
  ASSUME FilesInv, NEW r \in Resumes,
         DeleteObject(r) \/ DeleteObjectFails(r) \/ CommitDelete(r) \/ LoseDelete(r)
  PROVE  \A x \in Resumes : FileOK(x)'
<1>1. TypeOK /\ \A x \in Resumes : FileOK(x)
  BY DEF FilesInv, TypeInv
<1>2. ASSUME NEW x \in Resumes \ {r}
      PROVE  FileOK(x)'
  <2>1. /\ UNCHANGED <<upload, account>> /\ status'[x] = status[x] /\ deletion'[x] = deletion[x]
        /\ x \in objects' <=> x \in objects
    BY <1>1 DEF DeleteObject, DeleteObjectFails, CommitDelete, LoseDelete, TypeOK,
                resumeVars
  <2> QED
    BY <1>1, <2>1 DEF FileOK, Row, HasKey
<1>3. FileOK(r)'
  <2>1. UNCHANGED upload
    BY DEF DeleteObject, DeleteObjectFails, CommitDelete, LoseDelete
  <2>2. CASE DeleteObject(r)
    BY <1>1, <2>1, <2>2 DEF DeleteObject, TypeOK, FileOK, Row, HasKey, Open, resumeVars
  <2>3. CASE DeleteObjectFails(r)
    BY <1>1, <2>1, <2>3 DEF DeleteObjectFails, TypeOK, FileOK, Row, HasKey, Open,
                            resumeVars, OnDeleteError
  <2>4. CASE CommitDelete(r)
    BY <1>1, <2>1, <2>4 DEF CommitDelete, TypeOK, FileOK, Row, HasKey, Open
  <2>5. CASE LoseDelete(r)
    BY <1>1, <2>1, <2>5 DEF LoseDelete, TypeOK, FileOK, Row, HasKey, Open, resumeVars
  <2> QED
    BY <2>2, <2>3, <2>4, <2>5
<1> QED
  BY <1>2, <1>3

\* The account's deletion waits for the inserts and leaves no row.
LEMMA AccountFiles ==
  ASSUME FilesInv, DeleteAccount
  PROVE  \A x \in Resumes : FileOK(x)'
  BY DEF FilesInv, FileOK, Row, HasKey, DeleteAccount

\* The workers change the status of rows, and neither rows nor files.
LEMMA WorkerFiles ==
  ASSUME FilesInv, NEW w \in Workers,
         \/ LoadResume(w) \/ MarkProcessing(w) \/ ParseFile(w)
         \/ CommitParsed(w) \/ CommitFailed(w)
         \/ LoadExport(w) \/ RenderPdf(w) \/ CommitExport(w)
         \/ DatabaseFails(w) \/ RetryOrGiveUp(w) \/ Acknowledge(w)
         \/ LoseWorker(w) \/ LoseProcess(w)
  PROVE  \A r \in Resumes : FileOK(r)'
<1>1. TypeOK
  BY DEF FilesInv, TypeInv
<1>2. UNCHANGED <<upload, objects, deletion, account>>
  BY DEF LoadResume, MarkProcessing, ParseFile, CommitParsed, CommitFailed,
         LoadExport, RenderPdf, CommitExport, DatabaseFails, RetryOrGiveUp,
         Acknowledge, LoseWorker, LoseProcess, Crash
<1>3. \A r \in Resumes : Row(r)' <=> Row(r)
  <2>1. CASE MarkProcessing(w)
    <3>1. worker[w].job \in Resumes
      BY <2>1 DEF MarkProcessing, At, FilesInv, TypeInv, WorkerOK, ParsePC
    <3>2. UNCHANGED status \/ status' = [status EXCEPT ![worker[w].job] = "processing"]
      BY <2>1 DEF MarkProcessing
    <3>3. status'# status => Row(worker[w].job)
      BY <2>1 DEF MarkProcessing
    <3> QED
      BY <1>1, <3>1, <3>2, <3>3 DEF Row, TypeOK
  <2>2. CASE CommitParsed(w) \/ CommitFailed(w)
    BY <1>1, <2>2 DEF CommitParsed, CommitFailed, Row, TypeOK, resumeVars
  <2>3. CASE ~(MarkProcessing(w) \/ CommitParsed(w) \/ CommitFailed(w))
    <3>1. UNCHANGED status
      BY <2>3 DEF LoadResume, ParseFile, LoadExport, RenderPdf, CommitExport,
                  DatabaseFails, RetryOrGiveUp, Acknowledge, LoseWorker, LoseProcess,
                  Crash, resumeVars
    <3> QED
      BY <3>1 DEF Row
  <2> QED
    BY <2>1, <2>2, <2>3
<1> QED
  BY <1>2, <1>3, FilesFrame

\* The invariant of rows and files is inductive.
LEMMA InitFiles == Init => FilesInv
<1> SUFFICES ASSUME Init PROVE FilesInv
  OBVIOUS
<1>1. TypeOK
  BY IdleType, ConstantsAssumption DEF Init, TypeOK, UploadPC, RowStatus, DeletePC, ExportLife
<1>2. \A w \in Workers : WorkerOK(w)
  BY IdleType DEF Init, WorkerOK, ParsePC, ExportPC
<1>3. \A e \in Exports : ExportOK(e)
  BY DEF Init, ExportOK
<1>4. \A r \in Resumes : FileOK(r)
  BY DEF Init, FileOK, Row, HasKey, Open
<1> QED
  BY <1>1, <1>2, <1>3, <1>4 DEF FilesInv, TypeInv

\* Every step keeps it.
LEMMA NextFiles == FilesInv /\ [Next]_vars => FilesInv'
<1> SUFFICES ASSUME FilesInv, [Next]_vars PROVE FilesInv'
  OBVIOUS
<1> USE DEF FilesInv
<1>1. ASSUME NEW r \in Resumes,
             \/ StoreObject(r) \/ StoreFails(r) \/ ParseInline(r) \/ EnqueueParse(r)
             \/ CommitUpload(r) \/ LoseUpload(r) \/ BuildResume(r)
      PROVE  FilesInv'
  <2>1. TypeInv'
    BY <1>1, UploadTypes
  <2>2. \A x \in Resumes : FileOK(x)'
    BY <1>1, UploadFiles
  <2> QED
    BY <2>1, <2>2
<1>2. ASSUME NEW r \in Resumes,
             DeleteObject(r) \/ DeleteObjectFails(r) \/ CommitDelete(r) \/ LoseDelete(r)
      PROVE  FilesInv'
  <2>1. TypeInv'
    BY <1>2, DeleteTypes
  <2>2. \A x \in Resumes : FileOK(x)'
    BY <1>2, DeleteFiles
  <2> QED
    BY <2>1, <2>2
<1>3. ASSUME NEW e \in Exports,
             \/ \E r \in Resumes : MissCache(e, r)
             \/ InsertExport(e) \/ DispatchExport(e)
      PROVE  FilesInv'
  <2>1. TypeInv'
    BY <1>3, ExportTypes DEF FileOK
  <2>2. UNCHANGED <<upload, objects, deletion, account, status>>
    BY <1>3 DEF MissCache, InsertExport, DispatchExport, resumeVars
  <2>3. \A x \in Resumes : FileOK(x)'
    BY <2>2, FilesFrame DEF Row
  <2> QED
    BY <2>1, <2>3
<1>4. ASSUME NEW w \in Workers, NEW j \in Jobs, NEW n \in Retries, Take(w, j, n)
      PROVE  FilesInv'
  <2>1. TypeInv'
    BY <1>4, TakeTypes
  <2>2. UNCHANGED <<upload, objects, deletion, account, status>>
    BY <1>4 DEF Take, resumeVars
  <2>3. \A x \in Resumes : FileOK(x)'
    BY <2>2, FilesFrame DEF Row
  <2> QED
    BY <2>1, <2>3
<1>5. ASSUME NEW w \in Workers,
             \/ LoadResume(w) \/ MarkProcessing(w) \/ ParseFile(w)
             \/ CommitParsed(w) \/ CommitFailed(w)
             \/ LoadExport(w) \/ RenderPdf(w) \/ CommitExport(w)
             \/ DatabaseFails(w) \/ RetryOrGiveUp(w) \/ Acknowledge(w)
             \/ LoseWorker(w) \/ LoseProcess(w)
      PROVE  FilesInv'
  <2>1. TypeInv'
    BY <1>5, ParseTypes, RenderTypes, TaskTypes
  <2>2. \A x \in Resumes : FileOK(x)'
    BY <1>5, WorkerFiles
  <2> QED
    BY <2>1, <2>2
<1>6. CASE UNCHANGED vars
  <2>1. UNCHANGED <<upload, status, data, objects, deletion, account, export, source, hash,
                    undispatched, pdf, queue, worker, outrun, redelivered, spent,
                    crashes, faults, struck>>
    BY <1>6 DEF vars
  <2>2. TypeOK'
    BY <2>1 DEF TypeInv, TypeOK
  <2>3. TypeInv'
    BY <2>1, <2>2 DEF TypeInv, WorkerOK, ExportOK
  <2>4. \A x \in Resumes : FileOK(x)'
    BY <2>1, FilesFrame DEF Row
  <2> QED
    BY <2>3, <2>4
<1>7. CASE DeleteAccount
  BY <1>7, AccountTypes, AccountFiles
<1> QED
  BY <1>1, <1>2, <1>3, <1>4, <1>5, <1>6, <1>7 DEF Next

\* The strengthened invariant of rows, files and workers holds.
THEOREM FilesAgree == Spec => []FilesInv
  BY InitFiles, NextFiles, PTL DEF Spec

\* The type invariant.  It needs FilesInv: what an export task reads is a
\* resume's data only because an export is of a resume that was created.
THEOREM TypeCorrect == Spec => []TypeOK
<1>1. FilesInv => TypeOK
  BY DEF FilesInv, TypeInv
<1> QED
  BY <1>1, FilesAgree, PTL

\* The row of an uploaded resume has its file unless a deletion was begun, for
\* every order of requests, tasks, deaths and failures.
THEOREM FilesBehindRows == Spec => []RowsHaveFiles
<1>1. FilesInv => RowsHaveFiles
  BY DEF FilesInv, FileOK, RowsHaveFiles
<1> QED
  BY <1>1, FilesAgree, PTL

\* No deletion of a resume leaves a file behind its row, however it fails; that of the
\* account does.
THEOREM DeletionsAreThorough == Spec => []OrphansAreLostUploads
<1>1. FilesInv => OrphansAreLostUploads
  <2> SUFFICES ASSUME FilesInv, NEW r \in objects
               PROVE  \/ Row(r) \/ upload[r] \notin {"unused", "committed", "built"}
                      \/ account = "closed"
    BY DEF OrphansAreLostUploads
  <2>1. r \in Resumes
    BY DEF FilesInv, TypeInv, TypeOK
  <2> QED
    BY <2>1 DEF FilesInv, FileOK
<1> QED
  BY <1>1, FilesAgree, PTL

-----------------------------------------------------------------------------
(* Work that waits has someone to do it                                    *)

\* A worker is trying a job until nothing it still does can help it: a parse
\* that raised has already left "pending" and "processing", an export that
\* raised may still be retried.
Trying(w, j) ==
    /\ worker[w].job = j
    /\ worker[w].pc \in IF j \in Resumes THEN {"taken"} \cup ParsePC
                        ELSE {"taken", "raised"} \cup ExportPC
Attended(j) == \/ \E n \in Retries : Available(j, n)
               \/ \E w \in Workers : Trying(w, j)

\* An upload waits from the moment its task is enqueued.
Waiting(j) == IF j \in Resumes
              THEN status[j] \in {"pending", "processing"} \/ upload[j] = "enqueued"
              ELSE export[j] = "queued"
Excused == outrun \cup struck \cup spent \cup undispatched

\* A worker past the load knows that the upload was committed.
LoadedOK(w) == worker[w].pc \in ParsePC =>
                   upload[worker[w].job] \in {"committed", "built"}

\* An export is asked for when its resume has data, and goes with the resume.
ExportData(e) ==
    /\ ExportRow(e) => Row(source[e])
    /\ ExportRow(e) \/ export[e] = "missed" =>
           (Row(source[e]) => data[source[e]] # None)

Served(j) == Waiting(j) => Attended(j) \/ j \in Excused

WorkInv == /\ FilesInv
           /\ \A w \in Workers : LoadedOK(w)
           /\ \A e \in Exports : ExportData(e)
           /\ \A j \in Jobs : Served(j)

\* A job stays attended while its messages stay and those who try it go on.
LEMMA AttendKept ==
  ASSUME TypeOK, NEW j \in Jobs, Attended(j),
         \A n \in Retries : Available(j, n) => Available(j, n)',
         \A w \in Workers : Trying(w, j) => Trying(w, j)'
  PROVE  Attended(j)'
  BY DEF Attended

\* What a publication does to the messages of every job.
LEMMA PublishEffect ==
  ASSUME TypeOK, NEW j \in Jobs, NEW n \in Retries, Publish(j, n)
  PROVE  /\ Attended(j)'
         /\ \A x \in Jobs, m \in Retries : Available(x, m) => Available(x, m)'
<1>1. \A x \in Jobs, m \in Retries :
         queue'[<<x, m>>] = IF <<x, m>> = <<j, n>> THEN queue[<<j, n>>] + 1
                            ELSE queue[<<x, m>>]
  BY DEF TypeOK, Publish
<1>2. \A x \in Jobs, m \in Retries : queue[<<x, m>>] \in Nat
  BY DEF TypeOK
<1>3. Available(j, n)'
  BY <1>1, <1>2 DEF Available
<1>4. Attended(j)'
  BY <1>3 DEF Attended
<1>5. \A x \in Jobs, m \in Retries : Available(x, m) => Available(x, m)'
  BY <1>1, <1>2 DEF Available
<1> QED
  BY <1>4, <1>5

\* A step of the API: the workers stay, messages are only added.
LEMMA RequestKeeps ==
  ASSUME WorkInv, UNCHANGED worker, NEW j \in Jobs,
         UNCHANGED queue \/ \E x \in Jobs, n \in Retries : Publish(x, n)
  PROVE  Attended(j) => Attended(j)'
<1> SUFFICES ASSUME Attended(j) PROVE Attended(j)'
  OBVIOUS
<1>1. TypeOK
  BY DEF WorkInv, FilesInv, TypeInv
<1>2. \A n \in Retries : Available(j, n) => Available(j, n)'
  BY <1>1, PublishEffect DEF Available
<1>3. \A w \in Workers : Trying(w, j) => Trying(w, j)'
  BY DEF Trying
<1> QED
  BY <1>1, <1>2, <1>3, AttendKept

\* A step of a worker, for the jobs it is not trying.
LEMMA WorkerKeeps ==
  ASSUME WorkInv, NEW w \in Workers,
         \A v \in Workers \ {w} : worker'[v] = worker[v],
         NEW j \in Jobs, ~Trying(w, j),
         \A n \in Retries : Available(j, n) => Available(j, n)'
  PROVE  Attended(j) => Attended(j)'
<1>1. \A v \in Workers : Trying(v, j) => Trying(v, j)'
  BY DEF Trying
<1> QED
  BY <1>1, AttendKept DEF WorkInv, FilesInv, TypeInv

\* A step that makes no job wait and withdraws no excuse serves whom it attends.
LEMMA ServedKept ==
  ASSUME WorkInv, NEW j \in Jobs, Waiting(j)' => Waiting(j),
         j \in Excused => j \in Excused', Attended(j) => Attended(j)'
  PROVE  Served(j)'
  BY DEF WorkInv, Served

\* The handlers of uploads.
LEMMA UploadWork ==
  ASSUME WorkInv, NEW r \in Resumes,
         \/ StoreObject(r) \/ StoreFails(r) \/ ParseInline(r) \/ EnqueueParse(r)
         \/ CommitUpload(r) \/ LoseUpload(r) \/ BuildResume(r)
  PROVE  /\ \A w \in Workers : LoadedOK(w)'
         /\ \A e \in Exports : ExportData(e)'
         /\ \A j \in Jobs : Served(j)'
<1>1. /\ TypeOK /\ r \in Jobs /\ r \notin Exports /\ 0 \in Retries
      /\ \A x \in Resumes : FileOK(x)
      /\ \A e \in Exports : ExportOK(e)
  BY ConstantsAssumption DEF WorkInv, FilesInv, TypeInv, Jobs, Retries
<1>2. /\ UNCHANGED <<worker, source, export, undispatched, outrun, spent>>
      /\ upload[r] \notin {"committed", "built"}
      /\ \A x \in Resumes \ {r} : /\ upload'[x] = upload[x]
                                  /\ status'[x] = status[x] /\ data'[x] = data[x]
  BY <1>1 DEF StoreObject, StoreFails, ParseInline, EnqueueParse, CommitUpload,
              LoseUpload, BuildResume, TypeOK, exportVars, ghostVars, resumeVars
<1>3. ~Row(r)
  BY <1>1, <1>2 DEF FileOK
<1>4. UNCHANGED queue \/ Publish(r, 0)
  BY DEF StoreObject, StoreFails, ParseInline, EnqueueParse, CommitUpload,
         LoseUpload, BuildResume
<1>5. struck \subseteq struck'
  BY DEF StoreObject, StoreFails, ParseInline, EnqueueParse, CommitUpload,
         LoseUpload, BuildResume, Fault, NoFault, faultVars
<1>6. \A j \in Jobs : Attended(j) => Attended(j)'
  BY <1>1, <1>2, <1>4, RequestKeeps
<1>7. Excused \subseteq Excused'
  BY <1>2, <1>5 DEF Excused
<1>8. ASSUME NEW w \in Workers PROVE LoadedOK(w)'
  <2>1. worker[w].pc \in ParsePC => worker[w].job \in Resumes
    BY DEF WorkInv, FilesInv, TypeInv, WorkerOK
  <2> QED
    BY <1>2, <2>1 DEF WorkInv, LoadedOK
<1>9. ASSUME NEW e \in Exports PROVE ExportData(e)'
  <2>1. export[e] # "unused" => source[e] \in Resumes \ {r}
    BY <1>1, <1>2 DEF ExportOK
  <2> QED
    BY <1>2, <2>1 DEF WorkInv, ExportData, ExportRow, Row
<1>10. ASSUME NEW j \in Jobs, j # r PROVE Served(j)'
  <2>1. Waiting(j)' => Waiting(j)
    BY <1>2, <1>10 DEF Waiting, Jobs
  <2> QED
    BY <1>6, <1>7, <2>1, ServedKept
<1>11. Served(r)'
  <2>1. CASE EnqueueParse(r)
    <3>1. Publish(r, 0) \/ Fault(r)
      BY <2>1 DEF EnqueueParse
    <3>2. Attended(r)' \/ r \in Excused'
      BY <1>1, <3>1, PublishEffect DEF Fault, Excused
    <3> QED
      BY <3>2 DEF Served
  <2>2. CASE CommitUpload(r) /\ upload[r] = "enqueued"
    <3>1. Waiting(r)
      BY <2>2 DEF Waiting
    <3> QED
      BY <1>1, <1>6, <1>7, <3>1, ServedKept
  <2>3. CASE ~EnqueueParse(r) /\ ~(CommitUpload(r) /\ upload[r] = "enqueued")
    <3>1. status[r] = "absent"
      BY <1>3 DEF Row
    <3>2. upload'[r] # "enqueued" /\ status'[r] \in {"absent", "done"}
      BY <1>1, <2>3, <3>1 DEF StoreObject, StoreFails, ParseInline, CommitUpload,
              LoseUpload, BuildResume, TypeOK, resumeVars, OnPutError
    <3> QED
      BY <3>2 DEF Served, Waiting
  <2> QED
    BY <2>1, <2>2, <2>3
<1> QED
  BY <1>8, <1>9, <1>10, <1>11

\* The handler of deletions.
LEMMA DeleteWork ==
  ASSUME WorkInv, NEW r \in Resumes,
         DeleteObject(r) \/ DeleteObjectFails(r) \/ CommitDelete(r) \/ LoseDelete(r)
  PROVE  /\ \A w \in Workers : LoadedOK(w)'
         /\ \A e \in Exports : ExportData(e)'
         /\ \A j \in Jobs : Served(j)'
<1>1. TypeOK /\ \A e \in Exports : ExportOK(e)
  BY DEF WorkInv, FilesInv, TypeInv
<1>2. UNCHANGED <<worker, upload, source, undispatched, queue, outrun, spent>>
  BY DEF DeleteObject, DeleteObjectFails, CommitDelete, LoseDelete, exportVars, ghostVars
<1>3. struck \subseteq struck'
  BY DEF DeleteObject, DeleteObjectFails, CommitDelete, LoseDelete, Fault, faultVars
<1>4. Excused \subseteq Excused'
  BY <1>2, <1>3 DEF Excused
<1>5. \A w \in Workers : LoadedOK(w)'
  BY <1>2 DEF WorkInv, LoadedOK
<1>6. \/ UNCHANGED <<status, data, export>>
      \/ /\ status' = [status EXCEPT ![r] = "absent"]
         /\ data' = [data EXCEPT ![r] = None]
         /\ export' = [e \in Exports |-> IF source[e] = r /\ ExportRow(e)
                                         THEN "gone" ELSE export[e]]
  BY DEF DeleteObject, DeleteObjectFails, CommitDelete, LoseDelete, exportVars, resumeVars
<1>7. ASSUME NEW e \in Exports PROVE ExportData(e)'
  <2>1. ExportData(e) /\ (export[e] # "unused" => source[e] \in Resumes)
    BY <1>1 DEF WorkInv, ExportOK
  <2> QED
    BY <1>1, <1>2, <1>6, <2>1 DEF ExportData, ExportRow, Row, TypeOK
<1>8. ASSUME NEW j \in Jobs PROVE Served(j)'
  <2>1. Waiting(j)' => Waiting(j)
    BY <1>1, <1>2, <1>6 DEF Waiting, Jobs, TypeOK, ExportRow
  <2>2. Attended(j) => Attended(j)'
    BY <1>2, RequestKeeps
  <2> QED
    BY <1>4, <2>1, <2>2, ServedKept
<1> QED
  BY <1>5, <1>7, <1>8

\* The deletion of the account makes no row and no export wait.
LEMMA AccountWork ==
  ASSUME WorkInv, DeleteAccount
  PROVE  /\ \A w \in Workers : LoadedOK(w)'
         /\ \A e \in Exports : ExportData(e)'
         /\ \A j \in Jobs : Served(j)'
<1>1. TypeOK /\ \A e \in Exports : ExportOK(e)
  BY DEF WorkInv, FilesInv, TypeInv
<1>2. UNCHANGED <<worker, upload, source, undispatched, queue, outrun, spent, struck>>
  BY DEF DeleteAccount, ghostVars, faultVars
<1>3. \A w \in Workers : LoadedOK(w)'
  BY <1>2 DEF WorkInv, LoadedOK
<1>4. ASSUME NEW e \in Exports PROVE ExportData(e)'
  <2>1. export[e] # "unused" => source[e] \in Resumes
    BY <1>1 DEF ExportOK
  <2> QED
    BY <1>1, <1>2, <2>1 DEF DeleteAccount, ExportData, ExportRow, Row, TypeOK
<1>5. ASSUME NEW j \in Jobs PROVE Served(j)'
  <2>1. Waiting(j)' => Waiting(j)
    BY <1>1, <1>2 DEF DeleteAccount, Waiting, Jobs, TypeOK, ExportRow
  <2>2. Attended(j) => Attended(j)'
    BY <1>2, RequestKeeps
  <2> QED
    BY <1>2, <2>1, <2>2, ServedKept DEF Excused
<1> QED
  BY <1>3, <1>4, <1>5

\* The handler of export requests.
LEMMA ExportWork ==
  ASSUME WorkInv, NEW e \in Exports,
         \/ \E r \in Resumes : MissCache(e, r)
         \/ InsertExport(e) \/ DispatchExport(e)
  PROVE  /\ \A w \in Workers : LoadedOK(w)'
         /\ \A x \in Exports : ExportData(x)'
         /\ \A j \in Jobs : Served(j)'
<1>1. TypeOK /\ e \in Jobs /\ e \notin Resumes /\ 0 \in Retries
  BY ConstantsAssumption DEF WorkInv, FilesInv, TypeInv, Jobs, Retries
<1>2. UNCHANGED <<worker, upload, status, data, outrun, spent>>
  BY DEF MissCache, InsertExport, DispatchExport, resumeVars, ghostVars
<1>3. \A x \in Exports \ {e} : export'[x] = export[x] /\ source'[x] = source[x]
  BY <1>1 DEF MissCache, InsertExport, DispatchExport, TypeOK
<1>4. UNCHANGED queue \/ Publish(e, 0)
  BY DEF MissCache, InsertExport, DispatchExport
<1>5. \A j \in Jobs : Attended(j) => Attended(j)'
  BY <1>1, <1>2, <1>4, RequestKeeps
<1>6. struck \subseteq struck' /\ undispatched \ {e} \subseteq undispatched'
  BY DEF MissCache, InsertExport, DispatchExport, Fault, NoFault, faultVars
<1>7. \A w \in Workers : LoadedOK(w)'
  BY <1>2 DEF WorkInv, LoadedOK
<1>8. ASSUME NEW x \in Exports PROVE ExportData(x)'
  <2>1. ExportData(x)
    BY DEF WorkInv
  <2>2. CASE x # e
    BY <1>2, <1>3, <2>1, <2>2 DEF ExportData, ExportRow, Row
  <2>3. CASE x = e
    BY <1>1, <1>2, <2>1, <2>3 DEF MissCache, InsertExport, DispatchExport, ExportData,
                                  ExportRow, Row, TypeOK
  <2> QED
    BY <2>2, <2>3
<1>9. ASSUME NEW j \in Jobs, j # e PROVE Served(j)'
  <2>1. Waiting(j)' => Waiting(j)
    BY <1>2, <1>3, <1>9 DEF Waiting, Jobs
  <2>2. j \in Excused => j \in Excused'
    BY <1>2, <1>6, <1>9 DEF Excused
  <2> QED
    BY <1>5, <2>1, <2>2, ServedKept
<1>10. Served(e)'
  <2>1. CASE \E r \in Resumes : MissCache(e, r)
    BY <1>1, <2>1 DEF MissCache, Served, Waiting, TypeOK
  <2>2. CASE InsertExport(e)
    <3>1. export'[e] = "queued" => e \in Excused'
      BY <1>1, <2>2 DEF InsertExport, Excused, TypeOK
    <3> QED
      BY <1>1, <3>1 DEF Served, Waiting
  <2>3. CASE DispatchExport(e)
    <3>1. Publish(e, 0) \/ Fault(e)
      BY <2>3 DEF DispatchExport
    <3>2. Attended(e)' \/ e \in Excused'
      BY <1>1, <3>1, PublishEffect DEF Fault, Excused
    <3> QED
      BY <3>2 DEF Served
  <2> QED
    BY <2>1, <2>2, <2>3
<1> QED
  BY <1>7, <1>8, <1>9, <1>10

\* The workers take a message ...
LEMMA TakeWork ==
  ASSUME WorkInv, NEW w \in Workers, NEW j \in Jobs, NEW n \in Retries, Take(w, j, n)
  PROVE  /\ \A v \in Workers : LoadedOK(v)'
         /\ \A e \in Exports : ExportData(e)'
         /\ \A x \in Jobs : Served(x)'
<1> DEFINE s == [Idle EXCEPT !.pc = "taken", !.job = j, !.n = n]
<1>1. /\ TypeOK /\ worker[w].pc = "idle"
      /\ UNCHANGED <<upload, status, data, export, source, outrun, struck, spent,
                     undispatched>>
  BY DEF WorkInv, FilesInv, TypeInv, Take, At, resumeVars, exportVars, ghostVars,
         faultVars
<1>2. s.pc = "taken" /\ s.job = j
  BY DEF Idle
<1>3. /\ worker'[w] = s
      /\ \A v \in Workers \ {w} : worker'[v] = worker[v]
  BY <1>1 DEF Take, TypeOK
<1> HIDE DEF s
<1>4. \A v \in Workers : LoadedOK(v)'
  BY <1>1, <1>2, <1>3 DEF WorkInv, LoadedOK, ParsePC
<1>5. \A e \in Exports : ExportData(e)'
  BY <1>1 DEF WorkInv, ExportData, ExportRow, Row
<1>6. Trying(w, j)'
  BY <1>2, <1>3 DEF Trying
<1>7. ASSUME NEW x \in Jobs, x # j PROVE Attended(x) => Attended(x)'
  <2>1. \A m \in Retries : queue'[<<x, m>>] = queue[<<x, m>>]
    BY <1>1, <1>7 DEF Take, TypeOK
  <2>2. ~Trying(w, x)
    BY <1>1 DEF Trying, ParsePC, ExportPC
  <2>3. \A m \in Retries : Available(x, m) => Available(x, m)'
    BY <2>1 DEF Available
  <2> QED
    BY <1>3, <2>2, <2>3, WorkerKeeps
<1>8. \A x \in Jobs : (Waiting(x)' <=> Waiting(x)) /\ Excused' = Excused
  BY <1>1 DEF Waiting, Excused
<1>9. \A x \in Jobs : Served(x)'
  BY <1>6, <1>7, <1>8 DEF WorkInv, Served, Attended
<1> QED
  BY <1>4, <1>5, <1>9

\* ... parse the file of a resume ...
LEMMA ParseWork ==
  ASSUME WorkInv, NEW w \in Workers,
         \/ LoadResume(w) \/ MarkProcessing(w) \/ ParseFile(w)
         \/ CommitParsed(w) \/ CommitFailed(w)
  PROVE  /\ \A v \in Workers : LoadedOK(v)'
         /\ \A e \in Exports : ExportData(e)'
         /\ \A j \in Jobs : Served(j)'
<1>1. PICK r \in Resumes : worker[w].job = r
  BY DEF LoadResume, MarkProcessing, ParseFile, CommitParsed, CommitFailed, At,
         WorkInv, FilesInv, TypeInv, WorkerOK, ParsePC
<1>2. /\ TypeOK /\ worker[w].job = r /\ r \in Jobs /\ worker[w] \in WorkerState
      /\ FileOK(r) /\ LoadedOK(w) /\ WorkerOK(w)
  BY <1>1 DEF WorkInv, FilesInv, TypeInv, TypeOK, Jobs
<1>3. /\ UNCHANGED <<upload, queue, export, source, undispatched, spent, struck>>
      /\ outrun \subseteq outrun'
      /\ \A v \in Workers \ {w} : worker'[v] = worker[v]
      /\ \A x \in Resumes \ {r} : status'[x] = status[x] /\ data'[x] = data[x]
  BY <1>2 DEF LoadResume, MarkProcessing, ParseFile, CommitParsed, CommitFailed, Goto,
              TypeOK, exportVars, ghostVars, faultVars, resumeVars
<1>4. Excused \subseteq Excused'
  BY <1>3 DEF Excused
<1>5. (Row(r)' <=> Row(r)) /\ (data[r] # None => data'[r] # None)
  <2>1. CASE LoadResume(w) \/ ParseFile(w)
    BY <2>1 DEF LoadResume, ParseFile, Row, resumeVars
  <2>2. CASE MarkProcessing(w)
    BY <1>2, <2>2 DEF MarkProcessing, Row, TypeOK
  <2>3. CASE CommitParsed(w)
    <3>1. worker[w].content # None
      BY <1>2, <2>3, NoneIsNoJob DEF CommitParsed, At, WorkerOK
    <3> QED
      BY <1>2, <2>3, <3>1 DEF CommitParsed, Row, TypeOK, resumeVars
  <2>4. CASE CommitFailed(w)
    BY <1>2, <2>4 DEF CommitFailed, Row, TypeOK
  <2> QED
    BY <2>1, <2>2, <2>3, <2>4
<1>6. /\ worker'[w].job = r
      /\ worker'[w].pc \in ParsePC => worker[w].pc \in ParsePC \/ Row(r)
      /\ LoadResume(w) => worker'[w].pc = IF Row(r) THEN "loaded" ELSE "settled"
      /\ MarkProcessing(w) => worker'[w].pc = IF worker[w].dirty /\ ~Row(r)
                                              THEN "raised" ELSE "processing"
      /\ ParseFile(w) => worker'[w].pc \in {"parsed", "failing"}
  <2>1. worker \in [Workers -> WorkerState]
    BY <1>2 DEF TypeOK
  <2>2. CASE LoadResume(w)
    BY <1>2, <2>1, <2>2 DEF LoadResume, MarkProcessing, ParseFile, At, WorkerState,
                            ParsePC
  <2>3. CASE MarkProcessing(w)
    BY <1>2, <2>1, <2>3 DEF LoadResume, MarkProcessing, ParseFile, At, Goto, WorkerState,
                            ParsePC
  <2>4. CASE ParseFile(w)
    BY <1>2, <2>1, <2>4 DEF LoadResume, MarkProcessing, ParseFile, At, Goto, WorkerState,
                            ParsePC
  <2>5. CASE CommitParsed(w) \/ CommitFailed(w)
    BY <1>2, <2>1, <2>5 DEF LoadResume, MarkProcessing, ParseFile, CommitParsed,
                            CommitFailed, At, Goto, WorkerState, ParsePC
  <2> QED
    BY <2>2, <2>3, <2>4, <2>5
<1>7. \A v \in Workers : LoadedOK(v)'
  BY <1>2, <1>3, <1>6 DEF WorkInv, LoadedOK, FileOK
<1>8. ASSUME NEW e \in Exports PROVE ExportData(e)'
  <2>1. ExportData(e) /\ (export[e] # "unused" => source[e] \in Resumes)
    BY DEF WorkInv, FilesInv, TypeInv, ExportOK
  <2> QED
    BY <1>3, <1>5, <2>1 DEF ExportData, ExportRow, Row
<1>9. ASSUME NEW j \in Jobs, j # r PROVE Served(j)'
  <2>1. Waiting(j)' => Waiting(j)
    BY <1>3, <1>9 DEF Waiting, Jobs
  <2>2. Attended(j) => Attended(j)'
    BY <1>2, <1>3, <1>9, WorkerKeeps DEF Trying, Available
  <2> QED
    BY <1>4, <2>1, <2>2, ServedKept
<1>10. Served(r)'
  <2>1. worker'[w].pc \in ParsePC => Attended(r)'
    BY <1>2, <1>6 DEF Attended, Trying
  <2>2. CASE LoadResume(w)
    BY <1>2, <1>3, <1>6, <2>1, <2>2 DEF LoadResume, Served, Waiting, Excused, Row,
                                        ParsePC, resumeVars
  <2>3. CASE MarkProcessing(w)
    <3>1. upload'[r] # "enqueued"
      BY <1>2, <1>3, <2>3 DEF MarkProcessing, At, LoadedOK, ParsePC
    <3> QED
      BY <1>2, <1>5, <1>6, <2>1, <2>3, <3>1 DEF Served, Waiting, Row, ParsePC
  <2>4. CASE ParseFile(w)
    BY <1>6, <2>1, <2>4 DEF Served, ParsePC
  <2>5. CASE CommitParsed(w) \/ CommitFailed(w)
    <3>1. upload'[r] # "enqueued"
      BY <1>2, <1>3, <2>5 DEF CommitParsed, CommitFailed, At, LoadedOK, ParsePC
    <3>2. status'[r] \in {"absent", "done", "failed"}
      BY <1>2, <2>5 DEF CommitParsed, CommitFailed, Row, TypeOK, resumeVars
    <3> QED
      BY <1>2, <3>1, <3>2 DEF Served, Waiting
  <2> QED
    BY <2>2, <2>3, <2>4, <2>5
<1> QED
  BY <1>7, <1>8, <1>9, <1>10

\* ... render an export ...
LEMMA RenderWork ==
  ASSUME WorkInv, NEW w \in Workers,
         LoadExport(w) \/ RenderPdf(w) \/ CommitExport(w)
  PROVE  /\ \A v \in Workers : LoadedOK(v)'
         /\ \A e \in Exports : ExportData(e)'
         /\ \A j \in Jobs : Served(j)'
<1>1. PICK e \in Exports : worker[w].job = e
  BY DEF LoadExport, RenderPdf, CommitExport, At, WorkInv, FilesInv, TypeInv, WorkerOK,
         ExportPC
<1>2. /\ TypeOK /\ worker[w].job = e /\ e \in Jobs /\ e \notin Resumes
      /\ worker[w] \in WorkerState /\ ExportData(e) /\ ExportOK(e)
  BY <1>1, ConstantsAssumption DEF WorkInv, FilesInv, TypeInv, TypeOK, Jobs
<1>3. /\ UNCHANGED <<upload, queue, status, data, source, undispatched, outrun, spent,
                     struck>>
      /\ \A v \in Workers \ {w} : worker'[v] = worker[v]
      /\ \A x \in Exports \ {e} : export'[x] = export[x]
  BY <1>2 DEF LoadExport, RenderPdf, CommitExport, Goto, TypeOK, exportVars, ghostVars,
              faultVars, resumeVars
<1>4. Excused' = Excused
  BY <1>3 DEF Excused
<1>5. export'[e] = export[e] \/ (ExportRow(e) /\ export'[e] = "done")
  BY <1>2 DEF LoadExport, RenderPdf, CommitExport, TypeOK, exportVars
<1>6. /\ worker'[w].job = e
      /\ worker'[w].pc \notin ParsePC
      /\ LoadExport(w) => worker'[w].pc = IF ExportRow(e) /\ data[source[e]] # None
                                          THEN "rendering" ELSE "settled"
      /\ RenderPdf(w) => worker'[w].pc \in {"stored", "raised"}
  <2>1. worker \in [Workers -> WorkerState]
    BY <1>2 DEF TypeOK
  <2>2. CASE LoadExport(w)
    BY <1>2, <2>1, <2>2 DEF LoadExport, RenderPdf, At, WorkerState, ParsePC
  <2>3. CASE RenderPdf(w)
    BY <1>2, <2>1, <2>3 DEF LoadExport, RenderPdf, At, Goto, WorkerState, ParsePC,
                            OnRenderError
  <2>4. CASE CommitExport(w)
    BY <1>2, <2>1, <2>4 DEF LoadExport, RenderPdf, CommitExport, At, Goto, WorkerState,
                            ParsePC
  <2> QED
    BY <2>2, <2>3, <2>4
<1>7. \A v \in Workers : LoadedOK(v)'
  BY <1>3, <1>6 DEF WorkInv, LoadedOK
<1>8. \A x \in Exports : ExportData(x)'
  BY <1>3, <1>5 DEF WorkInv, ExportData, ExportRow, Row
<1>9. ASSUME NEW j \in Jobs, j # e PROVE Served(j)'
  <2>1. Waiting(j)' => Waiting(j)
    BY <1>3, <1>9 DEF Waiting, Jobs
  <2>2. Attended(j) => Attended(j)'
    BY <1>2, <1>3, <1>9, WorkerKeeps DEF Trying, Available
  <2> QED
    BY <1>4, <2>1, <2>2, ServedKept
<1>10. Served(e)'
  <2>1. worker'[w].pc \in {"raised"} \cup ExportPC => Attended(e)'
    BY <1>2, <1>6 DEF Attended, Trying
  <2>2. CASE LoadExport(w)
    BY <1>2, <1>3, <1>5, <1>6, <2>1, <2>2
       DEF Served, Waiting, ExportData, ExportRow, ExportPC
  <2>3. CASE RenderPdf(w)
    BY <1>6, <2>1, <2>3 DEF Served, ExportPC
  <2>4. CASE CommitExport(w)
    <3>1. export'[e] # "queued"
      BY <1>2, <2>4 DEF CommitExport, ExportRow, TypeOK
    <3> QED
      BY <1>2, <3>1 DEF Served, Waiting
  <2> QED
    BY <2>2, <2>3, <2>4
<1> QED
  BY <1>7, <1>8, <1>9, <1>10

\* ... and end a task, by a failure, a retry, an acknowledgement or a death.
LEMMA TaskWork ==
  ASSUME WorkInv, NEW w \in Workers,
         \/ DatabaseFails(w) \/ RetryOrGiveUp(w) \/ Acknowledge(w)
         \/ LoseWorker(w) \/ LoseProcess(w)
  PROVE  /\ \A v \in Workers : LoadedOK(v)'
         /\ \A e \in Exports : ExportData(e)'
         /\ \A j \in Jobs : Served(j)'
<1>1. PICK j \in Jobs, n \in Retries : worker[w].job = j /\ worker[w].n = n
  <2>1. worker[w].pc # "idle"
    BY DEF DatabaseFails, RetryOrGiveUp, Acknowledge, LoseWorker, LoseProcess, Crash, At
  <2> QED
    BY <2>1, BusyType DEF WorkInv, FilesInv
<1>2. /\ TypeOK /\ worker[w].job = j /\ worker[w].n = n
      /\ j \in Resumes <=> j \notin Exports
  BY <1>1, ConstantsAssumption DEF WorkInv, FilesInv, TypeInv, Jobs
<1>3. /\ UNCHANGED <<upload, status, data, export, source, undispatched, outrun>>
      /\ \A v \in Workers \ {w} : worker'[v] = worker[v]
  BY <1>2 DEF DatabaseFails, RetryOrGiveUp, Acknowledge, LoseWorker, LoseProcess, Crash,
              Goto, TypeOK, resumeVars, exportVars, ghostVars
<1>4. spent \subseteq spent' /\ struck \subseteq struck'
  BY DEF DatabaseFails, RetryOrGiveUp, Acknowledge, LoseWorker, LoseProcess, Crash,
         Redeliver, Fault, NoFault, ghostVars, faultVars
<1>5. Excused \subseteq Excused'
  BY <1>3, <1>4 DEF Excused
<1>6. worker'[w].pc \in {"raised", "settled", "idle"}
  BY <1>2, IdleType DEF DatabaseFails, RetryOrGiveUp, Acknowledge, LoseWorker,
                        LoseProcess, Crash, Goto, TypeOK, WorkerState
<1>7. \A v \in Workers : LoadedOK(v)'
  BY <1>3, <1>6 DEF WorkInv, LoadedOK, ParsePC
<1>8. \A e \in Exports : ExportData(e)'
  BY <1>3 DEF WorkInv, ExportData, ExportRow, Row
<1>9. \/ UNCHANGED queue
      \/ Publish(j, n)
      \/ n < MaxRetries(j) /\ Publish(j, n + 1)
  BY <1>2 DEF DatabaseFails, RetryOrGiveUp, Acknowledge, LoseWorker, LoseProcess,
              Redeliver, Release
<1>10. /\ \A x \in Jobs, m \in Retries : Available(x, m) => Available(x, m)'
       /\ UNCHANGED queue \/ Attended(j)'
  BY <1>2, <1>9, RetryFits, PublishEffect DEF Available
<1>11. ASSUME NEW x \in Jobs, ~Trying(w, x) PROVE Served(x)'
  <2>1. Waiting(x)' => Waiting(x)
    BY <1>3 DEF Waiting
  <2>2. Attended(x) => Attended(x)'
    BY <1>3, <1>10, <1>11, WorkerKeeps
  <2> QED
    BY <1>5, <2>1, <2>2, ServedKept
<1>12. ASSUME Trying(w, j) PROVE Served(j)'
  <2>1. CASE DatabaseFails(w)
    BY <1>2, <2>1 DEF DatabaseFails, Fault, Served, Excused
  <2>2. CASE RetryOrGiveUp(w)
    <3>1. j \in Exports
      BY <1>2, <1>12, <2>2 DEF RetryOrGiveUp, At, Trying, ParsePC
    <3>2. \/ n < MaxRetries(j) /\ Publish(j, n + 1)
          \/ Fault(j)
          \/ j \in spent'
      BY <1>2, <2>2, <3>1 DEF RetryOrGiveUp
    <3> QED
      BY <1>2, <3>2, RetryFits, PublishEffect DEF Fault, Served, Excused
  <2>3. CASE Acknowledge(w)
    BY <1>12, <2>3 DEF Acknowledge, At, Trying, ParsePC, ExportPC
  <2>4. CASE LoseWorker(w) \/ LoseProcess(w)
    <3>1. Publish(j, n) \/ j \in struck'
      BY <1>2, <2>4 DEF LoseWorker, LoseProcess, Redeliver, RejectedOnLoss
    <3> QED
      BY <1>2, <3>1, PublishEffect DEF Served, Excused
  <2> QED
    BY <2>1, <2>2, <2>3, <2>4
<1>13. \A x \in Jobs : Trying(w, x) => x = j
  BY <1>2 DEF Trying
<1> QED
  BY <1>7, <1>8, <1>11, <1>12, <1>13

\* The invariant of the work that waits is inductive.
LEMMA InitWork == Init => WorkInv
<1> SUFFICES ASSUME Init PROVE WorkInv
  OBVIOUS
<1>1. \A w \in Workers : LoadedOK(w)
  BY IdleType DEF Init, LoadedOK, ParsePC
<1>2. \A e \in Exports : ExportData(e)
  BY DEF Init, ExportData, ExportRow
<1>3. \A j \in Jobs : Served(j)
  BY DEF Init, Served, Waiting, Jobs
<1> QED
  BY <1>1, <1>2, <1>3, InitFiles DEF WorkInv

\* Every step keeps it.
LEMMA NextWork == WorkInv /\ [Next]_vars => WorkInv'
<1> SUFFICES ASSUME WorkInv, [Next]_vars PROVE WorkInv'
  OBVIOUS
<1>1. FilesInv'
  BY NextFiles DEF WorkInv
<1> DEFINE Rest == /\ \A w \in Workers : LoadedOK(w)
                   /\ \A e \in Exports : ExportData(e)
                   /\ \A j \in Jobs : Served(j)
<1>2. ASSUME NEW r \in Resumes,
             \/ StoreObject(r) \/ StoreFails(r) \/ ParseInline(r) \/ EnqueueParse(r)
             \/ CommitUpload(r) \/ LoseUpload(r) \/ BuildResume(r)
      PROVE  Rest'
  BY <1>2, UploadWork
<1>3. ASSUME NEW r \in Resumes,
             DeleteObject(r) \/ DeleteObjectFails(r) \/ CommitDelete(r) \/ LoseDelete(r)
      PROVE  Rest'
  BY <1>3, DeleteWork
<1>4. ASSUME NEW e \in Exports,
             \/ \E r \in Resumes : MissCache(e, r)
             \/ InsertExport(e) \/ DispatchExport(e)
      PROVE  Rest'
  BY <1>4, ExportWork
<1>5. ASSUME NEW w \in Workers, NEW j \in Jobs, NEW n \in Retries, Take(w, j, n)
      PROVE  Rest'
  BY <1>5, TakeWork
<1>6. ASSUME NEW w \in Workers,
             \/ LoadResume(w) \/ MarkProcessing(w) \/ ParseFile(w)
             \/ CommitParsed(w) \/ CommitFailed(w)
      PROVE  Rest'
  BY <1>6, ParseWork
<1>7. ASSUME NEW w \in Workers, LoadExport(w) \/ RenderPdf(w) \/ CommitExport(w)
      PROVE  Rest'
  BY <1>7, RenderWork
<1>8. ASSUME NEW w \in Workers,
             \/ DatabaseFails(w) \/ RetryOrGiveUp(w) \/ Acknowledge(w)
             \/ LoseWorker(w) \/ LoseProcess(w)
      PROVE  Rest'
  BY <1>8, TaskWork
<1>9. ASSUME UNCHANGED vars PROVE Rest'
  <2>1. UNCHANGED <<upload, status, data, export, source, undispatched, queue, worker,
                    outrun, spent, struck>>
    BY <1>9 DEF vars
  <2>2. /\ \A w \in Workers : LoadedOK(w)'
        /\ \A e \in Exports : ExportData(e)'
    BY <2>1 DEF WorkInv, LoadedOK, ExportData, ExportRow, Row
  <2>3. \A j \in Jobs : (Waiting(j)' <=> Waiting(j)) /\ (Attended(j)' <=> Attended(j))
    BY <2>1 DEF Waiting, Attended, Available, Trying
  <2>4. Excused' = Excused
    BY <2>1 DEF Excused
  <2>5. \A j \in Jobs : Served(j)'
    BY <2>3, <2>4, ServedKept
  <2> QED
    BY <2>2, <2>5
<1>10. ASSUME DeleteAccount PROVE Rest'
  BY <1>10, AccountWork
<1> HIDE DEF Rest
<1>11. Rest'
  BY <1>2, <1>3, <1>4, <1>5, <1>6, <1>7, <1>8, <1>9, <1>10 DEF Next
<1> QED
  BY <1>1, <1>11 DEF WorkInv, Rest

\* The strengthened invariant of the work that waits holds.
THEOREM WorkServed == Spec => []WorkInv
  BY InitWork, NextWork, PTL DEF Spec

\* No upload waits for a parse that nobody will run, unless a worker was faster
\* than its commit or a failure hit it: deaths of workers alone lose none.
THEOREM UploadsRemembered == Spec => []NoForgottenUpload
<1>1. WorkInv => NoForgottenUpload
  <2> SUFFICES ASSUME WorkInv, NEW r \in Resumes, status[r] \in {"pending", "processing"}
               PROVE  InFlight(r) \/ r \in outrun \cup struck
    BY DEF NoForgottenUpload
  <2>1. Attended(r) \/ r \in Excused
    BY DEF WorkInv, Served, Waiting, Jobs
  <2>2. r \notin spent \cup undispatched
    BY ConstantsAssumption DEF WorkInv, FilesInv, TypeInv, TypeOK
  <2> QED
    BY <2>1, <2>2 DEF Attended, Trying, InFlight, Excused
<1> QED
  BY <1>1, WorkServed, PTL

\* No export stays queued without a task, but for the four ways the code leaves
\* one so: not yet dispatched, its tries spent, a failure, its process dead.
THEOREM ExportsRemembered == Spec => []NoForgottenExport
<1>1. WorkInv => NoForgottenExport
  <2> SUFFICES ASSUME WorkInv, NEW e \in Exports, export[e] = "queued"
               PROVE  e \in undispatched \cup spent \cup struck \/ InFlight(e)
    BY DEF NoForgottenExport
  <2>1. e \notin Resumes
    BY ConstantsAssumption
  <2>2. Attended(e) \/ e \in Excused
    BY <2>1 DEF WorkInv, Served, Waiting, Jobs
  <2>3. e \notin outrun
    BY <2>1 DEF WorkInv, FilesInv, TypeInv, TypeOK
  <2> QED
    BY <2>2, <2>3 DEF Attended, Trying, InFlight, Excused
<1> QED
  BY <1>1, WorkServed, PTL

\* No task of an upload or an export is forgotten, but for the causes named.
THEOREM WorkRemembered == Spec => []NoForgottenWork
<1>1. NoForgottenUpload /\ NoForgottenExport => NoForgottenWork
  BY DEF NoForgottenWork
<1> QED
  BY <1>1, UploadsRemembered, ExportsRemembered, PTL

-----------------------------------------------------------------------------
(* A resume is parsed once                                                 *)

\* A worker may still write what it finds in the file of a resume.
Parsing(w, r) == worker[w].job = r /\ worker[w].pc \notin {"idle", "settled"}
Unparsed(r) == /\ \A n \in Retries : ~Available(r, n)
               /\ \A w \in Workers : ~Parsing(w, r)

\* No task was asked for yet, or its result is there.
Settled(r) == \/ upload[r] \in {"unused", "stored", "parsed", "unparsed", "built"}
              \/ data[r] # None

\* Without a death a resume has one message, in the queue or with a worker, and
\* none before its task is asked for or after its data is there.
SoleOK(r) ==
    /\ ~Row(r) => data[r] = None
    /\ r \notin redelivered =>
          /\ Settled(r) => Unparsed(r)
          /\ \A n, m \in Retries : Available(r, n) /\ Available(r, m) => n = m
          /\ \A n \in Retries : queue[<<r, n>>] <= 1
          /\ \A n \in Retries, w \in Workers : ~(Available(r, n) /\ Parsing(w, r))
          /\ \A w, v \in Workers : Parsing(w, r) /\ Parsing(v, r) => w = v

SoleInv == WorkInv /\ \A r \in Resumes : SoleOK(r)

\* A step that adds neither a message nor a worker for a resume.
LEMMA SoleKept ==
  ASSUME SoleInv, NEW r \in Resumes,
         ~Row(r)' => data'[r] = None,
         queue' \in [Jobs \X Retries -> Nat],
         r \notin redelivered' =>
             /\ r \notin redelivered
             /\ Settled(r)' => Settled(r) \/ Unparsed(r)'
             /\ \A n \in Retries : queue'[<<r, n>>] <= queue[<<r, n>>]
             /\ \A w \in Workers : Parsing(w, r)' => Parsing(w, r)
  PROVE  SoleOK(r)'
<1> SUFFICES ASSUME r \notin redelivered'
             PROVE  /\ Settled(r)' => Unparsed(r)'
                    /\ \A n, m \in Retries : Available(r, n)' /\ Available(r, m)' => n = m
                    /\ \A n \in Retries : queue'[<<r, n>>] <= 1
                    /\ \A n \in Retries, w \in Workers :
                          ~(Available(r, n)' /\ Parsing(w, r)')
                    /\ \A w, v \in Workers : Parsing(w, r)' /\ Parsing(v, r)' => w = v
  BY DEF SoleOK
<1>1. SoleOK(r) /\ r \notin redelivered
  BY DEF SoleInv
<1>2. \A n \in Retries : queue[<<r, n>>] \in Nat /\ queue'[<<r, n>>] \in Nat
  BY DEF SoleInv, WorkInv, FilesInv, TypeInv, TypeOK, Jobs
<1>3. \A n \in Retries : Available(r, n)' => Available(r, n)
  BY <1>2 DEF Available
<1>4. \A n \in Retries : queue'[<<r, n>>] <= 1
  BY <1>1, <1>2 DEF SoleOK
<1>5. Settled(r)' => Unparsed(r)'
  BY <1>1, <1>3 DEF SoleOK, Unparsed
<1> QED
  BY <1>1, <1>3, <1>4, <1>5 DEF SoleOK

\* The first message of a resume, or the next one of a task that ends.
LEMMA SolePublished ==
  ASSUME SoleInv, NEW r \in Resumes, NEW n \in Retries, Publish(r, n),
         ~Row(r)' => data'[r] = None,
         \/ ~Settled(r)' /\ \A m \in Retries : ~Available(r, m)
         \/ r \in redelivered',
         \A w \in Workers : ~Parsing(w, r)' \/ r \in redelivered'
  PROVE  SoleOK(r)'
<1> SUFFICES ASSUME r \notin redelivered'
             PROVE  /\ Settled(r)' => Unparsed(r)'
                    /\ \A k, m \in Retries : Available(r, k)' /\ Available(r, m)' => k = m
                    /\ \A m \in Retries : queue'[<<r, m>>] <= 1
                    /\ \A m \in Retries, w \in Workers :
                          ~(Available(r, m)' /\ Parsing(w, r)')
                    /\ \A w, v \in Workers : Parsing(w, r)' /\ Parsing(v, r)' => w = v
  BY DEF SoleOK
<1>1. \A m \in Retries : /\ queue[<<r, m>>] = 0
                         /\ queue'[<<r, m>>] = IF m = n THEN 1 ELSE 0
  <2>1. queue \in [Jobs \X Retries -> Nat] /\ r \in Jobs
    BY DEF SoleInv, WorkInv, FilesInv, TypeInv, TypeOK, Jobs
  <2>2. \A m \in Retries : queue[<<r, m>>] = 0
    BY <2>1 DEF Available
  <2> QED
    BY <2>1, <2>2 DEF Publish
<1> QED
  BY <1>1 DEF Available

\* A message of one job is none of another.
LEMMA OtherJob ==
  ASSUME TypeOK, NEW j \in Jobs, NEW n \in Retries, Publish(j, n)
  PROVE  \A x \in Jobs \ {j}, m \in Retries : queue'[<<x, m>>] = queue[<<x, m>>]
  BY DEF TypeOK, Publish

\* The handlers of uploads.
LEMMA UploadSole ==
  ASSUME SoleInv, WorkInv', NEW r \in Resumes,
         \/ StoreObject(r) \/ StoreFails(r) \/ ParseInline(r) \/ EnqueueParse(r)
         \/ CommitUpload(r) \/ LoseUpload(r) \/ BuildResume(r)
  PROVE  \A x \in Resumes : SoleOK(x)'
<1>1. /\ TypeOK /\ TypeOK' /\ r \in Jobs /\ 0 \in Retries /\ SoleOK(r) /\ FileOK(r)
  BY ConstantsAssumption DEF SoleInv, WorkInv, FilesInv, TypeInv, Jobs, Retries
<1>2. /\ UNCHANGED <<worker, redelivered>>
      /\ \A x \in Resumes \ {r} : /\ upload'[x] = upload[x]
                                  /\ status'[x] = status[x] /\ data'[x] = data[x]
  BY <1>1 DEF StoreObject, StoreFails, ParseInline, EnqueueParse, CommitUpload,
              LoseUpload, BuildResume, TypeOK, resumeVars, ghostVars
<1>3. UNCHANGED queue \/ Publish(r, 0)
  BY DEF StoreObject, StoreFails, ParseInline, EnqueueParse, CommitUpload, LoseUpload,
         BuildResume
<1>4. \A x \in Resumes, w \in Workers : Parsing(w, x)' <=> Parsing(w, x)
  BY <1>2 DEF Parsing
<1>5. queue' \in [Jobs \X Retries -> Nat]
  BY <1>1 DEF TypeOK
<1>6. ASSUME NEW x \in Resumes, x # r PROVE SoleOK(x)'
  <2>1. \A n \in Retries : queue'[<<x, n>>] = queue[<<x, n>>] /\ queue[<<x, n>>] \in Nat
    BY <1>1, <1>3, <1>6, OtherJob DEF TypeOK, Jobs
  <2>2. (~Row(x)' => data'[x] = None) /\ (Settled(x)' => Settled(x))
    BY <1>2, <1>6 DEF SoleInv, SoleOK, Row, Settled
  <2> QED
    BY <1>2, <1>4, <1>5, <2>1, <2>2, SoleKept
<1>7. ~Row(r)' => data'[r] = None
  BY <1>1 DEF StoreObject, StoreFails, ParseInline, EnqueueParse, CommitUpload, LoseUpload,
              BuildResume, TypeOK, resumeVars, SoleOK, Row
<1>8. ASSUME UNCHANGED queue PROVE SoleOK(r)'
  <2>1. Settled(r)' => Settled(r)
    <3>1. CASE CommitUpload(r) /\ upload[r] = "enqueued"
      BY <1>1, <3>1 DEF CommitUpload, TypeOK, Settled
    <3>2. CASE ~(CommitUpload(r) /\ upload[r] = "enqueued")
      BY <1>1, <3>2 DEF StoreObject, StoreFails, ParseInline, EnqueueParse, CommitUpload,
                        LoseUpload, BuildResume, TypeOK, resumeVars, Settled
    <3> QED
      BY <3>1, <3>2
  <2>2. \A n \in Retries : queue'[<<r, n>>] <= queue[<<r, n>>]
    BY <1>1, <1>8 DEF TypeOK
  <2> QED
    BY <1>2, <1>4, <1>5, <1>7, <2>1, <2>2, SoleKept
<1>9. ASSUME Publish(r, 0), r \notin redelivered PROVE SoleOK(r)'
  <2>1. queue' # queue
    <3>1. queue'[<<r, 0>>] = queue[<<r, 0>>] + 1 /\ queue[<<r, 0>>] \in Nat
      BY <1>1, <1>9 DEF TypeOK, Publish
    <3> QED
      BY <3>1
  <2>2. EnqueueParse(r) \/ (LoseUpload(r) /\ upload[r] = "parsed")
    BY <2>1 DEF StoreObject, StoreFails, ParseInline, EnqueueParse, CommitUpload,
                LoseUpload, BuildResume
  <2>3. Settled(r) /\ ~Row(r)
    BY <1>1, <2>2 DEF EnqueueParse, LoseUpload, Settled, FileOK
  <2>4. Unparsed(r) /\ data[r] = None
    BY <1>1, <1>9, <2>3 DEF SoleOK
  <2>5. ~Settled(r)'
    BY <1>1, <2>2, <2>4 DEF EnqueueParse, LoseUpload, Settled, resumeVars, TypeOK
  <2> QED
    BY <1>1, <1>4, <1>7, <1>9, <2>4, <2>5, SolePublished DEF Unparsed
<1>10. ASSUME r \in redelivered PROVE SoleOK(r)'
  BY <1>2, <1>5, <1>7, <1>10, SoleKept
<1> QED
  BY <1>3, <1>6, <1>8, <1>9, <1>10

\* The handlers of deletions and of exports: no message of a resume moves.
LEMMA RequestSole ==
  ASSUME SoleInv, WorkInv',
         \/ \E r \in Resumes : \/ DeleteObject(r) \/ DeleteObjectFails(r)
                               \/ CommitDelete(r) \/ LoseDelete(r)
         \/ DeleteAccount
         \/ \E e \in Exports : \/ \E r \in Resumes : MissCache(e, r)
                               \/ InsertExport(e) \/ DispatchExport(e)
  PROVE  \A x \in Resumes : SoleOK(x)'
<1>1. TypeOK /\ TypeOK'
  BY DEF SoleInv, WorkInv, FilesInv, TypeInv
<1>2. UNCHANGED <<worker, redelivered, upload>>
  BY DEF DeleteObject, DeleteObjectFails, CommitDelete, LoseDelete, DeleteAccount,
         MissCache,
         InsertExport, DispatchExport, ghostVars
<1>3. UNCHANGED queue \/ \E e \in Exports : Publish(e, 0)
  BY DEF DeleteObject, DeleteObjectFails, CommitDelete, LoseDelete, DeleteAccount,
         MissCache,
         InsertExport, DispatchExport
<1>4. \A x \in Resumes : \/ status'[x] = status[x] /\ data'[x] = data[x]
                         \/ data'[x] = None
  BY <1>1 DEF DeleteObject, DeleteObjectFails, CommitDelete, LoseDelete, DeleteAccount,
         MissCache,
              InsertExport, DispatchExport, resumeVars, TypeOK
<1>5. ASSUME NEW x \in Resumes PROVE SoleOK(x)'
  <2>1. \A n \in Retries : queue'[<<x, n>>] = queue[<<x, n>>] /\ queue[<<x, n>>] \in Nat
    <3>1. x \notin Exports /\ x \in Jobs /\ Exports \subseteq Jobs /\ 0 \in Retries
      BY ConstantsAssumption DEF Jobs, Retries
    <3> QED
      BY <1>1, <1>3, <3>1, OtherJob DEF TypeOK
  <2>2. (~Row(x)' => data'[x] = None) /\ (Settled(x)' => Settled(x))
    BY <1>2, <1>4 DEF SoleInv, SoleOK, Row, Settled
  <2>3. \A w \in Workers : Parsing(w, x)' <=> Parsing(w, x)
    BY <1>2 DEF Parsing
  <2>4. queue' \in [Jobs \X Retries -> Nat]
    BY <1>1 DEF TypeOK
  <2> QED
    BY <1>2, <2>1, <2>2, <2>3, <2>4, SoleKept
<1> QED
  BY <1>5

\* Taking a message moves it from the queue to a worker.
LEMMA TakeSole ==
  ASSUME SoleInv, WorkInv', NEW w \in Workers, NEW j \in Jobs, NEW n \in Retries,
         Take(w, j, n)
  PROVE  \A x \in Resumes : SoleOK(x)'
<1>1. TypeOK /\ TypeOK'
  BY DEF SoleInv, WorkInv, FilesInv, TypeInv
<1>2. /\ UNCHANGED <<redelivered, upload, status, data>>
      /\ worker[w].pc = "idle" /\ queue[<<j, n>>] > 0
      /\ \A v \in Workers \ {w} : worker'[v] = worker[v]
  BY <1>1 DEF Take, At, Available, ghostVars, resumeVars, TypeOK
<1>3. \A x \in Jobs, m \in Retries :
          /\ queue[<<x, m>>] \in Nat
          /\ queue'[<<x, m>>] = IF x = j /\ m = n THEN queue[<<x, m>>] - 1
                                ELSE queue[<<x, m>>]
  BY <1>1 DEF Take, TypeOK
<1>4. worker'[w].job = j /\ worker'[w].pc = "taken"
  BY <1>1 DEF Take, TypeOK, Idle
<1>5. \A x \in Resumes, v \in Workers \ {w} : Parsing(v, x)' <=> Parsing(v, x)
  BY <1>2 DEF Parsing
<1>6. \A x \in Resumes : (~Row(x)' => data'[x] = None) /\ (Settled(x)' <=> Settled(x))
  BY <1>2 DEF SoleInv, SoleOK, Row, Settled
<1>7. ASSUME NEW x \in Resumes, x # j PROVE SoleOK(x)'
  <2>1. ~Parsing(w, x)'
    BY <1>4, <1>7 DEF Parsing
  <2>2. \A m \in Retries : queue'[<<x, m>>] <= queue[<<x, m>>]
    BY <1>3, <1>7 DEF Jobs
  <2>3. queue' \in [Jobs \X Retries -> Nat]
    BY <1>1 DEF TypeOK
  <2> QED
    BY <1>2, <1>5, <1>6, <2>1, <2>2, <2>3, SoleKept
<1>8. ASSUME NEW x \in Resumes, x = j, x \notin redelivered PROVE SoleOK(x)'
  <2>1. SoleOK(x) /\ Available(x, n) /\ x \in Jobs
    BY <1>2, <1>8 DEF SoleInv, Available, Jobs
  <2>2. ~Settled(x)
    BY <1>8, <2>1 DEF SoleOK, Unparsed
  <2>3. \A m \in Retries : ~Available(x, m)' /\ queue'[<<x, m>>] <= 1
    <3>1. ASSUME NEW m \in Retries, m # n PROVE ~Available(x, m)
      BY <1>8, <2>1, <3>1 DEF SoleOK
    <3>2. queue[<<x, n>>] <= 1
      BY <1>8, <2>1 DEF SoleOK
    <3> QED
      BY <1>3, <1>8, <2>1, <3>1, <3>2 DEF Available
  <2>4. \A v \in Workers \ {w} : ~Parsing(v, x)'
    BY <1>5, <1>8, <2>1 DEF SoleOK
  <2>5. ~Settled(x)' /\ (~Row(x)' => data'[x] = None)
    BY <1>6, <2>2
  <2>6. \A v, u \in Workers : Parsing(v, x)' /\ Parsing(u, x)' => v = u
    BY <2>4
  <2> QED
    BY <2>3, <2>5, <2>6 DEF SoleOK
<1>9. ASSUME NEW x \in Resumes, x \in redelivered PROVE SoleOK(x)'
  BY <1>2, <1>6, <1>9 DEF SoleOK
<1> QED
  BY <1>7, <1>8, <1>9

\* A step of a worker that goes on with its own message, and publishes none.
LEMMA WorkerSole ==
  ASSUME SoleInv, WorkInv', NEW w \in Workers,
         \/ LoadResume(w) \/ MarkProcessing(w) \/ ParseFile(w)
         \/ CommitParsed(w) \/ CommitFailed(w)
         \/ LoadExport(w) \/ RenderPdf(w) \/ CommitExport(w)
         \/ DatabaseFails(w) \/ Acknowledge(w)
  PROVE  \A x \in Resumes : SoleOK(x)'
<1>1. /\ TypeOK /\ TypeOK' /\ worker \in [Workers -> WorkerState] /\ WorkerOK(w)
      /\ worker[w].pc # "idle"
  BY DEF SoleInv, WorkInv, FilesInv, TypeInv, TypeOK, LoadResume, MarkProcessing,
         ParseFile, CommitParsed, CommitFailed, LoadExport, RenderPdf, CommitExport,
         DatabaseFails, Acknowledge, At
<1>2. /\ UNCHANGED <<redelivered, upload, queue>>
      /\ \A v \in Workers \ {w} : worker'[v] = worker[v]
  BY <1>1 DEF LoadResume, MarkProcessing, ParseFile, CommitParsed, CommitFailed,
              LoadExport, RenderPdf, CommitExport, DatabaseFails, Acknowledge, Release,
              Goto, ghostVars, TypeOK
<1>3. \A x \in Resumes : Parsing(w, x)' => Parsing(w, x)
  <2>1. CASE Acknowledge(w)
    BY <1>1, <2>1, IdleType DEF Acknowledge, Parsing
  <2>2. CASE ~Acknowledge(w)
    <3>1. worker[w].pc # "settled"
      BY <2>2 DEF LoadResume, MarkProcessing, ParseFile, CommitParsed, CommitFailed,
                  LoadExport, RenderPdf, CommitExport, DatabaseFails, At
    <3>2. worker'[w].job = worker[w].job
      <4>1. CASE LoadResume(w)
        <5>1. CASE Row(worker[w].job)
          BY <1>1, <4>1, <5>1 DEF LoadResume, WorkerState
        <5>2. CASE ~Row(worker[w].job)
          BY <1>1, <4>1, <5>2 DEF LoadResume, WorkerState
        <5> QED
          BY <5>1, <5>2
      <4>2. CASE LoadExport(w)
        <5>1. CASE ExportRow(worker[w].job) /\ data[source[worker[w].job]] # None
          BY <1>1, <4>2, <5>1 DEF LoadExport, WorkerState
        <5>2. CASE ~(ExportRow(worker[w].job) /\ data[source[worker[w].job]] # None)
          BY <1>1, <4>2, <5>2 DEF LoadExport, WorkerState
        <5> QED
          BY <5>1, <5>2
      <4>3. CASE MarkProcessing(w) \/ CommitParsed(w) \/ CommitFailed(w) \/ RenderPdf(w)
                 \/ CommitExport(w) \/ DatabaseFails(w)
        BY <1>1, <4>3 DEF MarkProcessing, CommitParsed, CommitFailed, RenderPdf,
                          CommitExport, DatabaseFails, Goto, WorkerState
      <4>4. CASE ParseFile(w)
        BY <1>1, <4>4 DEF ParseFile, Goto, WorkerState
      <4> QED
        BY <2>2, <4>1, <4>2, <4>3, <4>4
    <3> QED
      BY <1>1, <3>1, <3>2 DEF Parsing
  <2> QED
    BY <2>1, <2>2
<1>4. \A x \in Resumes, v \in Workers : Parsing(v, x)' => Parsing(v, x)
  BY <1>2, <1>3 DEF Parsing
<1>5. \A n \in Retries, x \in Resumes : queue'[<<x, n>>] <= queue[<<x, n>>]
  BY <1>1, <1>2 DEF TypeOK, Jobs
<1>6. queue' \in [Jobs \X Retries -> Nat]
  BY <1>1 DEF TypeOK
<1>7. ASSUME NEW x \in Resumes, ~(CommitParsed(w) /\ x = worker[w].job) PROVE SoleOK(x)'
  <2>1. data'[x] = data[x] /\ (Row(x)' <=> Row(x))
    <3>1. CASE LoadResume(w) \/ ParseFile(w) \/ LoadExport(w) \/ RenderPdf(w)
               \/ CommitExport(w) \/ DatabaseFails(w) \/ Acknowledge(w)
      BY <3>1 DEF LoadResume, ParseFile, LoadExport, RenderPdf, CommitExport,
                  DatabaseFails, Acknowledge, resumeVars, Row
    <3>2. CASE MarkProcessing(w)
      BY <1>1, <3>2 DEF MarkProcessing, TypeOK, Row
    <3>3. CASE CommitFailed(w)
      BY <1>1, <3>3 DEF CommitFailed, TypeOK, Row
    <3>4. CASE CommitParsed(w)
      BY <1>1, <1>7, <3>4 DEF CommitParsed, TypeOK, Row, resumeVars
    <3> QED
      BY <3>1, <3>2, <3>3, <3>4
  <2>2. (~Row(x)' => data'[x] = None) /\ (Settled(x)' => Settled(x))
    BY <1>2, <2>1 DEF SoleInv, SoleOK, Settled
  <2> QED
    BY <1>2, <1>4, <1>5, <1>6, <2>2, SoleKept
<1>8. ASSUME NEW x \in Resumes, CommitParsed(w), x = worker[w].job PROVE SoleOK(x)'
  <2>1. SoleOK(x)
    BY DEF SoleInv
  <2>2. ~Row(x)' => data'[x] = None
    BY <1>1, <1>8, <2>1 DEF CommitParsed, TypeOK, Row, resumeVars, SoleOK
  <2>3. CASE ~Row(x)
    <3>1. Settled(x)' => Settled(x)
      BY <1>2, <1>8, <2>3 DEF CommitParsed, Settled, resumeVars
    <3> QED
      BY <1>2, <1>4, <1>5, <1>6, <2>2, <3>1, SoleKept
  <2>4. CASE Row(x) /\ x \notin redelivered
    <3>1. Parsing(w, x)
      BY <1>1, <1>8 DEF CommitParsed, At, Parsing
    <3>2. worker'[w].pc = "settled"
      BY <1>1, <1>8, <2>4 DEF CommitParsed, Goto, WorkerState
    <3>3. Unparsed(x)'
      BY <1>2, <1>4, <2>1, <2>4, <3>1, <3>2 DEF SoleOK, Unparsed, Available, Parsing
    <3> QED
      BY <1>2, <1>4, <1>5, <1>6, <2>2, <3>3, SoleKept
  <2> QED
    BY <1>2, <2>2, <2>3, <2>4 DEF SoleOK
<1> QED
  BY <1>7, <1>8

\* A retry passes the message on; a death hands it to nobody or redelivers it.
LEMMA RetrySole ==
  ASSUME SoleInv, WorkInv', NEW w \in Workers,
         RetryOrGiveUp(w) \/ LoseWorker(w) \/ LoseProcess(w)
  PROVE  \A x \in Resumes : SoleOK(x)'
<1>1. PICK j \in Jobs, n \in Retries : worker[w].job = j /\ worker[w].n = n
  <2>1. worker[w].pc # "idle"
    BY DEF RetryOrGiveUp, LoseWorker, LoseProcess, Crash, At
  <2> QED
    BY <2>1, BusyType DEF SoleInv, WorkInv, FilesInv
<1>2. /\ TypeOK /\ TypeOK' /\ worker \in [Workers -> WorkerState]
      /\ worker[w].job = j /\ worker[w].n = n
  BY <1>1 DEF SoleInv, WorkInv, FilesInv, TypeInv, TypeOK
<1>3. /\ UNCHANGED <<upload, status, data>> /\ redelivered \subseteq redelivered'
      /\ \A v \in Workers \ {w} : worker'[v] = worker[v]
      /\ worker'[w].pc \in {"idle", "settled"}
  BY <1>2, IdleType DEF RetryOrGiveUp, LoseWorker, LoseProcess, Redeliver, Crash, Goto,
                        TypeOK, WorkerState, resumeVars
<1>4. \A x \in Resumes, v \in Workers : Parsing(v, x)' => v # w /\ Parsing(v, x)
  BY <1>3 DEF Parsing
<1>5. \A x \in Resumes : (~Row(x)' => data'[x] = None) /\ (Settled(x)' <=> Settled(x))
  BY <1>3 DEF SoleInv, SoleOK, Row, Settled
<1>6. \/ UNCHANGED queue
      \/ Publish(j, n) /\ j \in redelivered'
      \/ RetryOrGiveUp(w) /\ n < MaxRetries(j) /\ Publish(j, n + 1)
  BY <1>2 DEF RetryOrGiveUp, LoseWorker, LoseProcess, Redeliver
<1>7. \A m \in Retries, x \in Jobs \ {j} : queue'[<<x, m>>] = queue[<<x, m>>]
  BY <1>2, <1>6, RetryFits, OtherJob
<1>8. queue' \in [Jobs \X Retries -> Nat] /\ queue \in [Jobs \X Retries -> Nat]
  BY <1>2 DEF TypeOK
<1>9. ASSUME NEW x \in Resumes, x # j \/ UNCHANGED queue PROVE SoleOK(x)'
  <2>1. \A m \in Retries : queue'[<<x, m>>] <= queue[<<x, m>>]
    BY <1>7, <1>8, <1>9 DEF Jobs
  <2> QED
    BY <1>3, <1>4, <1>5, <1>8, <2>1, SoleKept
<1>10. ASSUME NEW x \in Resumes, x = j, x \in redelivered' PROVE SoleOK(x)'
  BY <1>5, <1>10 DEF SoleOK
<1>11. ASSUME NEW x \in Resumes, x = j, x \notin redelivered', RetryOrGiveUp(w),
              n < MaxRetries(j), Publish(j, n + 1)
       PROVE  SoleOK(x)'
  <2>1. SoleOK(x) /\ Parsing(w, x) /\ x \notin redelivered
    BY <1>2, <1>3, <1>11 DEF SoleInv, RetryOrGiveUp, At, Parsing
  <2>2. /\ ~Settled(x)
        /\ \A m \in Retries : ~Available(x, m)
        /\ \A v \in Workers : ~Parsing(v, x)'
    BY <1>4, <2>1 DEF SoleOK, Unparsed
  <2> QED
    BY <1>2, <1>5, <1>11, <2>2, RetryFits, SolePublished
<1> QED
  BY <1>6, <1>9, <1>10, <1>11

LEMMA InitSole == Init => SoleInv
<1> SUFFICES ASSUME Init PROVE SoleInv
  OBVIOUS
<1>1. ASSUME NEW r \in Resumes PROVE SoleOK(r)
  <2>1. \A n \in Retries : queue[<<r, n>>] = 0
    BY DEF Init, Jobs
  <2>2. \A w \in Workers : ~Parsing(w, r)
    BY IdleType DEF Init, Parsing
  <2>3. data[r] = None
    BY DEF Init
  <2> QED
    BY <2>1, <2>2, <2>3 DEF SoleOK, Unparsed, Available
<1> QED
  BY <1>1, InitWork DEF SoleInv

LEMMA NextSole == SoleInv /\ [Next]_vars => SoleInv'
<1> SUFFICES ASSUME SoleInv, [Next]_vars PROVE SoleInv'
  OBVIOUS
<1>1. WorkInv'
  BY NextWork DEF SoleInv
<1> DEFINE Rest == \A x \in Resumes : SoleOK(x)
<1>2. ASSUME NEW r \in Resumes,
             \/ StoreObject(r) \/ StoreFails(r) \/ ParseInline(r) \/ EnqueueParse(r)
             \/ CommitUpload(r) \/ LoseUpload(r) \/ BuildResume(r)
      PROVE  Rest'
  BY <1>1, <1>2, UploadSole
<1>3. ASSUME \/ \E r \in Resumes : \/ DeleteObject(r) \/ DeleteObjectFails(r)
                                   \/ CommitDelete(r) \/ LoseDelete(r)
             \/ DeleteAccount
             \/ \E e \in Exports : \/ \E r \in Resumes : MissCache(e, r)
                                   \/ InsertExport(e) \/ DispatchExport(e)
      PROVE  Rest'
  BY <1>1, <1>3, RequestSole
<1>4. ASSUME NEW w \in Workers, NEW j \in Jobs, NEW n \in Retries, Take(w, j, n)
      PROVE  Rest'
  BY <1>1, <1>4, TakeSole
<1>5. ASSUME NEW w \in Workers,
             \/ LoadResume(w) \/ MarkProcessing(w) \/ ParseFile(w)
             \/ CommitParsed(w) \/ CommitFailed(w)
             \/ LoadExport(w) \/ RenderPdf(w) \/ CommitExport(w)
             \/ DatabaseFails(w) \/ Acknowledge(w)
      PROVE  Rest'
  BY <1>1, <1>5, WorkerSole
<1>6. ASSUME NEW w \in Workers, RetryOrGiveUp(w) \/ LoseWorker(w) \/ LoseProcess(w)
      PROVE  Rest'
  BY <1>1, <1>6, RetrySole
<1>7. ASSUME UNCHANGED vars PROVE Rest'
  BY <1>7 DEF vars, SoleInv, SoleOK, Row, Settled, Unparsed, Available, Parsing
<1> HIDE DEF Rest
<1>8. Rest'
  BY <1>2, <1>3, <1>4, <1>5, <1>6, <1>7 DEF Next
<1> QED
  BY <1>1, <1>8 DEF SoleInv, Rest

THEOREM ParsedOnce == Spec => []SoleInv
  BY InitSole, NextSole, PTL DEF Spec

\* A closed account has no row, whatever requests and tasks were under way.
THEOREM NothingComesBack == Spec => []NothingOutlivesTheAccount
<1>1. SoleInv => NothingOutlivesTheAccount
  <2> SUFFICES ASSUME SoleInv, account = "closed"
               PROVE  /\ \A r \in Resumes : ~Row(r) /\ data[r] = None
                      /\ \A e \in Exports : ~ExportRow(e)
    BY DEF NothingOutlivesTheAccount
  <2>1. \A r \in Resumes : ~Row(r) /\ data[r] = None
    BY DEF SoleInv, SoleOK, WorkInv, FilesInv, FileOK
  <2>2. \A e \in Exports : ExportRow(e) => source[e] \in Resumes /\ Row(source[e])
    BY DEF SoleInv, WorkInv, ExportData, ExportRow, FilesInv, TypeInv, ExportOK
  <2> QED
    BY <2>1, <2>2
<1> QED
  BY <1>1, ParsedOnce, PTL

\* Rows and files are left behind by each other only as the parts name it: a deletion
\* that got no further than the file, an upload that did not complete, the deletion of
\* the account, after which no row is left.
THEOREM RowsFollowFiles == Spec => []RowsAndFilesAgree
<1>1. RowsHaveFiles /\ OrphansAreLostUploads /\ NothingOutlivesTheAccount
      => RowsAndFilesAgree
  BY DEF RowsAndFilesAgree
<1> QED
  BY <1>1, FilesBehindRows, DeletionsAreThorough, NothingComesBack, PTL

\* Once parsed, a resume keeps its data and stays "done" until it is deleted,
\* unless a death had its task run again.
THEOREM ParsedStays == Spec => ParsedIsFinal
<1> DEFINE Final == \A r \in Resumes \ redelivered : data[r] # None =>
                       \/ status'[r] = "absent"
                       \/ status'[r] = status[r] /\ data'[r] = data[r]
<1>1. SoleInv /\ [Next]_vars => [Final]_vars
  <2> SUFFICES ASSUME SoleInv, Next, NEW r \in Resumes \ redelivered, data[r] # None
               PROVE  \/ status'[r] = "absent"
                      \/ status'[r] = status[r] /\ data'[r] = data[r]
    BY DEF vars
  <2>1. /\ TypeOK /\ Settled(r) /\ Unparsed(r) /\ Row(r)
        /\ upload[r] \in {"committed", "built"}
    BY DEF SoleInv, SoleOK, WorkInv, FilesInv, FileOK, TypeInv, Settled
  <2>2. ASSUME NEW x \in Resumes,
               \/ StoreObject(x) \/ StoreFails(x) \/ ParseInline(x) \/ EnqueueParse(x)
               \/ CommitUpload(x) \/ LoseUpload(x) \/ BuildResume(x)
        PROVE  status'[r] = status[r] /\ data'[r] = data[r]
    BY <2>1, <2>2 DEF StoreObject, StoreFails, ParseInline, EnqueueParse, CommitUpload,
                      LoseUpload, BuildResume, resumeVars, TypeOK
  <2>3. ASSUME NEW x \in Resumes,
               \/ DeleteObject(x) \/ DeleteObjectFails(x) \/ CommitDelete(x)
               \/ LoseDelete(x)
        PROVE  \/ status'[r] = "absent"
               \/ status'[r] = status[r] /\ data'[r] = data[r]
    BY <2>1, <2>3 DEF DeleteObject, DeleteObjectFails, CommitDelete, LoseDelete,
                      resumeVars, TypeOK
  <2>7. ASSUME DeleteAccount PROVE status'[r] = "absent"
    BY <2>7 DEF DeleteAccount
  <2>4. ASSUME \/ \E e \in Exports : \/ \E x \in Resumes : MissCache(e, x)
                                     \/ InsertExport(e) \/ DispatchExport(e)
               \/ \E w \in Workers, j \in Jobs, n \in Retries : Take(w, j, n)
        PROVE  status'[r] = status[r] /\ data'[r] = data[r]
    BY <2>4 DEF MissCache, InsertExport, DispatchExport, Take, resumeVars
  <2>5. ASSUME NEW w \in Workers, MarkProcessing(w) \/ CommitParsed(w) \/ CommitFailed(w)
        PROVE  status'[r] = status[r] /\ data'[r] = data[r]
    <3>1. worker[w].job # r
      BY <2>1, <2>5 DEF MarkProcessing, CommitParsed, CommitFailed, At, Unparsed, Parsing
    <3> QED
      BY <2>1, <2>5, <3>1 DEF MarkProcessing, CommitParsed, CommitFailed, resumeVars,
                              TypeOK
  <2>6. ASSUME NEW w \in Workers,
               \/ LoadResume(w) \/ ParseFile(w)
               \/ LoadExport(w) \/ RenderPdf(w) \/ CommitExport(w)
               \/ DatabaseFails(w) \/ RetryOrGiveUp(w) \/ Acknowledge(w)
               \/ LoseWorker(w) \/ LoseProcess(w)
        PROVE  status'[r] = status[r] /\ data'[r] = data[r]
    BY <2>6 DEF LoadResume, ParseFile, LoadExport, RenderPdf, CommitExport,
                DatabaseFails, RetryOrGiveUp, Acknowledge, LoseWorker, LoseProcess,
                Crash, resumeVars
  <2> QED
    BY <2>2, <2>3, <2>4, <2>5, <2>6, <2>7 DEF Next
<1>2. ParsedIsFinal <=> [][Final]_vars
  BY DEF ParsedIsFinal
<1> QED
  BY <1>1, <1>2, ParsedOnce, PTL DEF Spec

-----------------------------------------------------------------------------
(* A PDF shows what its key says                                           *)

\* An export keeps the hash of its request: its resume has content of that hash,
\* or has lost its row and will have no other.
HashOK(e) ==
    export[e] # "unused" =>
        /\ hash[e] \in Hashes
        /\ Row(source[e]) => data[source[e]] # None
        /\ data[source[e]] # None => HashOf[data[source[e]]] = hash[e]

\* A worker renders content of that hash.
RenderOK(w) ==
    worker[w].pc = "rendering" => /\ worker[w].content \in Contents
                                  /\ HashOf[worker[w].content] = hash[worker[w].job]

\* Nobody works on an export that was not asked for.
Asked(e) ==
    export[e] = "unused" =>
        /\ e \notin undispatched
        /\ \A n \in Retries : ~Available(e, n)
        /\ \A w \in Workers : worker[w].job = e => worker[w].pc = "idle"

HashesOK == /\ \A e \in Exports : HashOK(e)
            /\ \A w \in Workers : RenderOK(w)
            /\ \A h \in Hashes : pdf[h] # None => HashOf[pdf[h]] = h

HashInv == /\ SoleInv
           /\ \A e \in Exports : Asked(e)
           /\ redelivered \cap Resumes = {} => HashesOK

LEMMA HashTypes ==
  ASSUME HashInv
  PROVE  /\ TypeOK /\ worker \in [Workers -> WorkerState]
         /\ \A w \in Workers : WorkerOK(w)
         /\ \A e \in Exports : ExportOK(e)
         /\ \A r \in Resumes : SoleOK(r) /\ FileOK(r)
  BY DEF HashInv, SoleInv, WorkInv, FilesInv, TypeInv, TypeOK

\* The requests work on what was asked for.
LEMMA RequestAsked ==
  ASSUME HashInv,
         \/ \E r \in Resumes :
              \/ StoreObject(r) \/ StoreFails(r) \/ ParseInline(r) \/ EnqueueParse(r)
              \/ CommitUpload(r) \/ LoseUpload(r) \/ BuildResume(r)
              \/ DeleteObject(r) \/ DeleteObjectFails(r) \/ CommitDelete(r)
              \/ LoseDelete(r)
         \/ DeleteAccount
         \/ \E e \in Exports : \/ \E r \in Resumes : MissCache(e, r)
                               \/ InsertExport(e) \/ DispatchExport(e)
  PROVE  \A e \in Exports : Asked(e)'
<1>1. /\ TypeOK /\ Resumes \subseteq Jobs \ Exports /\ Exports \subseteq Jobs
      /\ 0 \in Retries
  BY HashTypes, ConstantsAssumption DEF Jobs, Retries
<1>2. UNCHANGED worker
  BY DEF StoreObject, StoreFails, ParseInline, EnqueueParse, CommitUpload, LoseUpload,
         BuildResume, DeleteObject, DeleteObjectFails, CommitDelete, LoseDelete,
         DeleteAccount, MissCache, InsertExport, DispatchExport
<1>3. ASSUME NEW e \in Exports, export'[e] = "unused"
      PROVE  export[e] = "unused" /\ e \notin undispatched'
  <2>1. CASE \E r \in Resumes :
                \/ StoreObject(r) \/ StoreFails(r) \/ ParseInline(r) \/ EnqueueParse(r)
                \/ CommitUpload(r) \/ LoseUpload(r) \/ BuildResume(r)
                \/ DeleteObject(r) \/ DeleteObjectFails(r) \/ LoseDelete(r)
    BY <1>3, <2>1 DEF StoreObject, StoreFails, ParseInline, EnqueueParse, CommitUpload,
              LoseUpload, BuildResume, DeleteObject, DeleteObjectFails, LoseDelete,
              exportVars, HashInv, Asked
  <2>2. CASE DeleteAccount \/ \E r \in Resumes : CommitDelete(r)
    BY <1>3, <2>2 DEF DeleteAccount, CommitDelete, ExportRow, HashInv, Asked
  <2>3. CASE \E x \in Exports : \/ \E r \in Resumes : MissCache(x, r)
                                \/ InsertExport(x) \/ DispatchExport(x)
    BY <1>1, <1>3, <2>3 DEF MissCache, InsertExport, DispatchExport, TypeOK, HashInv,
                            Asked
  <2> QED
    BY <2>1, <2>2, <2>3
<1>4. \/ UNCHANGED queue
      \/ \E x \in Jobs : Publish(x, 0) /\ (x \in Resumes \/ x \in undispatched)
  BY <1>1 DEF StoreObject, StoreFails, ParseInline, EnqueueParse, CommitUpload, LoseUpload,
         BuildResume, DeleteObject, DeleteObjectFails, CommitDelete, LoseDelete,
         DeleteAccount, MissCache, InsertExport, DispatchExport
<1>5. ASSUME NEW e \in Exports, export'[e] = "unused", NEW n \in Retries
      PROVE  ~Available(e, n)'
  <2>1. ~Available(e, n) /\ e \notin undispatched
    BY <1>3, <1>5 DEF HashInv, Asked
  <2>2. queue'[<<e, n>>] = queue[<<e, n>>]
    BY <1>1, <1>4, <2>1, OtherJob
  <2> QED
    BY <2>1, <2>2 DEF Available
<1> QED
  BY <1>2, <1>3, <1>5 DEF Asked, HashInv

\* So do the workers: each of its steps is about a job it has.
LEMMA WorkerAsked ==
  ASSUME HashInv, SoleInv', NEW w \in Workers,
         \/ \E j \in Jobs, n \in Retries : Take(w, j, n)
         \/ LoadResume(w) \/ MarkProcessing(w) \/ ParseFile(w)
         \/ CommitParsed(w) \/ CommitFailed(w)
         \/ LoadExport(w) \/ RenderPdf(w) \/ CommitExport(w)
         \/ DatabaseFails(w) \/ RetryOrGiveUp(w) \/ Acknowledge(w)
         \/ LoseWorker(w) \/ LoseProcess(w)
  PROVE  \A e \in Exports : Asked(e)'
<1> DEFINE Running == \/ LoadResume(w) \/ MarkProcessing(w) \/ ParseFile(w)
                      \/ CommitParsed(w) \/ CommitFailed(w)
                      \/ LoadExport(w) \/ RenderPdf(w) \/ CommitExport(w)
                      \/ DatabaseFails(w) \/ RetryOrGiveUp(w) \/ Acknowledge(w)
                      \/ LoseWorker(w) \/ LoseProcess(w)
<1>1. TypeOK /\ worker \in [Workers -> WorkerState] /\ WorkerOK(w)
  BY HashTypes
<1>2. UNCHANGED undispatched /\ \A v \in Workers \ {w} : worker'[v] = worker[v]
  BY <1>1 DEF Take, LoadResume, MarkProcessing, ParseFile, CommitParsed, CommitFailed,
              LoadExport, RenderPdf, CommitExport, DatabaseFails, RetryOrGiveUp,
              Acknowledge, LoseWorker, LoseProcess, Crash, Goto, exportVars
<1>3. \A e \in Exports : export'[e] = "unused" => export[e] = "unused"
  <2>1. CASE CommitExport(w)
    BY <1>1, <2>1 DEF CommitExport, TypeOK
  <2>2. CASE ~CommitExport(w)
    BY <2>2 DEF Take, LoadResume, MarkProcessing, ParseFile, CommitParsed, CommitFailed,
                LoadExport, RenderPdf, DatabaseFails, RetryOrGiveUp, Acknowledge,
                LoseWorker, LoseProcess, Crash, exportVars
  <2> QED
    BY <2>1, <2>2
<1>4. CASE \E j \in Jobs, n \in Retries : Take(w, j, n)
  <2>1. PICK j \in Jobs, n \in Retries : Take(w, j, n)
    BY <1>4
  <2>2. /\ worker'[w].job = j /\ Available(j, n)
        /\ \A x \in Jobs, m \in Retries : Available(x, m)' => Available(x, m)
    <3>1. worker'[w].job = j /\ Available(j, n)
      BY <1>1, <2>1 DEF Take, Idle
    <3>2. queue' = [queue EXCEPT ![<<j, n>>] = queue[<<j, n>>] - 1]
      BY <2>1 DEF Take
    <3>3. \A x \in Jobs, m \in Retries :
              /\ queue[<<x, m>>] \in Nat
              /\ queue'[<<x, m>>] = IF x = j /\ m = n THEN queue[<<x, m>>] - 1
                                    ELSE queue[<<x, m>>]
      BY <1>1, <3>2 DEF TypeOK
    <3> QED
      BY <3>1, <3>3 DEF Available
  <2> QED
    BY <1>2, <1>3, <2>2 DEF HashInv, Asked, Jobs
<1>5. CASE Running
  <2>1. worker[w].pc # "idle"
    BY <1>5 DEF LoadResume, MarkProcessing, ParseFile, CommitParsed, CommitFailed,
                LoadExport, RenderPdf, CommitExport, DatabaseFails, RetryOrGiveUp,
                Acknowledge, LoseWorker, LoseProcess, Crash, At
  <2>2. PICK j \in Jobs, n \in Retries : worker[w].job = j /\ worker[w].n = n
    BY <1>1, <2>1 DEF WorkerOK, WorkerState
  <2>3. j \in Exports => export[j] # "unused"
    BY <2>1, <2>2 DEF HashInv, Asked
  <2>4. worker'[w].job = j \/ worker'[w].pc = "idle"
    <3>1. CASE LoadResume(w)
      <4>1. CASE Row(worker[w].job)
        BY <1>1, <2>2, <3>1, <4>1 DEF LoadResume, WorkerState
      <4>2. CASE ~Row(worker[w].job)
        BY <1>1, <2>2, <3>1, <4>2 DEF LoadResume, WorkerState
      <4> QED
        BY <4>1, <4>2
    <3>2. CASE LoadExport(w)
      <4>1. CASE ExportRow(worker[w].job) /\ data[source[worker[w].job]] # None
        BY <1>1, <2>2, <3>2, <4>1 DEF LoadExport, WorkerState
      <4>2. CASE ~(ExportRow(worker[w].job) /\ data[source[worker[w].job]] # None)
        BY <1>1, <2>2, <3>2, <4>2 DEF LoadExport, WorkerState
      <4> QED
        BY <4>1, <4>2
    <3>3. CASE Acknowledge(w) \/ LoseWorker(w) \/ LoseProcess(w)
      BY <1>1, <3>3, IdleType DEF Acknowledge, LoseWorker, LoseProcess, Crash
    <3>4. CASE ParseFile(w)
      BY <1>1, <2>2, <3>4 DEF ParseFile, Goto, WorkerState
    <3>5. CASE \/ MarkProcessing(w) \/ CommitParsed(w) \/ CommitFailed(w) \/ RenderPdf(w)
               \/ CommitExport(w) \/ DatabaseFails(w) \/ RetryOrGiveUp(w)
      BY <1>1, <2>2, <3>5 DEF MarkProcessing, CommitParsed, CommitFailed, RenderPdf,
                              CommitExport, DatabaseFails, RetryOrGiveUp, Goto, WorkerState
    <3> QED
      BY <1>5, <3>1, <3>2, <3>3, <3>4, <3>5
  <2>5. UNCHANGED queue \/ \E m \in Retries : Publish(j, m)
    BY <1>5, <2>2, RetryFits DEF LoadResume, MarkProcessing, ParseFile, CommitParsed,
            CommitFailed, LoadExport, RenderPdf, CommitExport, DatabaseFails,
            RetryOrGiveUp, Acknowledge, Release, LoseWorker, LoseProcess, Redeliver
  <2>6. \A x \in Jobs \ {j}, m \in Retries : queue'[<<x, m>>] = queue[<<x, m>>]
    BY <1>1, <2>5, OtherJob
  <2> QED
    BY <1>2, <1>3, <2>3, <2>4, <2>6 DEF HashInv, Asked, Available, Jobs
<1> QED
  BY <1>4, <1>5

\* A step that neither asks for an export nor gives a resume other content.
LEMMA HashesKept ==
  ASSUME HashInv, HashesOK, UNCHANGED <<source, hash, pdf>>,
         \A e \in Exports : export'[e] # "unused" => export[e] # "unused",
         \A r \in Resumes : upload[r] \in {"committed", "built"} =>
             \/ data'[r] = data[r] /\ (Row(r)' => Row(r))
             \/ data'[r] = None /\ ~Row(r)',
         \A w \in Workers : worker'[w].pc = "rendering" => worker'[w] = worker[w]
  PROVE  HashesOK'
<1>1. ASSUME NEW e \in Exports PROVE HashOK(e)'
  <2>1. CASE export'[e] # "unused"
    <3>1. HashOK(e) /\ export[e] # "unused"
      BY <2>1 DEF HashesOK
    <3>2. source[e] \in Resumes /\ upload[source[e]] \in {"committed", "built"}
      BY <3>1, HashTypes DEF ExportOK
    <3>3. PICK r \in Resumes : source[e] = r /\ source'[e] = r /\ hash'[e] = hash[e]
      BY <3>2
    <3> QED
      BY <3>1, <3>2, <3>3 DEF HashOK
  <2>2. CASE export'[e] = "unused"
    BY <2>2 DEF HashOK
  <2> QED
    BY <2>1, <2>2
<1>2. \A w \in Workers : RenderOK(w)'
  BY DEF HashesOK, RenderOK
<1>3. \A h \in Hashes : pdf'[h] # None => HashOf[pdf'[h]] = h
  BY DEF HashesOK
<1> QED
  BY <1>1, <1>2, <1>3 DEF HashesOK

\* The handlers of uploads and deletions, and the dispatch of exports.
LEMMA RequestHashes ==
  ASSUME HashInv, HashesOK,
         \/ \E r \in Resumes :
              \/ StoreObject(r) \/ StoreFails(r) \/ ParseInline(r) \/ EnqueueParse(r)
              \/ CommitUpload(r) \/ LoseUpload(r) \/ BuildResume(r)
              \/ DeleteObject(r) \/ DeleteObjectFails(r) \/ CommitDelete(r)
              \/ LoseDelete(r)
         \/ DeleteAccount
         \/ \E e \in Exports : InsertExport(e) \/ DispatchExport(e)
  PROVE  HashesOK'
<1>1. TypeOK
  BY HashTypes
<1>2. UNCHANGED <<worker, source, hash, pdf>>
  BY DEF StoreObject, StoreFails, ParseInline, EnqueueParse, CommitUpload, LoseUpload,
         BuildResume, DeleteObject, DeleteObjectFails, CommitDelete, LoseDelete,
         DeleteAccount, InsertExport, DispatchExport, exportVars
<1>3. \A e \in Exports : export'[e] # "unused" => export[e] # "unused"
  <2>1. CASE DeleteAccount \/ \E r \in Resumes : CommitDelete(r)
    BY <2>1 DEF DeleteAccount, CommitDelete, ExportRow
  <2>2. CASE \E x \in Exports : InsertExport(x) \/ DispatchExport(x)
    BY <1>1, <2>2 DEF InsertExport, DispatchExport, TypeOK
  <2>3. CASE UNCHANGED export
    BY <2>3
  <2> QED
    BY <2>1, <2>2, <2>3 DEF StoreObject, StoreFails, ParseInline, EnqueueParse,
            CommitUpload, LoseUpload, BuildResume, DeleteObject, DeleteObjectFails,
            LoseDelete, exportVars
<1>4. \A r \in Resumes : upload[r] \in {"committed", "built"} =>
          \/ data'[r] = data[r] /\ (Row(r)' => Row(r))
          \/ data'[r] = None /\ ~Row(r)'
  <2>1. ASSUME NEW x \in Resumes, CommitUpload(x) \/ BuildResume(x) PROVE <1>4
    BY <1>1, <2>1 DEF CommitUpload, BuildResume, TypeOK, Row
  <2>2. ASSUME NEW x \in Resumes, CommitDelete(x) PROVE <1>4
    BY <1>1, <2>2 DEF CommitDelete, TypeOK, Row
  <2>3. CASE UNCHANGED <<status, data>>
    BY <2>3 DEF Row
  <2>4. CASE DeleteAccount
    BY <2>4 DEF DeleteAccount, Row
  <2> QED
    BY <2>1, <2>2, <2>3, <2>4 DEF StoreObject, StoreFails, ParseInline, EnqueueParse,
            LoseUpload, DeleteObject, DeleteObjectFails, LoseDelete, InsertExport,
            DispatchExport, resumeVars
<1> QED
  BY <1>2, <1>3, <1>4, HashesKept

\* A request takes the hash of the content it finds.
LEMMA MissHashes ==
  ASSUME HashInv, HashesOK, NEW e \in Exports, NEW r \in Resumes, MissCache(e, r)
  PROVE  HashesOK'
<1>1. TypeOK
  BY HashTypes
<1>2. /\ UNCHANGED <<worker, pdf, status, data>>
      /\ hash' = [hash EXCEPT ![e] = HashOf[data[r]]]
      /\ source' = [source EXCEPT ![e] = r]
      /\ export' = [export EXCEPT ![e] = "missed"]
      /\ export[e] = "unused" /\ data[r] \in Contents
  BY <1>1 DEF MissCache, resumeVars, content_hash, TypeOK
<1>3. \A x \in Exports \ {e} : /\ export'[x] = export[x] /\ hash'[x] = hash[x]
                               /\ source'[x] = source[x]
  BY <1>1, <1>2 DEF TypeOK
<1>4. HashOK(e)'
  <2>1. hash'[e] = HashOf[data[r]] /\ source'[e] = r /\ HashOf[data[r]] \in Hashes
    BY <1>1, <1>2, ConstantsAssumption DEF TypeOK
  <2> QED
    BY <1>2, <2>1, NoneIsNoJob DEF HashOK
<1>5. \A x \in Exports \ {e} : HashOK(x)'
  BY <1>2, <1>3 DEF HashesOK, HashOK, Row
<1>6. ASSUME NEW w \in Workers, worker[w].pc = "rendering" PROVE RenderOK(w)'
  <2>1. RenderOK(w) /\ worker[w].job \in Exports
    BY <1>6, HashTypes DEF HashesOK, WorkerOK, ExportPC
  <2>2. worker[w].job # e
    BY <1>2, <1>6 DEF HashInv, Asked
  <2>3. hash'[worker[w].job] = hash[worker[w].job]
    BY <1>3, <2>1, <2>2
  <2> QED
    BY <1>2, <2>1, <2>3 DEF RenderOK
<1>7. \A w \in Workers : RenderOK(w)'
  BY <1>2, <1>6 DEF RenderOK
<1> QED
  BY <1>2, <1>4, <1>5, <1>7 DEF HashesOK

\* The tasks: only the load of an export takes content up, only its rendering
\* shows it, and a parse gives content to a resume without exports.
LEMMA TaskHashes ==
  ASSUME HashInv, HashesOK, redelivered' \cap Resumes = {}, NEW w \in Workers,
         \/ \E j \in Jobs, n \in Retries : Take(w, j, n)
         \/ LoadResume(w) \/ MarkProcessing(w) \/ ParseFile(w)
         \/ CommitFailed(w) \/ CommitExport(w)
         \/ DatabaseFails(w) \/ RetryOrGiveUp(w) \/ Acknowledge(w)
         \/ LoseWorker(w) \/ LoseProcess(w)
  PROVE  HashesOK'
<1>1. TypeOK /\ worker \in [Workers -> WorkerState]
  BY HashTypes
<1>2. /\ UNCHANGED <<source, hash, pdf, data>>
      /\ \A v \in Workers \ {w} : worker'[v] = worker[v]
  BY <1>1 DEF Take, LoadResume, MarkProcessing, ParseFile, CommitFailed, CommitExport,
              DatabaseFails, RetryOrGiveUp, Acknowledge, LoseWorker, LoseProcess, Crash,
              Goto, exportVars, resumeVars
<1>3. \A e \in Exports : export'[e] # "unused" => export[e] # "unused"
  <2>1. CASE CommitExport(w)
    BY <1>1, <2>1 DEF CommitExport, ExportRow, TypeOK
  <2>2. CASE UNCHANGED export
    BY <2>2
  <2> QED
    BY <2>1, <2>2 DEF Take, LoadResume, MarkProcessing, ParseFile, CommitFailed,
              DatabaseFails, RetryOrGiveUp, Acknowledge, LoseWorker, LoseProcess, Crash,
              exportVars
<1>4. \A r \in Resumes : Row(r)' => Row(r)
  <2>1. CASE MarkProcessing(w)
    BY <1>1, <2>1 DEF MarkProcessing, TypeOK, Row
  <2>2. CASE CommitFailed(w)
    BY <1>1, <2>2 DEF CommitFailed, TypeOK, Row
  <2>3. CASE UNCHANGED status
    BY <2>3 DEF Row
  <2> QED
    BY <2>1, <2>2, <2>3 DEF Take, LoadResume, ParseFile, CommitExport, DatabaseFails,
            RetryOrGiveUp, Acknowledge, LoseWorker, LoseProcess, Crash, resumeVars
<1>5. worker'[w].pc # "rendering"
  <2>1. CASE \E j \in Jobs, n \in Retries : Take(w, j, n)
    BY <1>1, <2>1 DEF Take, Idle
  <2>2. CASE LoadResume(w)
    <3>1. CASE Row(worker[w].job)
      BY <1>1, <2>2, <3>1 DEF LoadResume, WorkerState
    <3>2. CASE ~Row(worker[w].job)
      BY <1>1, <2>2, <3>2 DEF LoadResume, WorkerState
    <3> QED
      BY <3>1, <3>2
  <2>3. CASE Acknowledge(w) \/ LoseWorker(w) \/ LoseProcess(w)
    BY <1>1, <2>3, IdleType DEF Acknowledge, LoseWorker, LoseProcess, Crash
  <2>4. CASE ParseFile(w)
    BY <1>1, <2>4 DEF ParseFile, Goto, WorkerState
  <2>5. CASE \/ MarkProcessing(w) \/ CommitFailed(w) \/ CommitExport(w)
             \/ DatabaseFails(w) \/ RetryOrGiveUp(w)
    BY <1>1, <2>5 DEF MarkProcessing, CommitFailed, CommitExport, DatabaseFails,
                      RetryOrGiveUp, Goto, WorkerState
  <2> QED
    BY <2>1, <2>2, <2>3, <2>4, <2>5
<1> QED
  BY <1>2, <1>3, <1>4, <1>5, HashesKept

LEMMA ParsedHashes ==
  ASSUME HashInv, HashesOK, redelivered \cap Resumes = {}, NEW w \in Workers,
         CommitParsed(w)
  PROVE  HashesOK'
<1>1. PICK r \in Resumes : worker[w].job = r
  BY HashTypes DEF CommitParsed, At, WorkerOK, ParsePC
<1>2. TypeOK /\ worker \in [Workers -> WorkerState] /\ SoleOK(r) /\ r \notin redelivered
  BY HashTypes
<1>3. /\ UNCHANGED <<source, hash, pdf, export>>
      /\ worker'[w].pc # "rendering" /\ \A v \in Workers \ {w} : worker'[v] = worker[v]
      /\ \A x \in Resumes \ {r} : status'[x] = status[x] /\ data'[x] = data[x]
      /\ Row(r)' <=> Row(r)
      /\ ~Row(r) => data'[r] = data[r]
  BY <1>1, <1>2 DEF CommitParsed, exportVars, resumeVars, Goto, WorkerState, TypeOK, Row
<1>4. data[r] = None
  <2>1. Parsing(w, r)
    BY <1>1 DEF CommitParsed, At, Parsing
  <2> QED
    BY <1>2, <2>1 DEF SoleOK, Settled, Unparsed
<1>5. ASSUME NEW e \in Exports, export[e] # "unused" PROVE HashOK(e)'
  <2>1. HashOK(e) /\ source[e] \in Resumes
    BY <1>5, HashTypes DEF HashesOK, ExportOK
  <2>2. CASE Row(r)
    <3>1. source[e] # r
      BY <1>4, <1>5, <2>1, <2>2 DEF HashOK
    <3> QED
      BY <1>3, <2>1, <3>1 DEF HashOK, Row
  <2>3. CASE ~Row(r)
    <3>1. PICK x \in Resumes : source[e] = x /\ source'[e] = x
      BY <1>3, <2>1
    <3>2. data'[x] = data[x] /\ (Row(x)' <=> Row(x))
      BY <1>3, <2>3 DEF Row
    <3> QED
      BY <1>3, <2>1, <3>1, <3>2 DEF HashOK
  <2> QED
    BY <2>2, <2>3
<1>6. \A e \in Exports : HashOK(e)'
  BY <1>3, <1>5 DEF HashOK
<1>7. \A v \in Workers : RenderOK(v)'
  BY <1>3 DEF HashesOK, RenderOK
<1> QED
  BY <1>3, <1>6, <1>7 DEF HashesOK

LEMMA RenderHashes ==
  ASSUME HashInv, HashesOK, NEW w \in Workers, LoadExport(w) \/ RenderPdf(w)
  PROVE  HashesOK'
<1>1. PICK e \in Exports : worker[w].job = e
  BY HashTypes DEF LoadExport, RenderPdf, At, WorkerOK, ExportPC
<1>2. /\ TypeOK /\ worker \in [Workers -> WorkerState] /\ ExportOK(e) /\ HashOK(e)
      /\ RenderOK(w) /\ Asked(e)
  BY HashTypes DEF HashesOK, HashInv
<1>3. /\ UNCHANGED <<source, hash, export, data, status>>
      /\ \A v \in Workers \ {w} : worker'[v] = worker[v]
  BY <1>2 DEF LoadExport, RenderPdf, exportVars, resumeVars, Goto, TypeOK
<1>4. export[e] # "unused" /\ hash[e] \in Hashes /\ source[e] \in Resumes
  BY <1>1, <1>2 DEF LoadExport, RenderPdf, At, Asked, HashOK, ExportOK
<1>5. \A x \in Exports : HashOK(x)'
  BY <1>3 DEF HashesOK, HashOK, Row
<1>6. \A v \in Workers \ {w} : RenderOK(v)'
  BY <1>3 DEF HashesOK, RenderOK
<1>7. CASE LoadExport(w)
  <2>1. UNCHANGED pdf
    BY <1>7 DEF LoadExport
  <2>2. CASE ExportRow(e) /\ data[source[e]] # None
    <3>1. worker'[w].content = data[source[e]] /\ worker'[w].job = e
      BY <1>1, <1>2, <1>7, <2>2 DEF LoadExport, WorkerState
    <3>2. data[source[e]] \in Contents
      BY <1>2, <1>4, <2>2 DEF TypeOK
    <3> QED
      BY <1>2, <1>3, <1>4, <1>5, <1>6, <2>1, <2>2, <3>1, <3>2
         DEF RenderOK, HashOK, HashesOK
  <2>3. CASE ~(ExportRow(e) /\ data[source[e]] # None)
    <3>1. worker'[w].pc # "rendering"
      BY <1>1, <1>2, <1>7, <2>3 DEF LoadExport, WorkerState
    <3> QED
      BY <1>5, <1>6, <2>1, <3>1 DEF RenderOK, HashesOK
  <2> QED
    BY <2>2, <2>3
<1>8. CASE RenderPdf(w)
  <2>1. worker'[w].pc # "rendering"
    BY <1>2, <1>8 DEF RenderPdf, Goto, OnRenderError, WorkerState
  <2>2. HashOf[worker[w].content] = hash[e]
    BY <1>1, <1>2, <1>8 DEF RenderPdf, At, RenderOK
  <2>3. \A h \in Hashes : pdf'[h] # None => HashOf[pdf'[h]] = h
    BY <1>1, <1>2, <1>4, <1>8, <2>2 DEF RenderPdf, HashesOK, TypeOK
  <2> QED
    BY <1>5, <1>6, <2>1, <2>3 DEF RenderOK, HashesOK
<1> QED
  BY <1>7, <1>8

LEMMA InitHash == Init => HashInv
<1> SUFFICES ASSUME Init PROVE HashInv
  OBVIOUS
<1>1. \A e \in Exports : Asked(e)
  BY IdleType DEF Init, Asked, Available, Jobs
<1>2. HashesOK
  BY IdleType DEF Init, HashesOK, HashOK, RenderOK
<1> QED
  BY <1>1, <1>2, InitSole DEF HashInv

LEMMA NextHash == HashInv /\ [Next]_vars => HashInv'
<1> SUFFICES ASSUME HashInv, [Next]_vars PROVE HashInv'
  OBVIOUS
<1>1. SoleInv'
  BY NextSole DEF HashInv
<1> DEFINE Request ==
             \/ \E r \in Resumes :
                  \/ StoreObject(r) \/ StoreFails(r) \/ ParseInline(r) \/ EnqueueParse(r)
                  \/ CommitUpload(r) \/ LoseUpload(r) \/ BuildResume(r)
                  \/ DeleteObject(r) \/ DeleteObjectFails(r) \/ CommitDelete(r)
                  \/ LoseDelete(r)
             \/ DeleteAccount
             \/ \E e \in Exports : \/ \E r \in Resumes : MissCache(e, r)
                                   \/ InsertExport(e) \/ DispatchExport(e)
           Work(w) ==
             \/ \E j \in Jobs, n \in Retries : Take(w, j, n)
             \/ LoadResume(w) \/ MarkProcessing(w) \/ ParseFile(w)
             \/ CommitParsed(w) \/ CommitFailed(w)
             \/ LoadExport(w) \/ RenderPdf(w) \/ CommitExport(w)
             \/ DatabaseFails(w) \/ RetryOrGiveUp(w) \/ Acknowledge(w)
             \/ LoseWorker(w) \/ LoseProcess(w)
<1>2. Request \/ (\E w \in Workers : Work(w)) \/ UNCHANGED vars
  BY DEF Next
<1>3. redelivered \subseteq redelivered'
  <2>1. ASSUME Request PROVE <1>3
    BY <2>1 DEF StoreObject, StoreFails, ParseInline, EnqueueParse, CommitUpload,
                LoseUpload, BuildResume, DeleteObject, DeleteObjectFails, CommitDelete,
                LoseDelete, DeleteAccount, MissCache, InsertExport, DispatchExport, ghostVars
  <2>2. ASSUME NEW w \in Workers, Work(w) PROVE <1>3
    BY <2>2 DEF Take, LoadResume, MarkProcessing, ParseFile, CommitParsed, CommitFailed,
                LoadExport, RenderPdf, CommitExport, DatabaseFails, RetryOrGiveUp,
                Acknowledge, LoseWorker, LoseProcess, Redeliver, ghostVars
  <2> QED
    BY <1>2, <2>1, <2>2 DEF vars
<1>4. \A e \in Exports : Asked(e)'
  <2>1. CASE UNCHANGED vars
    BY <2>1 DEF vars, HashInv, Asked, Available
  <2> QED
    BY <1>1, <1>2, <2>1, RequestAsked, WorkerAsked
<1>5. ASSUME redelivered' \cap Resumes = {} PROVE HashesOK'
  <2>1. HashesOK /\ redelivered \cap Resumes = {}
    BY <1>3, <1>5 DEF HashInv
  <2>2. CASE Request
    BY <2>1, <2>2, RequestHashes, MissHashes
  <2>3. ASSUME NEW w \in Workers, Work(w) PROVE HashesOK'
    BY <1>5, <2>1, <2>3, TaskHashes, ParsedHashes, RenderHashes
  <2>4. CASE UNCHANGED vars
    BY <2>1, <2>4 DEF vars, HashesOK, HashOK, RenderOK, Row
  <2> QED
    BY <1>2, <2>2, <2>3, <2>4
<1> QED
  BY <1>1, <1>4, <1>5 DEF HashInv

\* A PDF shows content of the hash it is stored under, unless a death had some
\* resume parsed again: every interleaving of requests, parses and renderings.
THEOREM PdfsMatch == Spec => []PdfMatchesItsHash
<1>1. HashInv => PdfMatchesItsHash
  BY DEF HashInv, HashesOK, PdfMatchesItsHash
<1>2. Spec => []HashInv
  BY InitHash, NextHash, PTL DEF Spec
<1> QED
  BY <1>1, <1>2, PTL

=============================================================================
