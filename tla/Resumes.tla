------------------------------- MODULE Resumes -------------------------------
(***************************************************************************)
(* Resumes and their PDF exports: the upload, build, delete and export     *)
(* handlers of routers/resume.py, the deletion of the account, and the     *)
(* Celery tasks parse_resume_task and resume.export_pdf.                   *)
(*                                                                         *)
(* A resume is a row, an object in the bucket and perhaps a task, changed  *)
(* one after the other without a common transaction.  A row is visible     *)
(* when get_db commits it, after the handler has stored the object and     *)
(* enqueued the task.  Both tasks are acknowledged late; only the parse    *)
(* task is also rejected when its pool process dies.                       *)
(*                                                                         *)
(* What a parse finds in a file is a choice: the model that reads it may   *)
(* answer differently the second time.  The resumes are those of one user  *)
(* and the exports of one template, so they share the keys of the PDFs.    *)
(***************************************************************************)
EXTENDS Integers, FiniteSets

CONSTANTS
    Resumes,        \* resume ids
    Exports,        \* ids of export rows
    Contents,       \* what a resume may be parsed to
    Hashes,         \* content hashes
    HashOf,         \* the hash of each content; contents may share one
    Workers,        \* Celery pool processes
    None,           \* Python's None
    ParseRetries,   \* max_retries of parse_resume_task (3 in the code)
    ExportRetries,  \* max_retries of resume.export_pdf (2 in the code)
    MaxCrashes,     \* bound on deaths of workers
    MaxFaults       \* bound on failures of storage, broker, database and API

ASSUME ConstantsAssumption ==
    /\ Resumes \cap Exports = {}
    /\ HashOf \in [Contents -> Hashes]
    /\ None \notin Resumes \cup Exports \cup Contents \cup Hashes
    /\ {ParseRetries, ExportRetries, MaxCrashes, MaxFaults} \subseteq Nat

VARIABLES
    upload,      \* progress of the request that creates each resume
    status,      \* resumes.status of the committed row, "absent" without one
    data,        \* resumes.parsed_data of the committed row
    objects,     \* resumes whose uploaded file is in the bucket
    deletion,    \* progress of a deletion
    account,     \* whether the owner's account exists, "open" or "closed"
    export,      \* life of each row of resume_exports; "done" has an s3_key
    source,      \* resume_exports.resume_id
    hash,        \* resume_exports.content_hash
    undispatched,\* exports committed by a handler that has still to enqueue them
    pdf,         \* content shown by the PDF under each hash's key
    queue,       \* messages in the broker, by job and retry count
    worker,      \* what each pool process is doing
    outrun,      \* resumes whose task ran before their row was committed
    redelivered, \* jobs whose message came back after a death
    spent,       \* exports whose last try raised
    crashes,     \* deaths so far
    faults,      \* failures so far
    struck       \* jobs hit by a failure, or lost with their process
vars == <<upload, status, data, objects, deletion, account, export, source, hash,
          undispatched, pdf, queue, worker, outrun, redelivered, spent,
          crashes, faults, struck>>

resumeVars == <<status, data>>
exportVars == <<export, source, hash, undispatched>>
ghostVars  == <<outrun, redelivered, spent>>
faultVars  == <<crashes, faults, struck>>

Jobs       == Resumes \cup Exports
MaxRetries(j) == IF j \in Resumes THEN ParseRetries ELSE ExportRetries
Retries    == 0..(ParseRetries + ExportRetries)

UploadPC   == {"unused", "stored", "parsed", "unparsed", "enqueued",
               "committed", "aborted", "built"}
RowStatus  == {"absent", "pending", "processing", "done", "failed"}
DeletePC   == {"none", "object", "failed"}
ExportLife == {"unused", "missed", "refused", "queued", "done", "gone"}
WorkerPC   == {"idle", "taken", "loaded", "processing", "parsed", "failing",
               "rendering", "stored", "raised", "settled"}

\* A worker's message (unacknowledged), whether its next UPDATE changes what it
\* loaded, and the content it parsed or renders.
WorkerState == [pc: WorkerPC, job: Jobs \cup {None}, n: Retries,
                dirty: BOOLEAN, content: Contents \cup {None}]
Idle == [pc |-> "idle", job |-> None, n |-> 0, dirty |-> FALSE, content |-> None]

-----------------------------------------------------------------------------
(* Helpers                                                                 *)

Row(r)       == status[r] # "absent"
HasKey(r)    == upload[r] # "built"
ExportRow(e) == export[e] \in {"queued", "done"}

At(w, pc)   == worker[w].pc = pc
Goto(w, pc) == worker' = [worker EXCEPT ![w].pc = pc]

\* The queue.  Mutated: an ended task is not acknowledged; a dead pool process takes
\* every message with it.
Publish(j, n) == queue' = [queue EXCEPT ![<<j, n>>] = @ + 1]
Available(j, n) == queue[<<j, n>>] > 0
Release_NoAck(j, n) == Publish(j, n)
Release(j, n) == UNCHANGED queue
RejectedOnLoss_Never(j) == FALSE
RejectedOnLoss(j) == j \in Resumes

\* The key of a PDF.  Mutated: a hash of the template alone.
content_hash_Template(c) == CHOOSE h \in Hashes : TRUE
content_hash(c) == HashOf[c]

\* How a failed put leaves the upload, and a failed delete the deletion.
\* Mutated: the error is logged and the handler goes on.
OnPutError_LogOnly == "stored"
OnPutError == "aborted"
OnDeleteError == "failed"

\* An exception of the renderer leaves the task.
OnRenderError == "raised"

Fault(j) ==
    /\ faults < MaxFaults
    /\ faults' = faults + 1
    /\ struck' = struck \cup {j}
    /\ UNCHANGED crashes
NoFault == UNCHANGED faultVars

-----------------------------------------------------------------------------
Init ==
    /\ upload       = [r \in Resumes |-> "unused"]
    /\ status       = [r \in Resumes |-> "absent"]
    /\ data         = [r \in Resumes |-> None]
    /\ objects      = {}
    /\ deletion     = [r \in Resumes |-> "none"]
    /\ account      = "open"
    /\ export       = [e \in Exports |-> "unused"]
    /\ source       = [e \in Exports |-> None]
    /\ hash         = [e \in Exports |-> None]
    /\ undispatched = {}
    /\ pdf          = [h \in Hashes |-> None]
    /\ queue        = [m \in Jobs \X Retries |-> 0]
    /\ worker       = [w \in Workers |-> Idle]
    /\ outrun       = {}
    /\ redelivered  = {}
    /\ spent        = {}
    /\ crashes      = 0
    /\ faults       = 0
    /\ struck       = {}

-----------------------------------------------------------------------------
(* POST /resume/upload                                                     *)

\* storage.upload_file() under a fresh key.
StoreObject(r) ==
    /\ upload[r] = "unused"
    /\ upload' = [upload EXCEPT ![r] = "stored"]
    /\ objects' = objects \cup {r}
    /\ UNCHANGED <<deletion, account, pdf, queue, worker>>
    /\ UNCHANGED <<resumeVars, exportVars, ghostVars, faultVars>>

\* The put or the presigning after it fails (502): the object may be there.
StoreFails(r) ==
    /\ upload[r] = "unused"
    /\ upload' = [upload EXCEPT ![r] = OnPutError]
    /\ objects' \in {objects, objects \cup {r}}
    /\ Fault(r)
    /\ UNCHANGED <<deletion, account, pdf, queue, worker>>
    /\ UNCHANGED <<resumeVars, exportVars, ghostVars>>

\* The row is flushed and the file parsed, all within the open transaction.
\* Without its user (a foreign key) the row is refused.
ParseInline(r) ==
    /\ upload[r] = "stored"
    /\ \E outcome \in IF account = "open" THEN {"parsed", "unparsed"} ELSE {"aborted"} :
          upload' = [upload EXCEPT ![r] = outcome]
    /\ UNCHANGED <<objects, deletion, account, pdf, queue, worker>>
    /\ UNCHANGED <<resumeVars, exportVars, ghostVars, faultVars>>

\* parse_resume_task.delay() before the commit; a refusal is swallowed.
EnqueueParse(r) ==
    /\ upload[r] = "unparsed"
    /\ upload' = [upload EXCEPT ![r] = "enqueued"]
    /\ \/ Publish(r, 0) /\ NoFault
       \/ Fault(r) /\ UNCHANGED queue
    /\ UNCHANGED <<objects, deletion, account, pdf, worker>>
    /\ UNCHANGED <<resumeVars, exportVars, ghostVars>>

\* get_db commits the row with what the inline parse left in it.
CommitUpload(r) ==
    /\ upload[r] \in {"parsed", "enqueued"}
    /\ upload' = [upload EXCEPT ![r] = "committed"]
    /\ IF upload[r] = "parsed"
       THEN /\ status' = [status EXCEPT ![r] = "done"]
            /\ \E c \in Contents : data' = [data EXCEPT ![r] = c]
       ELSE /\ status' = [status EXCEPT ![r] = "pending"]
            /\ UNCHANGED data
    /\ UNCHANGED <<objects, deletion, account, pdf, queue, worker>>
    /\ UNCHANGED <<exportVars, ghostVars, faultVars>>

\* A flush or the commit fails, or the API process dies: the row is rolled
\* back, the object stays.  A flush that fails after the parse is taken for a
\* failed parse, so the task is enqueued although its row will never be.
LoseUpload(r) ==
    /\ upload[r] \in {"stored", "parsed", "unparsed", "enqueued"}
    /\ upload' = [upload EXCEPT ![r] = "aborted"]
    /\ \/ UNCHANGED queue
       \/ upload[r] = "parsed" /\ Publish(r, 0)
    /\ Fault(r)
    /\ UNCHANGED <<objects, deletion, account, pdf, worker>>
    /\ UNCHANGED <<resumeVars, exportVars, ghostVars>>

\* POST /resume/build: a row without a file, with the AI's or the form's data.
BuildResume(r) ==
    /\ upload[r] = "unused" /\ account = "open"
    /\ upload' = [upload EXCEPT ![r] = "built"]
    /\ status' = [status EXCEPT ![r] = "done"]
    /\ \E c \in Contents : data' = [data EXCEPT ![r] = c]
    /\ UNCHANGED <<objects, deletion, account, pdf, queue, worker>>
    /\ UNCHANGED <<exportVars, ghostVars, faultVars>>

-----------------------------------------------------------------------------
(* DELETE /resume/{id}, one request at a time for a resume                 *)

DeleteObject(r) ==
    /\ Row(r)
    /\ deletion[r] # "object"
    /\ deletion' = [deletion EXCEPT ![r] = "object"]
    /\ objects' = objects \ {r}
    /\ UNCHANGED <<upload, account, pdf, queue, worker>>
    /\ UNCHANGED <<resumeVars, exportVars, ghostVars, faultVars>>

\* The storage reports an error (502), perhaps after deleting the object.
DeleteObjectFails(r) ==
    /\ Row(r) /\ HasKey(r)
    /\ deletion[r] # "object"
    /\ deletion' = [deletion EXCEPT ![r] = OnDeleteError]
    /\ objects' \in {objects, objects \ {r}}
    /\ Fault(r)
    /\ UNCHANGED <<upload, account, pdf, queue, worker>>
    /\ UNCHANGED <<resumeVars, exportVars, ghostVars>>

\* get_db commits; the rows of the exports go with it (ON DELETE CASCADE),
\* their PDFs stay.
CommitDelete(r) ==
    /\ deletion[r] = "object"
    /\ deletion' = [deletion EXCEPT ![r] = "none"]
    /\ status' = [status EXCEPT ![r] = "absent"]
    /\ data' = [data EXCEPT ![r] = None]
    /\ export' = [e \in Exports |-> IF source[e] = r /\ ExportRow(e)
                                    THEN "gone" ELSE export[e]]
    /\ UNCHANGED <<upload, account, objects, source, hash, undispatched, pdf, queue,
                   worker>>
    /\ UNCHANGED <<ghostVars, faultVars>>

LoseDelete(r) ==
    /\ deletion[r] = "object"
    /\ deletion' = [deletion EXCEPT ![r] = "failed"]
    /\ Fault(r)
    /\ UNCHANGED <<upload, account, objects, pdf, queue, worker>>
    /\ UNCHANGED <<resumeVars, exportVars, ghostVars>>

-----------------------------------------------------------------------------
(* DELETE /compliance/me and Clerk's user.deleted                          *)

\* The rows of the user go by cascade; files and PDFs stay.  An insert that is
\* flushed holds the user's row, and the deletion waits for it.
DeleteAccount ==
    /\ account = "open"
    /\ \A r \in Resumes : upload[r] \notin {"parsed", "unparsed", "enqueued"}
    /\ account' = "closed"
    /\ status' = [r \in Resumes |-> "absent"]
    /\ data' = [r \in Resumes |-> None]
    /\ export' = [e \in Exports |-> IF ExportRow(e) THEN "gone" ELSE export[e]]
    /\ UNCHANGED <<upload, objects, deletion, source, hash, undispatched, pdf, queue,
                   worker>>
    /\ UNCHANGED <<ghostVars, faultVars>>

-----------------------------------------------------------------------------
(* POST /resume/{id}/export-pdf                                            *)

\* No finished export of this resume has the hash of its present content (one
\* that has is returned, and nothing changes).
MissCache(e, r) ==
    /\ export[e] = "unused"
    /\ Row(r) /\ data[r] # None
    /\ ~ \E x \in Exports : /\ export[x] = "done" /\ source[x] = r
                            /\ hash[x] = content_hash(data[r])
    /\ export' = [export EXCEPT ![e] = "missed"]
    /\ source' = [source EXCEPT ![e] = r]
    /\ hash' = [hash EXCEPT ![e] = content_hash(data[r])]
    /\ UNCHANGED <<upload, objects, deletion, account, undispatched, pdf, queue, worker>>
    /\ UNCHANGED <<resumeVars, ghostVars, faultVars>>

\* The insert needs its resume (a foreign key) and is committed by the handler.
InsertExport(e) ==
    /\ export[e] = "missed"
    /\ IF Row(source[e])
       THEN /\ export' = [export EXCEPT ![e] = "queued"]
            /\ undispatched' = undispatched \cup {e}
       ELSE /\ export' = [export EXCEPT ![e] = "refused"]
            /\ UNCHANGED undispatched
    /\ UNCHANGED <<upload, objects, deletion, account, source, hash, pdf, queue, worker>>
    /\ UNCHANGED <<resumeVars, ghostVars, faultVars>>

\* task.delay() after the commit.  The broker refuses it, which is swallowed,
\* or the API process dies first: the row stays without a task.
DispatchExport(e) ==
    /\ e \in undispatched
    /\ undispatched' = undispatched \ {e}
    /\ \/ Publish(e, 0) /\ NoFault
       \/ Fault(e) /\ UNCHANGED queue
    /\ UNCHANGED <<upload, objects, deletion, account, export, source, hash, pdf, worker>>
    /\ UNCHANGED <<resumeVars, ghostVars>>

-----------------------------------------------------------------------------
(* The workers: what both tasks share                                      *)

Take(w, j, n) ==
    /\ At(w, "idle")
    /\ Available(j, n)
    /\ queue' = [queue EXCEPT ![<<j, n>>] = @ - 1]
    /\ worker' = [worker EXCEPT ![w] = [Idle EXCEPT !.pc = "taken", !.job = j,
                                                    !.n = n]]
    /\ UNCHANGED <<upload, objects, deletion, account, pdf>>
    /\ UNCHANGED <<resumeVars, exportVars, ghostVars, faultVars>>

\* A query or a commit fails: the exception leaves the task, since the except
\* branch of the parse task cannot commit in that session either.
DatabaseFails(w) ==
    /\ worker[w].pc \in {"taken", "loaded", "parsed", "failing", "stored"}
    /\ Goto(w, "raised")
    /\ Fault(worker[w].job)
    /\ UNCHANGED <<upload, objects, deletion, account, pdf, queue>>
    /\ UNCHANGED <<resumeVars, exportVars, ghostVars>>

\* autoretry_for=(Exception,): one more message, until the retries are used up.
\* A retry the broker refuses loses the message.
RetryOrGiveUp(w) ==
    LET j == worker[w].job
        n == worker[w].n
    IN  /\ At(w, "raised")
        /\ Goto(w, "settled")
        /\ IF n < MaxRetries(j)
           THEN /\ \/ Publish(j, n + 1) /\ NoFault
                   \/ Fault(j) /\ UNCHANGED queue
                /\ UNCHANGED spent
           ELSE /\ spent' = spent \cup ({j} \cap Exports)
                /\ UNCHANGED queue
                /\ NoFault
        /\ UNCHANGED <<upload, objects, deletion, account, pdf, outrun, redelivered>>
        /\ UNCHANGED <<resumeVars, exportVars>>

Acknowledge(w) ==
    /\ At(w, "settled")
    /\ Release(worker[w].job, worker[w].n)
    /\ worker' = [worker EXCEPT ![w] = Idle]
    /\ UNCHANGED <<upload, objects, deletion, account, pdf>>
    /\ UNCHANGED <<resumeVars, exportVars, ghostVars, faultVars>>

\* A death at any point of a task: the message returns to the queue, or is
\* acknowledged with the dead process.
Crash(w) ==
    /\ ~At(w, "idle")
    /\ crashes < MaxCrashes
    /\ crashes' = crashes + 1
    /\ worker' = [worker EXCEPT ![w] = Idle]
    /\ UNCHANGED <<upload, objects, deletion, account, pdf, outrun, spent, faults>>
    /\ UNCHANGED <<resumeVars, exportVars>>
Redeliver(w) ==
    /\ Publish(worker[w].job, worker[w].n)
    /\ redelivered' = redelivered \cup {worker[w].job}
    /\ UNCHANGED struck
LoseWorker(w) == Crash(w) /\ Redeliver(w)
LoseProcess(w) ==
    /\ Crash(w)
    /\ IF RejectedOnLoss(worker[w].job)
       THEN Redeliver(w)
       ELSE /\ struck' = struck \cup ({worker[w].job} \cap Exports)
            /\ UNCHANGED <<queue, redelivered>>

-----------------------------------------------------------------------------
(* parse_resume_task                                                       *)

\* db.get(Resume, ...): without a row the task logs and succeeds.
LoadResume(w) ==
    LET r == worker[w].job IN
    /\ At(w, "taken") /\ r \in Resumes
    /\ worker' = [worker EXCEPT ![w] =
                     IF Row(r)
                     THEN [@ EXCEPT !.pc = "loaded", !.dirty = status[r] # "processing"]
                     ELSE [@ EXCEPT !.pc = "settled"]]
    /\ outrun' = IF upload[r] = "enqueued" THEN outrun \cup {r} ELSE outrun
    /\ UNCHANGED <<upload, objects, deletion, account, pdf, queue, redelivered, spent>>
    /\ UNCHANGED <<resumeVars, exportVars, faultVars>>

\* status = "processing"; commit.  An UPDATE of a deleted row raises.
MarkProcessing(w) ==
    LET r == worker[w].job IN
    /\ At(w, "loaded")
    /\ IF worker[w].dirty /\ ~Row(r)
       THEN Goto(w, "raised") /\ UNCHANGED status
       ELSE /\ Goto(w, "processing")
            /\ status' = IF worker[w].dirty
                         THEN [status EXCEPT ![r] = "processing"] ELSE status
    /\ UNCHANGED <<upload, data, objects, deletion, account, pdf, queue>>
    /\ UNCHANGED <<exportVars, ghostVars, faultVars>>

\* Download, extract, ask the AI.  Any of them may fail, and without the
\* object the first one does.
ParseFile(w) ==
    LET r == worker[w].job IN
    /\ At(w, "processing")
    /\ \/ /\ r \in objects
          /\ \E c \in Contents :
                worker' = [worker EXCEPT ![w].pc = "parsed", ![w].content = c]
       \/ Goto(w, "failing")
    /\ UNCHANGED <<upload, objects, deletion, account, pdf, queue>>
    /\ UNCHANGED <<resumeVars, exportVars, ghostVars, faultVars>>

\* parsed_data, status = "done"; commit.
CommitParsed(w) ==
    LET r == worker[w].job IN
    /\ At(w, "parsed")
    /\ IF Row(r)
       THEN /\ Goto(w, "settled")
            /\ status' = [status EXCEPT ![r] = "done"]
            /\ data' = [data EXCEPT ![r] = worker[w].content]
       ELSE Goto(w, "raised") /\ UNCHANGED resumeVars
    /\ UNCHANGED <<upload, objects, deletion, account, pdf, queue>>
    /\ UNCHANGED <<exportVars, ghostVars, faultVars>>

\* except: status = "failed"; commit; raise.
CommitFailed(w) ==
    LET r == worker[w].job IN
    /\ At(w, "failing")
    /\ Goto(w, "raised")
    /\ status' = IF Row(r) THEN [status EXCEPT ![r] = "failed"] ELSE status
    /\ UNCHANGED <<upload, data, objects, deletion, account, pdf, queue>>
    /\ UNCHANGED <<exportVars, ghostVars, faultVars>>

-----------------------------------------------------------------------------
(* resume.export_pdf                                                       *)

\* Without the export's row, or its resume's data, the task logs and succeeds.
LoadExport(w) ==
    LET e == worker[w].job IN
    /\ At(w, "taken") /\ e \in Exports
    /\ worker' = [worker EXCEPT ![w] =
                     IF ExportRow(e) /\ data[source[e]] # None
                     THEN [@ EXCEPT !.pc = "rendering", !.dirty = export[e] = "queued",
                                    !.content = data[source[e]]]
                     ELSE [@ EXCEPT !.pc = "settled"]]
    /\ UNCHANGED <<upload, objects, deletion, account, pdf, queue>>
    /\ UNCHANGED <<resumeVars, exportVars, ghostVars, faultVars>>

\* Render what the resume held when it was loaded, and store it under the key
\* of the hash taken at the request.
RenderPdf(w) ==
    /\ At(w, "rendering")
    /\ \/ /\ pdf' = [pdf EXCEPT ![hash[worker[w].job]] = worker[w].content]
          /\ Goto(w, "stored")
       \/ Goto(w, OnRenderError) /\ UNCHANGED pdf
    /\ UNCHANGED <<upload, objects, deletion, account, queue>>
    /\ UNCHANGED <<resumeVars, exportVars, ghostVars, faultVars>>

\* s3_key, file_size, engine; commit.  An UPDATE of a row that is gone raises;
\* a second run has one to send only if the size differs.
CommitExport(w) ==
    LET e == worker[w].job IN
    /\ At(w, "stored")
    /\ IF ExportRow(e)
       THEN /\ export' = [export EXCEPT ![e] = "done"]
            /\ Goto(w, "settled")
       ELSE /\ \E pc \in IF worker[w].dirty THEN {"raised"} ELSE {"raised", "settled"} :
                  Goto(w, pc)
            /\ UNCHANGED export
    /\ UNCHANGED <<upload, objects, deletion, account, source, hash, undispatched, pdf,
                   queue>>
    /\ UNCHANGED <<resumeVars, ghostVars, faultVars>>

-----------------------------------------------------------------------------
Next ==
    \/ \E r \in Resumes :
         \/ StoreObject(r) \/ StoreFails(r) \/ ParseInline(r) \/ EnqueueParse(r)
         \/ CommitUpload(r) \/ LoseUpload(r) \/ BuildResume(r)
         \/ DeleteObject(r) \/ DeleteObjectFails(r) \/ CommitDelete(r)
         \/ LoseDelete(r)
    \/ DeleteAccount
    \/ \E e \in Exports, r \in Resumes : MissCache(e, r)
    \/ \E e \in Exports : InsertExport(e) \/ DispatchExport(e)
    \/ \E w \in Workers, j \in Jobs, n \in Retries : Take(w, j, n)
    \/ \E w \in Workers :
         \/ LoadResume(w) \/ MarkProcessing(w) \/ ParseFile(w)
         \/ CommitParsed(w) \/ CommitFailed(w)
         \/ LoadExport(w) \/ RenderPdf(w) \/ CommitExport(w)
         \/ DatabaseFails(w) \/ RetryOrGiveUp(w) \/ Acknowledge(w)
         \/ LoseWorker(w) \/ LoseProcess(w)

Spec == Init /\ [][Next]_vars

-----------------------------------------------------------------------------
(* Properties                                                              *)

\* The type invariant.
TypeOK ==
    /\ upload \in [Resumes -> UploadPC]
    /\ status \in [Resumes -> RowStatus]
    /\ data \in [Resumes -> Contents \cup {None}]
    /\ objects \subseteq Resumes
    /\ deletion \in [Resumes -> DeletePC] /\ account \in {"open", "closed"}
    /\ export \in [Exports -> ExportLife]
    /\ source \in [Exports -> Resumes \cup {None}]
    /\ hash \in [Exports -> Hashes \cup {None}]
    /\ undispatched \subseteq Exports
    /\ pdf \in [Hashes -> Contents \cup {None}]
    /\ queue \in [Jobs \X Retries -> Nat]
    /\ worker \in [Workers -> WorkerState]
    /\ outrun \subseteq Resumes
    /\ redelivered \subseteq Jobs
    /\ spent \subseteq Exports
    /\ struck \subseteq Jobs
    /\ crashes \in 0..MaxCrashes
    /\ faults \in 0..MaxFaults

InFlight(j) == \/ \E n \in Retries : Available(j, n)
               \/ \E w \in Workers : worker[w].job = j

\* A resume waits for its parse only while a message for it exists, whatever
\* dies, unless a worker was faster than the commit of the upload or a failure
\* hit it (delay() before the commit; acks_late, reject_on_worker_lost).
NoForgottenUpload ==
    \A r \in Resumes : status[r] \in {"pending", "processing"} =>
        InFlight(r) \/ r \in outrun \cup struck

\* An export stays queued only while its task is on its way, unless its tries
\* are spent, its broker or database failed, or it died with its pool process
\* (commit before delay(); acks_late alone).
NoForgottenExport ==
    \A e \in Exports : export[e] = "queued" =>
        e \in undispatched \cup spent \cup struck \/ InFlight(e)

\* The row of an uploaded resume has its file, except after a deletion that got
\* as far as the file and no further.
RowsHaveFiles ==
    \A r \in Resumes : Row(r) /\ HasKey(r) /\ r \notin objects =>
        deletion[r] # "none"

\* delete_resume leaves no file without a row, however it fails ("DB record preserved
\* for retry"): only an upload that did not complete does, and the deletion of the
\* account, which removes rows and never asks the storage.
OrphansAreLostUploads ==
    \A r \in objects : \/ Row(r) \/ upload[r] \notin {"unused", "committed", "built"}
                       \/ account = "closed"

\* Nothing of a closed account comes back into the database, whatever requests and
\* tasks of the user's were under way.
NothingOutlivesTheAccount ==
    account = "closed" => /\ \A r \in Resumes : ~Row(r) /\ data[r] = None
                          /\ \A e \in Exports : ~ExportRow(e)

\* Nothing that waits is forgotten: no upload and no export.
NoForgottenWork == NoForgottenUpload /\ NoForgottenExport

\* Rows and files agree, whatever fails between the two stores and whenever the account
\* is deleted: no row has lost its file, no row has survived its account, and no file
\* its row, but for the failures and the account deletion that the parts name.
RowsAndFilesAgree ==
    RowsHaveFiles /\ OrphansAreLostUploads /\ NothingOutlivesTheAccount

\* The PDF under a hash shows content of that hash, unless a resume may have
\* been parsed again between the request and the rendering: the key is taken
\* from the content at the request, the page from the content at the task.
PdfMatchesItsHash ==
    redelivered \cap Resumes = {} =>
        \A h \in Hashes : pdf[h] # None => HashOf[pdf[h]] = h

\* Once parsed, a resume keeps its data and stays "done" until it is deleted; a
\* second run of its task, which may change either, takes a death of a worker.
ParsedIsFinal ==
    [][\A r \in Resumes \ redelivered : data[r] # None =>
          \/ status'[r] = "absent"
          \/ status'[r] = status[r] /\ data'[r] = data[r]]_vars

=============================================================================
