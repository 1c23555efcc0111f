--------------------------- MODULE UploadIngestion ---------------------------
(***************************************************************************)
(* The upload of one source under one idempotency key: the submit calls    *)
(* that carry the key (the first request, its retries, and any that run    *)
(* next to it), the ARQ job they publish, the worker's run without a       *)
(* lifecycle operation, and a reconciliation that repairs orphans.         *)
(*                                                                         *)
(* submit writes to three stores one after the other: the object, the      *)
(* document and version rows, and the job and task rows; then it enqueues. *)
(* A request may fail or die at every point, and the client may come back  *)
(* with the same key.  The object's key and the job's id derive from the   *)
(* idempotency key; the document's id is fresh in every call, so a         *)
(* document and its version are named by the call that registered them.    *)
(***************************************************************************)
EXTENDS Integers

CONSTANTS
    Submits,   \* submit calls that carry the same idempotency key and content
    NoJob,     \* no job
    MaxTries,  \* worker.max_tries, also RetryPolicy.max_attempts
    Repairs    \* bound on the reconciliations with dry_run = False

ASSUME UploadConstants == NoJob \notin Submits /\ MaxTries \in Nat /\ Repairs \in Nat

VARIABLES
    call,     \* where each submit call is
    object,   \* the object store holds the source
    version,  \* the DocumentVersion row of each call
    current,  \* documents whose current_version_id is set
    job,      \* the IngestionJob row: the document it ingests, its status
    task,     \* its IngestionTask rows; "refused" is a failure not to be retried
    records,  \* the search records of the job's version
    message,  \* the ARQ job: where it is, and its job_try
    run,      \* the worker's local state
    repair,   \* the reconciler's local state
    lost,      \* history: a message ended that no handler could conclude
    overlooked \* history: a reconciliation did not see a version row that it judged by

rows       == <<version, current, job, task>>
history    == <<lost, overlooked>>
uploadVars == <<call, object, rows, records, message, run, repair, history>>

Stages == 1..4      \* parse, chunk, embed, index

CallPhase == {"idle", "put", "register", "commit", "publish", "acknowledged", "failed"}
RunPhase  == {"idle", "begin", "register", "start", "work", "succeed", "activate",
              "finish", "fail_task", "fail_job", "fail_version"}

Idle == [pc |-> "idle", stage |-> 1, job |-> "pending", version |-> "absent",
         retryable |-> FALSE]

UploadInit ==
    /\ call = [c \in Submits |-> "idle"]
    /\ object = FALSE
    /\ version = [c \in Submits |-> "absent"]
    /\ current = {}
    /\ job = [document |-> NoJob, status |-> "pending"]
    /\ task = [s \in Stages |-> "pending"]
    /\ records = "none"
    /\ message = [state |-> "none", tries |-> 0]
    /\ run = Idle
    /\ repair = [pc |-> "idle", known |-> {}, count |-> 0]
    /\ lost = FALSE /\ overlooked = FALSE

Registered == {c \in Submits : version[c] # "absent"}

-----------------------------------------------------------------------------
(* UploadService.submit.                                                     *)

Advance(c, from, to) == call[c] = from /\ call' = [call EXCEPT ![c] = to]

\* Mutant: the duplicate is answered without a look at the queue.
AnswerDuplicate(c) ==
    /\ Advance(c, "idle", IF job.document = NoJob THEN "put" ELSE "acknowledged")
    /\ UNCHANGED <<object, rows, records, message, run, repair, history>>

\* The job is looked up by the id the key determines.  A job that exists is
\* answered, and while it is pending its message is published again.
LookUpJob(c) ==
    /\ Advance(c, "idle", IF job.document = NoJob THEN "put"
                          ELSE IF job.status = "pending" THEN "publish"
                          ELSE "acknowledged")
    /\ UNCHANGED <<object, rows, records, message, run, repair, history>>

PutObject(c) ==
    /\ Advance(c, "put", "register")
    /\ object' = TRUE
    /\ UNCHANGED <<rows, records, message, run, repair, history>>

\* register_document: a document and a version, both new, in one transaction.
RegisterDocument(c) ==
    /\ Advance(c, "register", "commit")
    /\ version' = [version EXCEPT ![c] = "registered"]
    /\ overlooked' = (overlooked \/ repair.pc # "idle")
    /\ UNCHANGED <<object, current, job, task, records, message, run, repair, lost>>

\* Mutant: the job is saved, not added.
SaveJob(c) ==
    /\ Advance(c, "commit", "publish")
    /\ job' = [document |-> c, status |-> "pending"]
    /\ UNCHANGED <<object, version, current, task, records, message, run, repair, history>>

\* The job and its four tasks are added in one transaction; a job that exists
\* by now is a conflict, and the document just registered has no job.
AddJob(c) ==
    /\ IF job.document = NoJob
       THEN Advance(c, "commit", "publish") /\ job' = [document |-> c, status |-> "pending"]
       ELSE Advance(c, "commit", "failed") /\ job' = job
    /\ UNCHANGED <<object, version, current, task, records, message, run, repair, history>>

\* enqueue_job under message id ingestion:<job>: ARQ ignores it while a job or
\* a result with that id exists.
Enqueued == IF message.state = "none" THEN [state |-> "queued", tries |-> 0] ELSE message

Publish(c) ==
    /\ Advance(c, "publish", "acknowledged")
    /\ message' = Enqueued
    /\ UNCHANGED <<object, rows, records, run, repair, history>>

\* A store or the queue refuses, or the process dies; the answer of the queue
\* may be lost.
RequestFails(c) ==
    /\ \E from \in {"put", "register", "commit", "publish"} : Advance(c, from, "failed")
    /\ message' \in {message} \cup (IF call[c] = "publish" THEN {Enqueued} ELSE {})
    /\ UNCHANGED <<object, rows, records, run, repair, history>>

-----------------------------------------------------------------------------
(* The queue.                                                                *)

At(phase) == run.pc = phase
Goto(phase) == run' = [run EXCEPT !.pc = phase]

\* _record_failure is given the run's copy of the job and the error.
RaiseWith(status, retryable) ==
    run' = [Idle EXCEPT !.pc = "fail_task", !.job = status, !.retryable = retryable]
Raise(retryable) == RaiseWith(run.job, retryable)
Leave(state) == run' = Idle /\ message' = [message EXCEPT !.state = state]

Waiting == message.state \in {"queued", "orphaned"}

\* Mutant: one delivery more than max_tries.
OneTryMore == message.tries <= MaxTries
TriesLeft  == message.tries < MaxTries

\* handle loads the rows; a job that succeeded is left as it is.
Deliver ==
    /\ Waiting /\ TriesLeft
    /\ message' = [state |-> IF job.status = "succeeded" THEN "answered" ELSE "running",
                   tries |-> message.tries + 1]
    /\ run' = IF job.status = "succeeded" THEN run
              ELSE [pc |-> "begin", stage |-> 1, job |-> job.status,
                    version |-> version[job.document], retryable |-> FALSE]
    /\ UNCHANGED <<call, object, rows, records, repair, history>>

\* The database fails the load, which precedes the try: ARQ ends the message.
LoadFails ==
    /\ Waiting /\ TriesLeft
    /\ message' = [state |-> "answered", tries |-> message.tries + 1]
    /\ lost' = TRUE
    /\ UNCHANGED <<call, object, rows, records, run, repair, overlooked>>

\* job_try would exceed max_tries.
Exhaust ==
    /\ Waiting /\ message.tries = MaxTries
    /\ message' = [message EXCEPT !.state = "answered"]
    /\ lost' = (lost \/ message.state = "orphaned")
    /\ UNCHANGED <<call, object, rows, records, run, repair, overlooked>>

\* The result expires, and with it the id that held back a second message.
ResultExpires ==
    /\ message.state = "answered"
    /\ message' = [state |-> "none", tries |-> 0]
    /\ UNCHANGED <<call, object, rows, records, run, repair, history>>

WorkerDies ==
    /\ ~At("idle")
    /\ Leave("orphaned")
    /\ UNCHANGED <<call, object, rows, records, repair, history>>

\* job_timeout cancels the coroutine, which "except Exception" does not see.
JobTimeout ==
    /\ ~At("idle")
    /\ Leave("answered")
    /\ lost' = TRUE
    /\ UNCHANGED <<call, object, rows, records, repair, overlooked>>

-----------------------------------------------------------------------------
(* The database fails a read or a save of the run, or its answer is lost.    *)

Breaks(status) == \E retryable \in BOOLEAN : RaiseWith(status, retryable)

\* The run's copy of the job is running before that is saved.
DatabaseFails ==
    /\ run.pc \in {"begin", "register", "start", "work", "succeed", "activate"}
    /\ Breaks(IF At("begin") /\ run.job = "pending" THEN "running" ELSE run.job)
    /\ UNCHANGED <<call, object, rows, records, message, repair, history>>

-----------------------------------------------------------------------------
(* IngestionPipeline.handle for a job without an operation.                  *)

Untouched == <<call, object, repair, history>>
Mine == job.document

MarkRunning ==
    /\ At("begin")
    /\ IF run.job = "pending"
       THEN /\ job' = [job EXCEPT !.status = "running"]
            /\ run' = [run EXCEPT !.pc = "register", !.job = "running"]
       ELSE job' = job /\ Goto("register")
    /\ UNCHANGED <<Untouched, version, current, task, records, message>>

MarkIngesting ==
    /\ At("register")
    /\ IF run.version = "registered"
       THEN /\ version' = [version EXCEPT ![Mine] = "ingesting"]
            /\ run' = [run EXCEPT !.pc = "start", !.version = "ingesting"]
       ELSE version' = version /\ Goto("start")
    /\ UNCHANGED <<Untouched, current, job, task, records, message>>

StartTask ==
    /\ At("start")
    /\ IF task[run.stage] = "refused"
       THEN Raise(FALSE) /\ task' = task
       ELSE /\ task' = [task EXCEPT ![run.stage] = IF @ = "succeeded" THEN @ ELSE "running"]
            /\ Goto("work")
    /\ UNCHANGED <<Untouched, version, current, job, records, message>>

\* The parser reads the object; the last stage upserts the records, inactive.
StageWorks ==
    /\ At("work")
    /\ run.stage = 1 => object
    /\ records' = IF run.stage = 4 THEN "inactive" ELSE records
    /\ Goto("succeed")
    /\ UNCHANGED <<Untouched, rows, message>>

\* A service fails, or refuses the content; a source that is gone is an error.
StageFails ==
    /\ At("work")
    /\ \E retryable \in BOOLEAN : Raise(retryable)
    /\ records' \in {records} \cup (IF run.stage = 4 THEN {"inactive"} ELSE {})
    /\ UNCHANGED <<Untouched, rows, message>>

\* The task is saved, and then the job's progress.
SucceedTask ==
    /\ At("succeed")
    /\ task' = [task EXCEPT ![run.stage] = "succeeded"]
    /\ run' = IF run.stage = 4 THEN [run EXCEPT !.pc = "activate"]
              ELSE [run EXCEPT !.pc = "start", !.stage = @ + 1]
    /\ UNCHANGED <<Untouched, version, current, job, records, message>>

\* The version may become ready only from ingesting; activate switches the
\* document's records over and refuses to activate none.
Activate ==
    /\ At("activate")
    /\ IF run.version = "ingesting" /\ records # "none"
       THEN /\ records' = "active"
            /\ IF run.job = "running" THEN Goto("finish") ELSE Raise(FALSE)
       ELSE records' = records /\ Raise(FALSE)
    /\ UNCHANGED <<Untouched, rows, message>>

ActivateFails ==
    /\ At("activate")
    /\ records' \in {records, IF records = "active" THEN "inactive" ELSE records}
    /\ Raise(TRUE)
    /\ UNCHANGED <<Untouched, rows, message>>

\* Version, document and job are saved in one transaction, as the run read them.
Serve ==
    /\ version' = [version EXCEPT ![Mine] = "ready"]
    /\ current' = current \cup {Mine}
    /\ job' = [job EXCEPT !.status = "succeeded"]

Finish ==
    /\ At("finish")
    /\ Serve
    /\ Leave("answered")
    /\ UNCHANGED <<Untouched, task, records>>

\* That save fails, before or after the commit; the copy of the job has succeeded.
FinishFails ==
    /\ At("finish")
    /\ Serve \/ UNCHANGED <<version, current, job>>
    /\ Breaks("succeeded")
    /\ UNCHANGED <<Untouched, task, records, message>>

\* _record_failure: the task, the job, the version, each in its own transaction.
MayRetry == run.retryable /\ message.tries < MaxTries

FailedTasks == [s \in Stages |-> IF task[s] # "running" THEN task[s]
                                 ELSE IF MayRetry THEN "failed" ELSE "refused"]

FailTask ==
    /\ At("fail_task")
    /\ task' = FailedTasks
    /\ IF MayRetry THEN Leave("queued") /\ lost' = lost
       ELSE IF run.job = "running" THEN Goto("fail_job") /\ UNCHANGED <<message, lost>>
       ELSE Leave("answered") /\ lost' = (lost \/ run.job = "succeeded")
    /\ UNCHANGED <<call, object, repair, overlooked, version, current, job, records>>

FailJob ==
    /\ At("fail_job")
    /\ job' = [job EXCEPT !.status = "failed"]
    /\ Goto("fail_version")
    /\ UNCHANGED <<Untouched, version, current, task, records, message>>

FailVersion ==
    /\ At("fail_version")
    /\ version' = [version EXCEPT ![Mine] = IF @ = "ingesting" THEN "failed" ELSE @]
    /\ Leave("answered")
    /\ UNCHANGED <<Untouched, current, job, task, records>>

\* The database fails while the failure is recorded: the message ends.
RecordingFails ==
    /\ run.pc \in {"fail_task", "fail_job", "fail_version"}
    /\ task' \in {task} \cup (IF At("fail_task") THEN {FailedTasks} ELSE {})
    /\ Leave("answered")
    /\ lost' = (lost \/ ~At("fail_version"))
    /\ UNCHANGED <<call, object, repair, overlooked, version, current, job, records>>

-----------------------------------------------------------------------------
(* LifecycleReconciler.run with dry_run = False.                             *)

\* Mutant: only versions in service count as authoritative.
ReadServedRows ==
    /\ repair.pc = "idle" /\ repair.count < Repairs
    /\ repair' = [pc |-> "objects", known |-> current, count |-> repair.count + 1]
    /\ UNCHANGED <<call, object, rows, records, message, run, history>>

\* The version rows are read first, limit * 10 of all the tenant has: other
\* documents may fill the list, and any row of these uploads be missing from it.
ReadRows ==
    /\ repair.pc = "idle" /\ repair.count < Repairs
    /\ \E known \in SUBSET Registered :
        /\ repair' = [pc |-> "objects", known |-> known, count |-> repair.count + 1]
        /\ overlooked' = (overlooked \/ known # Registered)
    /\ UNCHANGED <<call, object, rows, records, message, run, lost>>

\* Objects under the tenant's prefix that no version read refers to are deleted.
DeleteOrphanObject ==
    /\ repair.pc = "objects"
    /\ object' = (object /\ repair.known # {})
    /\ repair' = [repair EXCEPT !.pc = "projections"]
    /\ UNCHANGED <<call, rows, records, message, run, history>>

\* So are the records of versions that were not read, as far as a list of the
\* same limit shows them.
DeleteOrphanRecords ==
    /\ repair.pc = "projections"
    /\ records' \in {records} \cup (IF Mine \in repair.known THEN {} ELSE {"none"})
    /\ repair' = [repair EXCEPT !.pc = "idle", !.known = {}]
    /\ UNCHANGED <<call, object, rows, message, run, history>>

-----------------------------------------------------------------------------
SubmitStep(c) == PutObject(c) \/ RegisterDocument(c) \/ AddJob(c) \/ Publish(c)

Work == \/ MarkRunning \/ MarkIngesting \/ StartTask \/ StageWorks \/ StageFails
        \/ SucceedTask \/ Activate \/ ActivateFails \/ Finish
        \/ FailTask \/ FailJob \/ FailVersion
        \/ DatabaseFails \/ FinishFails \/ RecordingFails

Reconcile == ReadRows \/ DeleteOrphanObject \/ DeleteOrphanRecords

UploadNext ==
    \/ \E c \in Submits : LookUpJob(c) \/ SubmitStep(c) \/ RequestFails(c)
    \/ Deliver \/ Exhaust \/ LoadFails \/ ResultExpires \/ WorkerDies \/ JobTimeout
    \/ Work
    \/ Reconcile

\* A request that has begun goes on; workers poll the queue and an event loop
\* runs what is runnable.  No client has to come back.
Fairness == /\ \A c \in Submits : WF_uploadVars(SubmitStep(c))
            /\ WF_uploadVars(Work) /\ WF_uploadVars(Deliver \/ Exhaust)

UploadSpec == UploadInit /\ [][UploadNext]_uploadVars /\ Fairness

-----------------------------------------------------------------------------
(* Properties.                                                               *)

\* The shape of the rows and of the local state.
UploadTypeOK ==
    /\ call \in [Submits -> CallPhase]
    /\ object \in BOOLEAN
    /\ version \in [Submits -> {"absent", "registered", "ingesting", "ready", "failed"}]
    /\ current \subseteq Submits
    /\ job \in [document : Submits \cup {NoJob},
                status : {"pending", "running", "succeeded", "failed"}]
    /\ task \in [Stages -> {"pending", "running", "succeeded", "failed", "refused"}]
    /\ records \in {"none", "inactive", "active"}
    /\ message \in [state : {"none", "queued", "orphaned", "running", "answered"},
                    tries : 0..MaxTries]
    /\ run \in [pc : RunPhase, stage : Stages,
                job : {"pending", "running", "succeeded", "failed"},
                version : {"absent", "registered", "ingesting", "ready", "failed"},
                retryable : BOOLEAN]
    /\ repair \in [pc : {"idle", "objects", "projections"}, known : SUBSET Submits,
                   count : 0..Repairs]
    /\ lost \in BOOLEAN /\ overlooked \in BOOLEAN

\* However many calls carry the key, one document is ingested: one that a
\* crashed or beaten call left behind is never built or served.
StrayIsNeverBuilt ==
    \A c \in Submits : c # job.document => /\ version[c] \in {"absent", "registered"}
                                           /\ c \notin current

\* A served upload is whole, whatever is delivered twice, and stays so: its
\* version is ready, and its records are active and its source stored unless a
\* reconciliation overlooked a row: one registered after the rows were read, or
\* one the full list left out.
ServedIsWhole ==
    current # {} => /\ \A c \in current : version[c] = "ready"
                    /\ job.status = "succeeded"
                    /\ \A s \in Stages : task[s] = "succeeded"
                    /\ overlooked \/ (records = "active" /\ object)

\* An upload that was acknowledged is concluded, although the call that
\* committed the job died before it reached the queue and whatever step of its
\* run the database fails.  Excluded (lost): a run that was killed, and a
\* database that fails the load, the last save of the run, or the recording of
\* a failure before the job is saved.
AcknowledgedIsConcluded ==
    \A c \in Submits : call[c] = "acknowledged"
        ~> job.status \in {"succeeded", "failed"} \/ lost
=============================================================================
