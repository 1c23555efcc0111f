-------------------------- MODULE IngestionPipeline --------------------------
(***************************************************************************)
(* One ingestion job of a lifecycle operation (update or reparse): the     *)
(* queue message, the worker's run through parse, chunk, embed and index,  *)
(* publication, the recording of failures, retries and redeliveries, and   *)
(* the cancel API.                                                         *)
(*                                                                         *)
(* Every save is its own transaction and every row is saved as it was      *)
(* read, so a run is a sequence of steps between which the process may     *)
(* die, the job timeout may strike and a cancel request may be stored.     *)
(* The database may fail every one of them.                                *)
(* ARQ delivers a message to one worker at a time; job_try counts the      *)
(* deliveries and bounds them.                                             *)
(***************************************************************************)
EXTENDS Integers

CONSTANTS
    MaxTries,            \* worker.max_tries, also RetryPolicy.max_attempts
    ConcurrencyAttempts  \* RetryPolicy.concurrency_attempts

ASSUME TriesAssumption == /\ MaxTries \in Nat \ {0}
                          /\ ConcurrencyAttempts \in 1..MaxTries

VARIABLES
    job,       \* IngestionJob row: status and progress
    task,      \* IngestionTask rows, one per stage; "refused" failed for good
    version,   \* status of the DocumentVersion being built
    op,        \* LifecycleOperation row: status and progress
    document,  \* the Document row against the operation's expected revision
    records,   \* the version's records in the search index
    published, \* complete_ingestion has committed
    message,   \* the ARQ job: where it is, and its job_try
    run,       \* the worker's local state
    request,   \* the cancel API's local state
    stored,    \* history: a cancel was stored while the run still had a check ahead
    accepted,  \* history: one was stored, moreover, outside _progress's read and save
    lost,      \* history: no handler could conclude the job (see HandledIsConcluded)
    faults     \* history: what went wrong, apart from transient failures of a service

rows    == <<job, task, version, op>>
history == <<stored, accepted, lost, faults>>
vars    == <<rows, document, records, published, message, run, request, history>>

Stages    == 1..4   \* parse, chunk, embed, index
Publishing == 5     \* the stage counter once the candidate is complete
Whole     == 4      \* progress 1.0; a stage is worth a quarter

JobStatus  == {"pending", "running", "succeeded", "failed"}
TaskStatus == {"pending", "running", "succeeded", "failed", "refused"}
VersionStatus == {"registered", "ingesting", "ready", "failed", "superseded"}
OpStatus   == {"pending", "cancel_requested", "succeeded"}
Causes     == {"none", "transient", "permanent", "conflict", "deleted", "cancelled",
               "internal"}
Phase == {"idle", "begin", "register", "check", "start", "work", "succeed",
          "job_progress", "op_read", "op_save", "ready", "load", "validate",
          "promote", "commit", "retire", "finish",
          "fail_task", "fail_job", "fail_version", "fail_op"}

Fresh == [status |-> "pending", progress |-> 0]
Idle  == [pc |-> "idle", stage |-> 1, job |-> Fresh, version |-> "registered",
          op |-> Fresh, cause |-> "none"]

Init ==
    /\ job = Fresh /\ op = Fresh
    /\ task = [s \in Stages |-> "pending"]
    /\ version = "registered"
    /\ document = "expected"
    /\ records = "none"
    /\ published = FALSE
    /\ message = [state |-> "queued", tries |-> 0]
    /\ run = Idle
    /\ request = [pc |-> "idle", op |-> Fresh]
    /\ stored = FALSE /\ accepted = FALSE /\ lost = FALSE /\ faults = {}

At(phase)   == run.pc = phase
Goto(phase) == run' = [run EXCEPT !.pc = phase]
Raise(cause) == run' = [run EXCEPT !.pc = "fail_task", !.cause = cause]
Fault(cause) == /\ Raise(cause)
                /\ faults' = IF cause = "transient" THEN faults ELSE faults \cup {"other"}
Leave(state) == run' = Idle /\ message' = [message EXCEPT !.state = state]

-----------------------------------------------------------------------------
(* The queue.                                                                *)

Waiting == message.state \in {"queued", "orphaned"}

\* A run starts from the job and version it loads; a job that already succeeded
\* is left as it is.
Receive(tries) ==
    /\ message' = [state |-> IF job.status = "succeeded" THEN "gone" ELSE "running",
                   tries |-> tries]
    /\ run' = IF job.status = "succeeded" THEN Idle
              ELSE [Idle EXCEPT !.pc = "begin", !.job = job, !.version = version]
    /\ UNCHANGED <<rows, document, records, published, request, history>>

\* Mutant: nothing bounds job_try.
DeliverAlways == Waiting /\ Receive(message.tries + 1)

\* Mutant: the attempt is the one the envelope was made with.
DeliverFirstAttempt == Waiting /\ message.tries < MaxTries /\ Receive(1)

\* The message is handed to a worker.
Deliver == Waiting /\ message.tries < MaxTries /\ Receive(message.tries + 1)

\* job_try would exceed max_tries: ARQ gives the job up without calling it.
Exhaust ==
    /\ Waiting /\ message.tries = MaxTries
    /\ message' = [message EXCEPT !.state = "gone"]
    /\ lost' = (lost \/ message.state = "orphaned")
    /\ UNCHANGED <<rows, document, records, published, run, request, stored, accepted,
                   faults>>

\* _load precedes the try: an error of the database there is no
\* RetryableIngestionError, so ARQ ends the message.
LoadFails ==
    /\ Waiting /\ message.tries < MaxTries
    /\ message' = [state |-> "gone", tries |-> message.tries + 1]
    /\ lost' = TRUE
    /\ faults' = faults \cup {"database"}
    /\ UNCHANGED <<rows, document, records, published, run, request, stored, accepted>>

\* The worker dies, or is stopped: ARQ delivers the message again.
Crash ==
    /\ ~At("idle")
    /\ Leave("orphaned")
    /\ faults' = faults \cup {"other"}
    /\ UNCHANGED <<rows, document, records, published, request, stored, accepted, lost>>

\* job_timeout cancels the coroutine; "except Exception" does not see that and
\* ARQ does not retry it.
JobTimeout ==
    /\ ~At("idle")
    /\ Leave("gone")
    /\ lost' = TRUE
    /\ UNCHANGED <<rows, document, records, published, request, stored, accepted, faults>>

-----------------------------------------------------------------------------
(* The database fails a read or a save of handle.  The error is classified   *)
(* by its type: a connection that fails is transient, any other unknown.     *)

Breaks(status) ==
    /\ \E cause \in {"transient", "internal"} :
          run' = [run EXCEPT !.pc = "fail_task", !.cause = cause, !.job.status = status]
    /\ faults' = faults \cup {"database"}

\* A read or a save fails, or the answer to the save before it is lost; the
\* job is copied as running before that is saved.
DatabaseFails ==
    /\ run.pc \in {"begin", "register", "check", "start", "work", "succeed",
                  "job_progress", "op_read", "op_save", "ready", "load", "commit", "retire"}
    /\ Breaks(IF At("begin") /\ run.job.status = "pending" THEN "running"
              ELSE run.job.status)
    /\ UNCHANGED <<rows, document, records, published, message, request, stored, accepted, lost>>

\* The last save of all fails, before or after it is committed: the copy of
\* the job has succeeded.
FinishFails ==
    /\ At("finish") /\ run.job.status = "running"
    /\ job' \in {job, [status |-> "succeeded", progress |-> Whole]}
    /\ Breaks("succeeded")
    /\ UNCHANGED <<task, version, op, document, records, published, message, request,
                   stored, accepted, lost>>

-----------------------------------------------------------------------------
(* handle, up to the candidate.                                              *)

MarkRunning ==
    /\ At("begin")
    /\ IF run.job.status = "pending"
       THEN /\ job' = [run.job EXCEPT !.status = "running"]
            /\ run' = [run EXCEPT !.pc = "register", !.job.status = "running"]
       ELSE job' = job /\ Goto("register")
    /\ UNCHANGED <<task, version, op, document, records, published, message, request,
                   history>>

MarkIngesting ==
    /\ At("register")
    /\ IF run.version = "registered"
       THEN /\ version' = "ingesting"
            /\ run' = [run EXCEPT !.pc = "check", !.version = "ingesting"]
       ELSE version' = version /\ Goto("check")
    /\ UNCHANGED <<job, task, op, document, records, published, message, request,
                   history>>

\* Mutant: publication is not preceded by a check.
RequireActiveForStages ==
    /\ At("check")
    /\ IF op.status = "cancel_requested" /\ run.stage # Publishing
       THEN Fault("cancelled")
       ELSE /\ Goto(IF run.stage = Publishing THEN "load" ELSE "start")
            /\ faults' = faults
    /\ UNCHANGED <<rows, document, records, published, message, request, stored, accepted, lost>>

\* _require_lifecycle_active, before each stage and before publication.
RequireActive ==
    /\ At("check")
    /\ IF op.status = "cancel_requested"
       THEN Fault("cancelled")
       ELSE /\ Goto(IF run.stage = Publishing THEN "load" ELSE "start")
            /\ faults' = faults
    /\ UNCHANGED <<rows, document, records, published, message, request, stored, accepted, lost>>

\* _start_task: a task whose failure was recorded as final refuses to restart.
StartTask ==
    /\ At("start")
    /\ IF task[run.stage] = "refused"
       THEN Raise("internal") /\ task' = task
       ELSE /\ task' = [task EXCEPT ![run.stage] =
                           IF @ = "succeeded" THEN @ ELSE "running"]
            /\ Goto("work")
    /\ UNCHANGED <<job, version, op, document, records, published, message, request,
                   history>>

\* The parser, chunker or embedding answers, or the records are upserted, not
\* active.  A stage that succeeded in an earlier delivery is computed again.
StageWorks ==
    /\ At("work")
    /\ records' = IF run.stage = 4 THEN "inactive" ELSE records
    /\ Goto("succeed")
    /\ UNCHANGED <<rows, document, published, message, request, history>>

\* A service times out, or refuses the content; a failed upsert may have
\* written records.
StageFails ==
    /\ At("work")
    /\ \E cause \in {"transient", "permanent"} : Fault(cause)
    /\ records' \in {records} \cup (IF run.stage = 4 THEN {"inactive"} ELSE {})
    /\ UNCHANGED <<rows, document, published, message, request, stored, accepted, lost>>

SucceedTask ==
    /\ At("succeed")
    /\ task' = [task EXCEPT ![run.stage] = "succeeded"]
    /\ Goto(IF run.stage = 4 THEN "ready" ELSE "job_progress")
    /\ UNCHANGED <<job, version, op, document, records, published, message, request,
                   history>>

\* _progress: the job is saved with the stage's progress, whatever it had.
SaveJobProgress ==
    /\ At("job_progress")
    /\ job' = [run.job EXCEPT !.progress = run.stage]
    /\ Goto("op_read")
    /\ UNCHANGED <<task, version, op, document, records, published, message, request,
                   history>>

\* Mutant: progress may decrease.
ReadAnyProgress ==
    /\ At("op_read")
    /\ run' = [run EXCEPT !.pc = "op_save", !.op = op]
    /\ UNCHANGED <<rows, document, records, published, message, request, history>>

\* _progress, update_progress: the operation is read, and its progress may not
\* decrease.
ReadProgress ==
    /\ At("op_read")
    /\ IF run.stage < op.progress
       THEN Raise("internal")
       ELSE run' = [run EXCEPT !.pc = "op_save", !.op = op]
    /\ UNCHANGED <<rows, document, records, published, message, request, history>>

\* _progress: the operation is saved as it was read, its status included.
SaveProgress ==
    /\ At("op_save")
    /\ op' = [run.op EXCEPT !.progress = run.stage]
    /\ run' = [run EXCEPT !.pc = "check", !.stage = @ + 1, !.job.progress = run.stage]
    /\ UNCHANGED <<job, task, version, document, records, published, message, request,
                   history>>

\* Mutant: the version's transition is not checked.
SaveReadyAnyway ==
    /\ At("ready")
    /\ version' = "ready"
    /\ run' = [run EXCEPT !.pc = "check", !.stage = Publishing]
    /\ UNCHANGED <<job, task, op, document, records, published, message, request,
                   history>>

SaveReady ==
    /\ At("ready")
    /\ IF run.version \in {"ingesting", "ready", "superseded"}
       THEN /\ version' = "ready"
            /\ run' = [run EXCEPT !.pc = "check", !.stage = Publishing]
       ELSE version' = version /\ Raise("internal")
    /\ UNCHANGED <<job, task, op, document, records, published, message, request,
                   history>>

-----------------------------------------------------------------------------
(* complete_ingestion, and the end of handle.                                *)

LoadPublication ==
    /\ At("load")
    /\ CASE op.status = "succeeded"  -> Goto("finish") /\ faults' = faults
         [] op.status # "succeeded" /\ document = "deleted" -> Fault("deleted")
         [] op.status # "succeeded" /\ document = "moved"   -> Fault("conflict")
         [] OTHER -> /\ run' = [run EXCEPT !.pc = "validate", !.op = op]
                     /\ faults' = faults
    /\ UNCHANGED <<rows, document, records, published, message, request, stored, accepted, lost>>

Validate ==
    /\ At("validate")
    /\ IF records = "none" THEN Raise("internal") ELSE Goto("promote")
    /\ UNCHANGED <<rows, document, records, published, message, request, history>>

Promote ==
    /\ At("promote")
    /\ records' = "active"
    /\ Goto("commit")
    /\ UNCHANGED <<rows, document, published, message, request, history>>

\* The document is compared and swapped; the operation is saved as it was read
\* at the load, completed.
Commit ==
    /\ At("commit")
    /\ IF document = "expected"
       THEN /\ document' = "moved" /\ published' = TRUE
            /\ version' = "ready"
            /\ op' = [status |-> "succeeded", progress |-> Whole]
            /\ Goto("retire")
            /\ faults' = faults
       ELSE /\ Fault("conflict")
            /\ UNCHANGED <<document, published, version, op>>
    /\ UNCHANGED <<job, task, records, message, request, stored, accepted, lost>>

Retire ==
    /\ At("retire")
    /\ Goto("finish")
    /\ UNCHANGED <<rows, document, records, published, message, request, history>>

\* The search index fails one of the publisher's calls.
PublisherFails ==
    /\ run.pc \in {"validate", "promote", "retire"}
    /\ \E cause \in {"transient", "permanent"} : Fault(cause)
    /\ UNCHANGED <<rows, document, records, published, message, request, stored, accepted, lost>>

FinishJob ==
    /\ At("finish")
    /\ IF run.job.status = "running"
       THEN /\ job' = [status |-> "succeeded", progress |-> Whole]
            /\ Leave("gone")
       ELSE /\ Raise("internal")
            /\ UNCHANGED <<job, message>>
    /\ UNCHANGED <<task, version, op, document, records, published, request, history>>

-----------------------------------------------------------------------------
(* _record_failure.                                                          *)

\* Mutant: the last attempt asks for another one.
MayRetryOnceMore(cause) == \/ cause = "transient" /\ message.tries <= MaxTries
                           \/ cause = "conflict" /\ message.tries <= ConcurrencyAttempts

\* classify_failure and may_retry.
MayRetry(cause) == \/ cause = "transient" /\ message.tries < MaxTries
                   \/ cause = "conflict" /\ message.tries < ConcurrencyAttempts

\* The task that was running is failed.
FailedTasks ==
    [s \in Stages |-> IF task[s] # "running" THEN task[s]
                      ELSE IF MayRetry(run.cause) THEN "failed" ELSE "refused"]

\* A retryable error goes back to the queue, any other goes on to the job it
\* has made run; a copy that has succeeded is not recorded as failed.
FailTask ==
    /\ At("fail_task")
    /\ task' = FailedTasks
    /\ IF MayRetry(run.cause) THEN Leave("queued") /\ lost' = lost
       ELSE IF run.job.status = "running"
            THEN Goto("fail_job") /\ message' = message /\ lost' = lost
       ELSE Leave("gone") /\ lost' = (lost \/ run.job.status = "succeeded")
    /\ UNCHANGED <<job, version, op, document, records, published, request, stored, accepted,
                   faults>>

FailJob ==
    /\ At("fail_job")
    /\ job' = [run.job EXCEPT !.status = "failed"]
    /\ Goto("fail_version")
    /\ UNCHANGED <<task, version, op, document, records, published, message, request,
                   history>>

FailVersion ==
    /\ At("fail_version")
    /\ version' = IF version = "ingesting" THEN "failed" ELSE version
    /\ Goto("fail_op")
    /\ UNCHANGED <<job, task, op, document, records, published, message, request,
                   history>>

\* The operation is copied with a bare string for its status; the repository
\* asks that status for its value, raises, and the transaction is rolled back.
FailOperation ==
    /\ At("fail_op")
    /\ Leave("gone")
    /\ UNCHANGED <<rows, document, records, published, request, history>>

\* The database fails while a failure is recorded, with or without effect:
\* that error replaces the first one, is not retried, and ends the message.
RecordingFails ==
    /\ run.pc \in {"fail_task", "fail_job", "fail_version"}
    /\ task' \in {task} \cup (IF At("fail_task") THEN {FailedTasks} ELSE {})
    /\ Leave("gone")
    /\ lost' = (lost \/ ~At("fail_version"))
    /\ faults' = faults \cup {"database"}
    /\ UNCHANGED <<job, version, op, document, records, published, request, stored, accepted>>

-----------------------------------------------------------------------------
(* The other actors.                                                         *)

\* LifecycleControlService.cancel: the operation is read, and refused when it
\* is terminal.
ReadCancel ==
    /\ request.pc = "idle"
    /\ op.status # "succeeded"
    /\ request' = [pc |-> "read", op |-> op]
    /\ UNCHANGED <<rows, document, records, published, message, run, history>>

\* It is saved, as it was read, with the request.  A run looks at the operation
\* again before it publishes unless it has passed its last check; one that is
\* about to save a copy of its own overwrites the request first.
SaveCancel ==
    /\ request.pc = "read"
    /\ op' = [request.op EXCEPT !.status = "cancel_requested"]
    /\ request' = [pc |-> "idle", op |-> Fresh]
    /\ LET checked == ~published /\ run.pc \notin {"load", "validate", "promote", "commit"}
       IN  /\ stored' = (stored \/ checked)
           /\ accepted' = (accepted \/ (checked /\ ~At("op_save")))
    /\ UNCHANGED <<job, task, version, document, records, published, message, run,
                   lost, faults>>

\* Another command publishes over the document, or deletes it.
Supersede ==
    /\ document # "deleted"
    /\ document' = "moved"
    /\ version' = IF published /\ version = "ready" THEN "superseded" ELSE version
    /\ UNCHANGED <<job, task, op, records, published, message, run, request, history>>

DeleteDocument ==
    /\ document # "deleted"
    /\ document' = "deleted"
    /\ UNCHANGED <<rows, records, published, message, run, request, history>>

-----------------------------------------------------------------------------
Work ==
    \/ MarkRunning   \/ MarkIngesting \/ RequireActive \/ StartTask
    \/ StageWorks    \/ StageFails    \/ SucceedTask
    \/ SaveJobProgress \/ ReadProgress \/ SaveProgress \/ SaveReady
    \/ LoadPublication \/ Validate    \/ Promote \/ Commit \/ Retire
    \/ PublisherFails  \/ FinishJob
    \/ FailTask \/ FailJob \/ FailVersion \/ FailOperation
    \/ DatabaseFails \/ FinishFails \/ RecordingFails

Queue == Deliver \/ Exhaust \/ LoadFails \/ Crash \/ JobTimeout

Others == ReadCancel \/ SaveCancel \/ Supersede \/ DeleteDocument

Next == Work \/ Queue \/ Others

\* Workers poll the queue and an event loop runs what is runnable; no other
\* actor has to act.
Fairness == WF_vars(Work) /\ WF_vars(Deliver \/ Exhaust)

Spec == Init /\ [][Next]_vars /\ Fairness

-----------------------------------------------------------------------------
(* Properties.                                                               *)

\* The shape of the rows and of the local state.
TypeOK ==
    /\ job \in [status : JobStatus, progress : 0..Whole]
    /\ task \in [Stages -> TaskStatus]
    /\ version \in VersionStatus
    /\ op \in [status : OpStatus, progress : 0..Whole]
    /\ document \in {"expected", "moved", "deleted"}
    /\ records \in {"none", "inactive", "active"}
    /\ published \in BOOLEAN
    /\ message \in [state : {"queued", "orphaned", "running", "gone"}, tries : 0..MaxTries]
    /\ run \in [pc : Phase, stage : 1..Publishing,
                job : [status : JobStatus, progress : 0..Whole],
                version : VersionStatus,
                op : [status : OpStatus, progress : 0..Whole], cause : Causes]
    /\ request \in [pc : {"idle", "read"}, op : [status : OpStatus, progress : 0..Whole]]
    /\ stored \in BOOLEAN /\ accepted \in BOOLEAN /\ lost \in BOOLEAN
    /\ faults \subseteq {"database", "other"}

\* What was published stays published whole: every stage has succeeded, the
\* version is not taken back, and no redelivery of the message overwrites its
\* active records with inactive ones.
PublishedStaysWhole ==
    published => /\ \A s \in Stages : task[s] = "succeeded"
                 /\ version \in {"ready", "superseded"}
                 /\ records = "active"

\* A version recorded as failed never enters service, although a crash before
\* the recording ends delivers its message, and runs its stages, once more.
FailedIsFinal == [][version = "failed" => version' = "failed" /\ published' = published]_vars

\* A cancel request stored while the run still has a check ahead of it, and is
\* not between _progress's read and save of the operation, is honoured:
\* nothing is published, in this delivery or in a later one.
AcceptedCancelHolds == accepted => ~published

\* Documented: a task not yet activated checks for cancel_requested at every
\* boundary.  A request stored between _progress's read and save of the
\* operation is overwritten before the next boundary, and the job publishes.
StoredCancelHolds == stored => ~published

\* When a handler ends the message, the job has been concluded: no retry is
\* asked for that the queue would not grant, and a database that fails a step
\* of handle leaves a failed job.  Excluded (lost): a run that was killed, and
\* a database that fails _load, the last save of handle, or _record_failure
\* before the job is saved; each of these leaves the job as it was.
HandledIsConcluded ==
    message.state = "gone" /\ ~lost => job.status \in {"succeeded", "failed"}

\* Whatever fails, the database included, and however often the worker dies,
\* the message leaves the queue: retries and redeliveries are bounded.
EventuallySettled == <>[](message.state = "gone")

\* Documented: retries that run out end in a persistent dead letter.  They do
\* not: the status _record_failure writes cannot be saved.
FailureIsDeadLettered ==
    (/\ message.state = "gone" /\ ~lost /\ "database" \notin faults
     /\ job.status = "failed" /\ ~published)
        => op.status \in {"cancelled", "dead_letter"}

\* Documented: timeouts and lost connections are retried, six attempts in all.
\* From the second stage on they are not: the retry starts at the first stage,
\* whose progress is below what the operation has recorded, and fails for good.
TransientIsRetried ==
    job.status = "failed" /\ faults = {} => message.tries = MaxTries
=============================================================================
