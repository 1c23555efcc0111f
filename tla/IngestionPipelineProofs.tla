----------------------- MODULE IngestionPipelineProofs -----------------------
(***************************************************************************)
(* What one ingestion job promises, for any number of tries: publication   *)
(* is whole, an accepted cancel holds, a failed version stays failed and a *)
(* message that leaves the queue leaves its job concluded.                 *)
(***************************************************************************)
EXTENDS IngestionPipeline, TLAPS

Rows == [status : OpStatus, progress : 0..Whole]
Jobs == [status : JobStatus, progress : 0..Whole]
Runs == [pc : Phase, stage : 1..Publishing, job : Jobs, version : VersionStatus,
         op : Rows, cause : Causes]
Messages == [state : {"queued", "orphaned", "running", "gone"}, tries : 0..MaxTries]

PastCheck == {"load", "validate", "promote", "commit"}
Recording == {"fail_task", "fail_job", "fail_version", "fail_op"}
InStage   == {"start", "work", "succeed", "job_progress", "op_read", "op_save"}

\* The queue: a run holds the message, and a retry is asked for only while the
\* queue would grant it.
QueueAgrees ==
    /\ run.pc # "idle" <=> message.state = "running"
    /\ message.state = "queued" => message.tries < MaxTries
    /\ message.tries \in 0..MaxTries

\* The run's copy of the job has the status of the row until it records a
\* failure; from then on a copy that failed is that of a job that failed.
JobAgrees ==
    /\ run.pc \notin Recording \cup {"idle"}
          => job.status = run.job.status /\ job.status # "succeeded"
    /\ run.pc \notin Recording \cup {"idle", "begin"} => job.status \in {"running", "failed"}
    /\ run.pc = "fail_task" /\ run.job.status = "failed" => job.status = "failed"
    /\ run.pc = "fail_task" => run.job.status # "pending"
    /\ run.pc \in {"fail_version", "fail_op"} => job.status = "failed"

\* Where a run is, and which stages it has behind it.
StagesDone ==
    /\ run.pc \in {"begin", "register"} => run.stage = 1
    /\ run.pc \in InStage => run.stage \in Stages
    /\ run.pc \in {"job_progress", "op_read", "op_save"} => run.stage # 4
    /\ run.pc \in InStage \cup {"check"} =>
          \A s \in Stages : s < run.stage => task[s] = "succeeded"
    /\ run.pc \in {"job_progress", "op_read", "op_save"} => task[run.stage] = "succeeded"
    /\ run.pc \in PastCheck \cup {"ready"} => \A s \in Stages : task[s] = "succeeded"
    /\ run.pc = "commit" => records = "active"

\* Copies of the operation are copies of one that was not completed.
CopiesAreOpen ==
    /\ op.status = "succeeded" => published /\ op.progress = Whole
    /\ run.pc = "op_save" => run.op.status # "succeeded"
    /\ request.pc = "read" => request.op.status # "succeeded"

\* A redelivery after publication gets no further than the first stage, or a
\* cancel request that was stored blindly.
RedeliveryIsHarmless ==
    published =>
        /\ op.status \in {"succeeded", "cancel_requested"}
        /\ run.pc \notin PastCheck \cup {"ready"}
        /\ run.pc \in InStage => run.stage = 1
        /\ run.pc = "check" => run.stage = 1 \/ op.status = "cancel_requested"
        /\ run.pc = "op_save" => run.op.status = "cancel_requested"
        /\ run.pc \in {"begin", "register"} => run.version \in {"ready", "superseded"}

\* A cancel request that was accepted is there whenever a run looks again.
CancelIsSeen ==
    accepted => /\ ~published /\ op.status = "cancel_requested"
                /\ run.pc \notin PastCheck
                /\ run.pc = "op_save" => run.op.status = "cancel_requested"

\* A run of a failed version knows that it is one.
FailureIsKnown ==
    /\ version = "failed" /\ run.pc \notin {"idle", "fail_op"} => run.version = "failed"
    /\ run.pc \in PastCheck \/ (run.pc = "check" /\ run.stage = Publishing)
          => run.version # "failed"

PipelineInv ==
    /\ TypeOK /\ QueueAgrees /\ JobAgrees /\ StagesDone /\ CopiesAreOpen
    /\ RedeliveryIsHarmless /\ CancelIsSeen /\ FailureIsKnown
    /\ PublishedStaysWhole /\ HandledIsConcluded

-----------------------------------------------------------------------------
(* Shapes.                                                                   *)

SameCopies == run'.job = run.job /\ run'.version = run.version /\ run'.op = run.op

\* What a step that only moves on leaves of the run.
LEMMA Moves ==
  ASSUME run \in Runs, NEW pc \in Phase, Goto(pc)
  PROVE  run' \in Runs /\ run'.pc = pc /\ run'.stage = run.stage /\ SameCopies
BY DEF Goto, Runs, SameCopies

\* An exception ends the work on the stage and leaves the copies of the run alone.
LEMMA Raises ==
  ASSUME run \in Runs, NEW cause \in Causes, Raise(cause)
  PROVE  run' \in Runs /\ run'.pc = "fail_task" /\ run'.stage = run.stage /\ SameCopies
<1>1. "fail_task" \in Phase
  BY DEF Phase
<1> QED
  BY <1>1 DEF Raise, Runs, SameCopies

\* A step of the run keeps its copies.
LEMMA Advances ==
  ASSUME run \in Runs, NEW pc \in Phase, NEW n \in 1..Publishing,
         run' = [run EXCEPT !.pc = pc, !.stage = n]
  PROVE  run' \in Runs /\ run'.pc = pc /\ run'.stage = n /\ SameCopies
BY DEF Runs, SameCopies

\* A run takes a fresh copy of the operation.
LEMMA Copies ==
  ASSUME run \in Runs, NEW pc \in Phase, NEW r \in Rows,
         run' = [run EXCEPT !.pc = pc, !.op = r]
  PROVE  /\ run' \in Runs /\ run'.pc = pc /\ run'.stage = run.stage /\ run'.op = r
         /\ run'.job = run.job /\ run'.version = run.version
BY DEF Runs

\* A run that leaves drops its copies and settles its message.
LEMMA Leaves ==
  ASSUME message \in Messages, NEW st \in {"queued", "orphaned", "gone"}, Leave(st)
  PROVE  /\ run' \in Runs /\ run'.pc = "idle" /\ message' \in Messages
         /\ message'.state = st /\ message'.tries = message.tries
<1>1. Idle \in Runs /\ Idle.pc = "idle"
  BY DEF Idle, Fresh, Runs, Phase, Publishing, Jobs, Rows, JobStatus, OpStatus, VersionStatus,
     Causes, Whole
<1> QED
  BY <1>1 DEF Leave, Messages

\* The rows' and the messages' types.
LEMMA Types ==
  ASSUME TypeOK
  PROVE  /\ job \in Jobs /\ job.status \in JobStatus /\ task \in [Stages -> TaskStatus]
         /\ version \in VersionStatus /\ op \in Rows /\ op.status \in OpStatus
         /\ message \in Messages /\ message.tries \in 0..MaxTries
         /\ run \in Runs /\ run.stage \in 1..Publishing /\ run.job \in Jobs /\ run.op \in Rows
         /\ run.version \in VersionStatus /\ run.cause \in Causes
         /\ run.job.status \in JobStatus /\ run.op.status \in OpStatus
         /\ request \in [pc : {"idle", "read"}, op : Rows]
         /\ request.op \in Rows /\ request.op.status \in OpStatus
         /\ records \in {"none", "inactive", "active"} /\ faults \subseteq {"database", "other"}
<1>1. /\ job \in Jobs /\ task \in [Stages -> TaskStatus] /\ version \in VersionStatus
      /\ op \in Rows /\ message \in Messages /\ run \in Runs
      /\ request \in [pc : {"idle", "read"}, op : Rows]
      /\ records \in {"none", "inactive", "active"} /\ faults \subseteq {"database", "other"}
  BY DEF TypeOK, Jobs, Rows, Messages, Runs
<1>2. run.stage \in 1..Publishing /\ run.job \in Jobs /\ run.op \in Rows
      /\ run.version \in VersionStatus /\ run.cause \in Causes
  BY <1>1 DEF Runs
<1> QED
  BY <1>1, <1>2 DEF Jobs, Rows, Messages

\* What a step has to show of the types.
LEMMA TypesHold ==
  ASSUME job' \in Jobs, task' \in [Stages -> TaskStatus], version' \in VersionStatus,
         op' \in Rows, document' \in {"expected", "moved", "deleted"},
         records' \in {"none", "inactive", "active"}, published' \in BOOLEAN,
         message' \in Messages, run' \in Runs,
         request' \in [pc : {"idle", "read"}, op : Rows],
         stored' \in BOOLEAN, accepted' \in BOOLEAN, lost' \in BOOLEAN, faults' \subseteq {"database", "other"}
  PROVE  TypeOK'
BY DEF TypeOK, Jobs, Rows, Messages, Runs

-----------------------------------------------------------------------------
\* A job just enqueued.
LEMMA InitPipeline ==
  ASSUME Init
  PROVE  PipelineInv
<1>1. /\ Idle \in Runs /\ Idle.pc = "idle" /\ Fresh \in Jobs /\ Fresh \in Rows
      /\ Fresh.status = "pending"
  BY DEF Idle, Fresh, Runs, Phase, Publishing, Jobs, Rows, JobStatus, OpStatus, VersionStatus,
     Causes, Whole
<1>2. message \in Messages /\ message.state = "queued" /\ message.tries < MaxTries
  BY TriesAssumption DEF Init, Messages
<1>3. /\ task \in [Stages -> TaskStatus] /\ version \in VersionStatus
      /\ request \in [pc : {"idle", "read"}, op : Rows] /\ request.pc = "idle"
  BY <1>1 DEF Init, TaskStatus, VersionStatus
<1>4. TypeOK
  BY <1>1, <1>2, <1>3 DEF Init, TypeOK, Jobs, Rows, Messages, Runs
<1> QED
  BY <1>1, <1>2, <1>3, <1>4 DEF Init, PipelineInv, QueueAgrees, JobAgrees, Recording, StagesDone, InStage,
     PastCheck, CopiesAreOpen, RedeliveryIsHarmless, CancelIsSeen, FailureIsKnown,
     PublishedStaysWhole, HandledIsConcluded, Messages

-----------------------------------------------------------------------------
\* Delivery, and what a run reads and saves before its first stage.
LEMMA BeginSteps ==
  ASSUME PipelineInv, MarkRunning \/ MarkIngesting \/ RequireActive \/ StartTask
  PROVE  PipelineInv'
<1> USE DEF PipelineInv
<1>0. /\ job \in Jobs /\ job.status \in JobStatus /\ task \in [Stages -> TaskStatus]
      /\ version \in VersionStatus /\ op \in Rows /\ op.status \in OpStatus
      /\ message \in Messages /\ message.tries \in 0..MaxTries
      /\ run \in Runs /\ run.stage \in 1..Publishing /\ run.job \in Jobs /\ run.op \in Rows
      /\ run.version \in VersionStatus /\ run.cause \in Causes
      /\ run.job.status \in JobStatus /\ run.op.status \in OpStatus
      /\ request \in [pc : {"idle", "read"}, op : Rows]
      /\ request.op \in Rows /\ request.op.status \in OpStatus
      /\ records \in {"none", "inactive", "active"} /\ faults \subseteq {"database", "other"}
  BY Types
<1>1. CASE MarkRunning
  <2>1. UNCHANGED <<task, version, op, document, records, published, message, request, stored, accepted,
                    lost, faults>>
    BY <1>1 DEF MarkRunning, rows, history
  <2>2. /\ run.pc = "begin"
        /\ run' \in Runs /\ run'.pc = "register" /\ run'.stage = run.stage
        /\ run'.version = run.version /\ run'.op = run.op
        /\ job' \in Jobs /\ job'.status \in {"running", "failed"} /\ run'.job.status = job'.status
    <3>1. run.pc = "begin" /\ job.status = run.job.status /\ job.status # "succeeded"
      BY <1>1 DEF MarkRunning, At, JobAgrees, Recording
    <3>2. CASE run.job.status = "pending"
      <4>1. job' = [run.job EXCEPT !.status = "running"]
            /\ run' = [run EXCEPT !.pc = "register", !.job.status = "running"]
        BY <1>1, <3>2 DEF MarkRunning
      <4>2. job' \in Jobs /\ job'.status = "running"
        BY <1>0, <4>1 DEF Jobs, JobStatus
      <4>3. run' = [run EXCEPT !.pc = "register", !.job = job']
        BY <1>0, <4>1 DEF Runs
      <4>4. /\ run' \in Runs /\ run'.pc = "register" /\ run'.stage = run.stage
            /\ run'.version = run.version /\ run'.op = run.op /\ run'.job = job'
        BY <1>0, <4>2, <4>3 DEF Runs, Phase
      <4> QED
        BY <3>1, <4>2, <4>4
    <3>3. CASE run.job.status # "pending"
      <4>1. job' = job /\ Goto("register")
        BY <1>1, <3>3 DEF MarkRunning
      <4>2. run' \in Runs /\ run'.pc = "register" /\ run'.stage = run.stage /\ SameCopies
        BY <1>0, <4>1, Moves DEF Phase
      <4>3. job.status \in {"running", "failed"}
        BY <1>0, <3>1, <3>3 DEF JobStatus
      <4> QED
        BY <1>0, <3>1, <4>1, <4>2, <4>3 DEF SameCopies
    <3> QED
      BY <3>2, <3>3
  <2>3. TypeOK'
    BY <1>0, <2>1, <2>2, TypesHold DEF TypeOK
  <2> QED
    BY <1>0, <2>1, <2>2, <2>3 DEF QueueAgrees, JobAgrees, Recording, StagesDone, InStage, PastCheck,
     CopiesAreOpen, RedeliveryIsHarmless, CancelIsSeen, FailureIsKnown, PublishedStaysWhole,
     HandledIsConcluded, Stages, Publishing, history, SameCopies
<1>2. CASE MarkIngesting
  <2>1. UNCHANGED <<job, task, op, document, records, published, message, request, stored, accepted, lost,
                    faults>>
    BY <1>2 DEF MarkIngesting, rows, history
  <2>2. /\ run.pc = "register"
        /\ run' \in Runs /\ run'.pc = "check" /\ run'.stage = run.stage
        /\ run'.job = run.job /\ run'.op = run.op
        /\ \/ version' = version /\ run'.version = run.version
           \/ run.version = "registered" /\ version' = "ingesting" /\ run'.version = "ingesting"
    BY ZenonT(40), <1>0, <1>2 DEF MarkIngesting, At, Goto, Runs, VersionStatus, Phase
  <2>3. TypeOK'
    BY <1>0, <2>1, <2>2, TypesHold DEF TypeOK, VersionStatus
  <2> QED
    BY <1>0, <2>1, <2>2, <2>3 DEF QueueAgrees, JobAgrees, Recording, StagesDone, InStage, PastCheck,
     CopiesAreOpen, RedeliveryIsHarmless, CancelIsSeen, FailureIsKnown, PublishedStaysWhole,
     HandledIsConcluded, Stages, Publishing, history, SameCopies
<1>3. CASE RequireActive
  <2>1. UNCHANGED <<job, task, version, op, document, records, published, message, request,
                    stored, accepted, lost>>
    BY <1>3 DEF RequireActive, rows, history
  <2>2. /\ run.pc = "check"
        /\ run' \in Runs /\ run'.stage = run.stage /\ SameCopies
        /\ faults' \subseteq {"database", "other"}
        /\ \/ op.status = "cancel_requested" /\ run'.pc = "fail_task"
           \/ op.status # "cancel_requested" /\ run.stage = Publishing /\ run'.pc = "load"
           \/ op.status # "cancel_requested" /\ run.stage # Publishing /\ run'.pc = "start"
    BY <1>0, <1>3, Moves, Raises DEF RequireActive, At, Fault, Causes, Phase
  <2>3. TypeOK'
    BY <1>0, <2>1, <2>2, TypesHold DEF TypeOK
  <2> QED
    BY <1>0, <2>1, <2>2, <2>3 DEF QueueAgrees, JobAgrees, Recording, StagesDone, InStage, PastCheck,
     CopiesAreOpen, RedeliveryIsHarmless, CancelIsSeen, FailureIsKnown, PublishedStaysWhole,
     HandledIsConcluded, Stages, Publishing, history, SameCopies
<1>4. CASE StartTask
  <2>1. UNCHANGED <<job, version, op, document, records, published, message, request, stored, accepted,
                    lost, faults>>
    BY <1>4 DEF StartTask, rows, history
  <2>2. /\ run.pc = "start"
        /\ run' \in Runs /\ run'.stage = run.stage /\ SameCopies
        /\ run'.pc \in {"work", "fail_task"}
        /\ task' \in [Stages -> TaskStatus]
        /\ \A s \in Stages : task[s] = "succeeded" => task'[s] = "succeeded"
    BY <1>0, <1>4, Moves, Raises DEF StartTask, At, Causes, Phase, TaskStatus, StagesDone, InStage
  <2>3. TypeOK'
    BY <1>0, <2>1, <2>2, TypesHold DEF TypeOK
  <2> QED
    BY <1>0, <2>1, <2>2, <2>3 DEF QueueAgrees, JobAgrees, Recording, StagesDone, InStage, PastCheck,
     CopiesAreOpen, RedeliveryIsHarmless, CancelIsSeen, FailureIsKnown, PublishedStaysWhole,
     HandledIsConcluded, Stages, Publishing, history, SameCopies
<1> QED
  BY <1>1, <1>2, <1>3, <1>4

-----------------------------------------------------------------------------
\* The stages, and the saves of job, version and operation between them.
LEMMA StageSteps ==
  ASSUME PipelineInv, StageWorks \/ StageFails \/ SucceedTask \/ SaveJobProgress
                      \/ ReadProgress \/ SaveProgress \/ SaveReady
  PROVE  PipelineInv'
<1> USE DEF PipelineInv
<1>0. /\ job \in Jobs /\ job.status \in JobStatus /\ task \in [Stages -> TaskStatus]
      /\ version \in VersionStatus /\ op \in Rows /\ op.status \in OpStatus
      /\ message \in Messages /\ message.tries \in 0..MaxTries
      /\ run \in Runs /\ run.stage \in 1..Publishing /\ run.job \in Jobs /\ run.op \in Rows
      /\ run.version \in VersionStatus /\ run.cause \in Causes
      /\ run.job.status \in JobStatus /\ run.op.status \in OpStatus
      /\ request \in [pc : {"idle", "read"}, op : Rows]
      /\ request.op \in Rows /\ request.op.status \in OpStatus
      /\ records \in {"none", "inactive", "active"} /\ faults \subseteq {"database", "other"}
  BY Types
<1>1. CASE StageWorks
  <2>1. UNCHANGED <<job, task, version, op, document, published, message, request, stored, accepted, lost,
                    faults>>
    BY <1>1 DEF StageWorks, rows, history
  <2>2. /\ run.pc = "work"
        /\ run' \in Runs /\ run'.stage = run.stage /\ SameCopies
        /\ run'.pc = "succeed"
        /\ records' = IF run.stage = 4 THEN "inactive" ELSE records
    BY <1>0, <1>1, Moves DEF StageWorks, At, Phase
  <2>3. TypeOK'
    BY <1>0, <2>1, <2>2, TypesHold DEF TypeOK
  <2> QED
    BY <1>0, <2>1, <2>2, <2>3 DEF QueueAgrees, JobAgrees, Recording, StagesDone, InStage, PastCheck,
     CopiesAreOpen, RedeliveryIsHarmless, CancelIsSeen, FailureIsKnown, PublishedStaysWhole,
     HandledIsConcluded, Stages, Publishing, history, SameCopies
<1>2. CASE StageFails
  <2>1. UNCHANGED <<job, task, version, op, document, published, message, request, stored, accepted, lost>>
    BY <1>2 DEF StageFails, rows, history
  <2>2. /\ run.pc = "work"
        /\ run' \in Runs /\ run'.stage = run.stage /\ SameCopies
        /\ run'.pc = "fail_task"
        /\ faults' \subseteq {"database", "other"}
        /\ records' = records \/ (run.stage = 4 /\ records' = "inactive")
    BY <1>0, <1>2, Raises DEF StageFails, At, Fault, Causes
  <2>3. TypeOK'
    BY <1>0, <2>1, <2>2, TypesHold DEF TypeOK
  <2> QED
    BY <1>0, <2>1, <2>2, <2>3 DEF QueueAgrees, JobAgrees, Recording, StagesDone, InStage, PastCheck,
     CopiesAreOpen, RedeliveryIsHarmless, CancelIsSeen, FailureIsKnown, PublishedStaysWhole,
     HandledIsConcluded, Stages, Publishing, history, SameCopies
<1>3. CASE SucceedTask
  <2>1. UNCHANGED <<job, version, op, document, records, published, message, request, stored, accepted,
                    lost, faults>>
    BY <1>3 DEF SucceedTask, rows, history
  <2>2. /\ run.pc = "succeed"
        /\ run' \in Runs /\ run'.stage = run.stage /\ SameCopies
        /\ run'.pc = IF run.stage = 4 THEN "ready" ELSE "job_progress"
        /\ task' \in [Stages -> TaskStatus]
        /\ run.stage \in Stages
        /\ \A s \in Stages : task'[s] = IF s = run.stage THEN "succeeded" ELSE task[s]
    BY <1>0, <1>3, Moves DEF SucceedTask, At, Phase, TaskStatus, StagesDone, InStage
  <2>3. TypeOK'
    BY <1>0, <2>1, <2>2, TypesHold DEF TypeOK
  <2> QED
    BY <1>0, <2>1, <2>2, <2>3 DEF QueueAgrees, JobAgrees, Recording, StagesDone, InStage, PastCheck,
     CopiesAreOpen, RedeliveryIsHarmless, CancelIsSeen, FailureIsKnown, PublishedStaysWhole,
     HandledIsConcluded, Stages, Publishing, history, SameCopies
<1>4. CASE SaveJobProgress
  <2>1. UNCHANGED <<task, version, op, document, records, published, message, request, stored, accepted,
                    lost, faults>>
    BY <1>4 DEF SaveJobProgress, rows, history
  <2>2. /\ run.pc = "job_progress"
        /\ run' \in Runs /\ run'.stage = run.stage /\ SameCopies
        /\ run'.pc = "op_read"
        /\ job' \in Jobs /\ job'.status = run.job.status
    BY <1>0, <1>4, Moves DEF SaveJobProgress, At, Phase, Jobs, StagesDone, InStage, Stages, Whole
  <2>3. TypeOK'
    BY <1>0, <2>1, <2>2, TypesHold DEF TypeOK
  <2> QED
    BY <1>0, <2>1, <2>2, <2>3 DEF QueueAgrees, JobAgrees, Recording, StagesDone, InStage, PastCheck,
     CopiesAreOpen, RedeliveryIsHarmless, CancelIsSeen, FailureIsKnown, PublishedStaysWhole,
     HandledIsConcluded, Stages, Publishing, history, SameCopies
<1>5. CASE ReadProgress
  <2>1. UNCHANGED <<job, task, version, op, document, records, published, message, request,
                    stored, accepted, lost, faults>>
    BY <1>5 DEF ReadProgress, rows, history
  <2>2. /\ run.pc = "op_read"
        /\ run' \in Runs /\ run'.stage = run.stage
        /\ run'.job = run.job /\ run'.version = run.version
        /\ \/ run'.pc = "fail_task" /\ run'.op = run.op
           \/ run'.pc = "op_save" /\ run'.op = op /\ op.status # "succeeded"
    <3>1. run.pc = "op_read"
      BY <1>5 DEF ReadProgress, At
    <3>2. CASE run.stage < op.progress
      BY <1>0, <1>5, <3>1, <3>2, Raises DEF ReadProgress, Causes, SameCopies
    <3>3. CASE ~(run.stage < op.progress)
      <4>1. run' = [run EXCEPT !.pc = "op_save", !.op = op]
        BY <1>5, <3>3 DEF ReadProgress
      <4>2. op.status # "succeeded"
        BY <1>0, <3>1, <3>3 DEF CopiesAreOpen, StagesDone, InStage, Stages, Whole
      <4> QED
        BY <1>0, <3>1, <4>1, <4>2, Copies DEF Phase
    <3> QED
      BY <3>2, <3>3
  <2>3. TypeOK'
    BY <1>0, <2>1, <2>2, TypesHold DEF TypeOK
  <2> QED
    BY <1>0, <2>1, <2>2, <2>3 DEF QueueAgrees, JobAgrees, Recording, StagesDone, InStage, PastCheck,
     CopiesAreOpen, RedeliveryIsHarmless, CancelIsSeen, FailureIsKnown, PublishedStaysWhole,
     HandledIsConcluded, Stages, Publishing, history, SameCopies
<1>6. CASE SaveProgress
  <2>1. UNCHANGED <<job, task, version, document, records, published, message, request, stored, accepted,
                    lost, faults>>
    BY <1>6 DEF SaveProgress, rows, history
  <2>2. /\ run.pc = "op_save"
        /\ run' \in Runs /\ run'.stage = run.stage + 1 /\ run'.pc = "check"
        /\ run'.version = run.version /\ run'.job.status = run.job.status
        /\ op' \in Rows /\ op'.status = run.op.status /\ run.stage \in Stages
    <3>1. run.pc = "op_save" /\ op' = [run.op EXCEPT !.progress = run.stage]
          /\ run' = [run EXCEPT !.pc = "check", !.stage = run.stage + 1,
                                !.job.progress = run.stage]
      BY <1>6 DEF SaveProgress, At
    <3>2. run.stage \in Stages /\ run.stage + 1 \in 1..Publishing /\ run.stage \in 0..Whole
      BY <1>0, <3>1 DEF StagesDone, InStage, Stages, Publishing, Whole
    <3>3. op' \in Rows /\ op'.status = run.op.status
      BY <1>0, <3>1, <3>2 DEF Rows
    <3>4. [run.job EXCEPT !.progress = run.stage] \in Jobs
          /\ [run.job EXCEPT !.progress = run.stage].status = run.job.status
      BY <1>0, <3>2 DEF Jobs
    <3>5. run' = [run EXCEPT !.pc = "check", !.stage = run.stage + 1,
                             !.job = [run.job EXCEPT !.progress = run.stage]]
      BY <1>0, <3>1 DEF Runs
    <3>6. /\ run' \in Runs /\ run'.stage = run.stage + 1 /\ run'.pc = "check"
          /\ run'.version = run.version
          /\ run'.job = [run.job EXCEPT !.progress = run.stage]
      BY <1>0, <3>2, <3>4, <3>5 DEF Runs, Phase
    <3> QED
      BY <3>1, <3>2, <3>3, <3>4, <3>6
  <2>3. TypeOK'
    BY <1>0, <2>1, <2>2, TypesHold DEF TypeOK
  <2> QED
    BY <1>0, <2>1, <2>2, <2>3 DEF QueueAgrees, JobAgrees, Recording, StagesDone, InStage, PastCheck,
     CopiesAreOpen, RedeliveryIsHarmless, CancelIsSeen, FailureIsKnown, PublishedStaysWhole,
     HandledIsConcluded, Stages, Publishing, history, SameCopies
<1>7. CASE SaveReady
  <2>1. UNCHANGED <<job, task, op, document, records, published, message, request, stored, accepted, lost,
                    faults>>
    BY <1>7 DEF SaveReady, rows, history
  <2>2. /\ run.pc = "ready"
        /\ run' \in Runs /\ SameCopies
        /\ \/ run'.pc = "fail_task" /\ run'.stage = run.stage /\ version' = version
           \/ /\ run'.pc = "check" /\ run'.stage = Publishing
              /\ version' = "ready" /\ run.version # "failed"
    BY <1>0, <1>7, Advances, Raises DEF SaveReady, At, Phase, Causes, Publishing
  <2>3. TypeOK'
    BY <1>0, <2>1, <2>2, TypesHold DEF TypeOK, VersionStatus
  <2> QED
    BY <1>0, <2>1, <2>2, <2>3 DEF QueueAgrees, JobAgrees, Recording, StagesDone, InStage, PastCheck,
     CopiesAreOpen, RedeliveryIsHarmless, CancelIsSeen, FailureIsKnown, PublishedStaysWhole,
     HandledIsConcluded, Stages, Publishing, history, SameCopies
<1> QED
  BY <1>1, <1>2, <1>3, <1>4, <1>5, <1>6, <1>7

-----------------------------------------------------------------------------
\* The last stage: the publisher the job drives.
LEMMA PublishSteps ==
  ASSUME PipelineInv, LoadPublication \/ Validate \/ Promote \/ Commit \/ Retire
                      \/ PublisherFails \/ FinishJob
  PROVE  PipelineInv'
<1> USE DEF PipelineInv
<1>0. /\ job \in Jobs /\ job.status \in JobStatus /\ task \in [Stages -> TaskStatus]
      /\ version \in VersionStatus /\ op \in Rows /\ op.status \in OpStatus
      /\ message \in Messages /\ message.tries \in 0..MaxTries
      /\ run \in Runs /\ run.stage \in 1..Publishing /\ run.job \in Jobs /\ run.op \in Rows
      /\ run.version \in VersionStatus /\ run.cause \in Causes
      /\ run.job.status \in JobStatus /\ run.op.status \in OpStatus
      /\ request \in [pc : {"idle", "read"}, op : Rows]
      /\ request.op \in Rows /\ request.op.status \in OpStatus
      /\ records \in {"none", "inactive", "active"} /\ faults \subseteq {"database", "other"}
  BY Types
<1>1. CASE LoadPublication
  <2>1. UNCHANGED <<job, task, version, op, document, records, published, message, request,
                    stored, accepted, lost>>
    BY <1>1 DEF LoadPublication, rows, history
  <2>2. /\ run.pc = "load"
        /\ run' \in Runs /\ run'.stage = run.stage /\ run'.pc \in {"fail_task", "validate"}
        /\ run'.job = run.job /\ run'.version = run.version
        /\ faults' \subseteq {"database", "other"}
    BY ZenonT(40), <1>0, <1>1, Copies, Raises DEF LoadPublication, At, Phase, Fault, Causes,
       SameCopies, CopiesAreOpen, RedeliveryIsHarmless, PastCheck
  <2>3. TypeOK'
    BY <1>0, <2>1, <2>2, TypesHold DEF TypeOK
  <2> QED
    BY <1>0, <2>1, <2>2, <2>3 DEF QueueAgrees, JobAgrees, Recording, StagesDone, InStage, PastCheck,
     CopiesAreOpen, RedeliveryIsHarmless, CancelIsSeen, FailureIsKnown, PublishedStaysWhole,
     HandledIsConcluded, Stages, Publishing, history, SameCopies
<1>2. CASE Validate
  <2>1. UNCHANGED <<job, task, version, op, document, records, published, message, request,
                    stored, accepted, lost, faults>>
    BY <1>2 DEF Validate, rows, history
  <2>2. /\ run.pc = "validate"
        /\ run' \in Runs /\ run'.stage = run.stage /\ SameCopies
        /\ run'.pc \in {"fail_task", "promote"}
    BY <1>0, <1>2, Moves, Raises DEF Validate, At, Phase, Causes
  <2>3. TypeOK'
    BY <1>0, <2>1, <2>2, TypesHold DEF TypeOK
  <2> QED
    BY <1>0, <2>1, <2>2, <2>3 DEF QueueAgrees, JobAgrees, Recording, StagesDone, InStage, PastCheck,
     CopiesAreOpen, RedeliveryIsHarmless, CancelIsSeen, FailureIsKnown, PublishedStaysWhole,
     HandledIsConcluded, Stages, Publishing, history, SameCopies
<1>3. CASE Promote
  <2>1. UNCHANGED <<job, task, version, op, document, published, message, request, stored, accepted, lost,
                    faults>>
    BY <1>3 DEF Promote, rows, history
  <2>2. /\ run.pc = "promote"
        /\ run' \in Runs /\ run'.stage = run.stage /\ SameCopies
        /\ run'.pc = "commit" /\ records' = "active"
    BY <1>0, <1>3, Moves DEF Promote, At, Phase
  <2>3. TypeOK'
    BY <1>0, <2>1, <2>2, TypesHold DEF TypeOK
  <2> QED
    BY <1>0, <2>1, <2>2, <2>3 DEF QueueAgrees, JobAgrees, Recording, StagesDone, InStage, PastCheck,
     CopiesAreOpen, RedeliveryIsHarmless, CancelIsSeen, FailureIsKnown, PublishedStaysWhole,
     HandledIsConcluded, Stages, Publishing, history, SameCopies
<1>4. CASE Commit
  <2>1. UNCHANGED <<job, task, records, message, request, stored, accepted, lost>>
    BY <1>4 DEF Commit, rows, history
  <2>2. /\ run.pc = "commit"
        /\ run' \in Runs /\ run'.stage = run.stage /\ SameCopies
        /\ faults' \subseteq {"database", "other"}
        /\ version' \in VersionStatus /\ op' \in Rows /\ published' \in BOOLEAN
        /\ document' \in {"expected", "moved", "deleted"}
        /\ \/ /\ run'.pc = "retire" /\ published' /\ version' = "ready"
              /\ op'.status = "succeeded" /\ op'.progress = Whole
           \/ run'.pc = "fail_task" /\ UNCHANGED <<published, version, op>>
    <3>1. run.pc = "commit"
      BY <1>4 DEF Commit, At
    <3>2. CASE document = "expected"
      <4>1. /\ document' = "moved" /\ published' = TRUE /\ version' = "ready" /\ faults' = faults
            /\ op' = [status |-> "succeeded", progress |-> Whole] /\ Goto("retire")
        BY <1>4, <3>2 DEF Commit
      <4>2. run' \in Runs /\ run'.stage = run.stage /\ SameCopies /\ run'.pc = "retire"
        BY <1>0, <4>1, Moves DEF Phase
      <4>3. op' \in Rows /\ op'.status = "succeeded" /\ op'.progress = Whole
        BY <4>1 DEF Rows, OpStatus, Whole
      <4> QED
        BY <1>0, <3>1, <4>1, <4>2, <4>3 DEF VersionStatus
    <3>3. CASE document # "expected"
      <4>1. /\ Raise("conflict") /\ faults' = faults \cup {"other"}
            /\ UNCHANGED <<document, published, version, op>>
        BY <1>4, <3>3 DEF Commit, Fault
      <4>2. run' \in Runs /\ run'.stage = run.stage /\ SameCopies /\ run'.pc = "fail_task"
        BY <1>0, <4>1, Raises DEF Causes
      <4> QED
        BY <1>0, <3>1, <4>1, <4>2 DEF Causes, TypeOK
    <3> QED
      BY <3>2, <3>3
  <2>3. TypeOK'
    BY <1>0, <2>1, <2>2, TypesHold DEF TypeOK
  <2> QED
    BY <1>0, <2>1, <2>2, <2>3 DEF QueueAgrees, JobAgrees, Recording, StagesDone, InStage, PastCheck,
     CopiesAreOpen, RedeliveryIsHarmless, CancelIsSeen, FailureIsKnown, PublishedStaysWhole,
     HandledIsConcluded, Stages, Publishing, history, SameCopies
<1>5. CASE Retire
  <2>1. UNCHANGED <<job, task, version, op, document, records, published, message, request,
                    stored, accepted, lost, faults>>
    BY <1>5 DEF Retire, rows, history
  <2>2. /\ run.pc = "retire"
        /\ run' \in Runs /\ run'.stage = run.stage /\ SameCopies
        /\ run'.pc = "finish"
    BY <1>0, <1>5, Moves DEF Retire, At, Phase
  <2>3. TypeOK'
    BY <1>0, <2>1, <2>2, TypesHold DEF TypeOK
  <2> QED
    BY <1>0, <2>1, <2>2, <2>3 DEF QueueAgrees, JobAgrees, Recording, StagesDone, InStage, PastCheck,
     CopiesAreOpen, RedeliveryIsHarmless, CancelIsSeen, FailureIsKnown, PublishedStaysWhole,
     HandledIsConcluded, Stages, Publishing, history, SameCopies
<1>6. CASE PublisherFails
  <2>1. UNCHANGED <<job, task, version, op, document, records, published, message, request,
                    stored, accepted, lost>>
    BY <1>6 DEF PublisherFails, rows, history
  <2>2. /\ run.pc \in {"validate", "promote", "retire"}
        /\ run' \in Runs /\ run'.stage = run.stage /\ SameCopies
        /\ run'.pc = "fail_task"
        /\ faults' \subseteq {"database", "other"}
    BY <1>0, <1>6, Raises DEF PublisherFails, At, Fault, Causes
  <2>3. TypeOK'
    BY <1>0, <2>1, <2>2, TypesHold DEF TypeOK
  <2> QED
    BY <1>0, <2>1, <2>2, <2>3 DEF QueueAgrees, JobAgrees, Recording, StagesDone, InStage, PastCheck,
     CopiesAreOpen, RedeliveryIsHarmless, CancelIsSeen, FailureIsKnown, PublishedStaysWhole,
     HandledIsConcluded, Stages, Publishing, history, SameCopies
<1>7. CASE FinishJob
  <2>1. UNCHANGED <<task, version, op, document, records, published, request, stored, accepted, lost,
                    faults>>
    BY <1>7 DEF FinishJob, rows, history
  <2>2. /\ run.pc = "finish"
        /\ job' \in Jobs /\ run' \in Runs /\ message' \in Messages
        /\ message'.tries = message.tries
        /\ \/ run'.pc = "idle" /\ message'.state = "gone" /\ job'.status = "succeeded"
           \/ run'.pc = "fail_task" /\ SameCopies /\ UNCHANGED <<job, message>>
    BY <1>0, <1>7, Leaves, Raises DEF FinishJob, At, Causes, Jobs, JobStatus, Whole
  <2>3. TypeOK'
    BY <1>0, <2>1, <2>2, TypesHold DEF TypeOK
  <2> QED
    BY <1>0, <2>1, <2>2, <2>3 DEF QueueAgrees, JobAgrees, Recording, StagesDone, InStage, PastCheck,
     CopiesAreOpen, RedeliveryIsHarmless, CancelIsSeen, FailureIsKnown, PublishedStaysWhole,
     HandledIsConcluded, Stages, Publishing, history, SameCopies
<1> QED
  BY <1>1, <1>2, <1>3, <1>4, <1>5, <1>6, <1>7

-----------------------------------------------------------------------------
\* Failing what was running leaves a stage that succeeded alone.
LEMMA TasksFail ==
  ASSUME task \in [Stages -> TaskStatus]
  PROVE  /\ FailedTasks \in [Stages -> TaskStatus]
         /\ \A s \in Stages : task[s] = "succeeded" => FailedTasks[s] = "succeeded"
BY DEF FailedTasks, TaskStatus

\* A stage that failed: the task, the version, the operation and the job follow.
LEMMA FailSteps ==
  ASSUME PipelineInv, FailTask \/ FailJob \/ FailVersion \/ FailOperation
  PROVE  PipelineInv'
<1> USE DEF PipelineInv
<1>0. /\ job \in Jobs /\ job.status \in JobStatus /\ task \in [Stages -> TaskStatus]
      /\ version \in VersionStatus /\ op \in Rows /\ op.status \in OpStatus
      /\ message \in Messages /\ message.tries \in 0..MaxTries
      /\ run \in Runs /\ run.stage \in 1..Publishing /\ run.job \in Jobs /\ run.op \in Rows
      /\ run.version \in VersionStatus /\ run.cause \in Causes
      /\ run.job.status \in JobStatus /\ run.op.status \in OpStatus
      /\ request \in [pc : {"idle", "read"}, op : Rows]
      /\ request.op \in Rows /\ request.op.status \in OpStatus
      /\ records \in {"none", "inactive", "active"} /\ faults \subseteq {"database", "other"}
  BY Types
<1>1. CASE FailTask
  <2>1. UNCHANGED <<job, version, op, document, records, published, request, stored, accepted, faults>>
    BY <1>1 DEF FailTask, rows, history
  <2>2. /\ run.pc = "fail_task"
        /\ task' \in [Stages -> TaskStatus] /\ run' \in Runs /\ message' \in Messages
        /\ \A s \in Stages : task[s] = "succeeded" => task'[s] = "succeeded"
        /\ message'.tries = message.tries /\ lost' \in BOOLEAN
        /\ \/ run'.pc = "idle" /\ message'.state = "queued" /\ message.tries < MaxTries
           \/ run'.pc = "fail_job" /\ SameCopies /\ message' = message
           \/ /\ run'.pc = "idle" /\ message'.state = "gone" /\ run.job.status # "running"
              /\ lost' = (lost \/ run.job.status = "succeeded")
    <3>1. run.pc = "fail_task" /\ task' = FailedTasks
      BY <1>1 DEF FailTask, At
    <3>2. /\ task' \in [Stages -> TaskStatus]
          /\ \A s \in Stages : task[s] = "succeeded" => task'[s] = "succeeded"
      BY <1>0, <3>1, TasksFail
    <3>3. CASE MayRetry(run.cause)
      <4>1. Leave("queued") /\ lost' = lost
        BY <1>1, <3>3 DEF FailTask
      <4>2. message.tries < MaxTries
        BY <1>0, <3>3, TriesAssumption DEF MayRetry
      <4> QED
        BY <1>0, <3>1, <3>2, <4>1, <4>2, Leaves DEF TypeOK
    <3>4. CASE ~MayRetry(run.cause) /\ run.job.status = "running"
      <4>1. Goto("fail_job") /\ message' = message /\ lost' = lost
        BY <1>1, <3>4 DEF FailTask
      <4> QED
        BY <1>0, <3>1, <3>2, <4>1, Moves DEF Phase, TypeOK
    <3>5. CASE ~MayRetry(run.cause) /\ run.job.status # "running"
      <4>1. Leave("gone") /\ lost' = (lost \/ run.job.status = "succeeded")
        BY <1>1, <3>5 DEF FailTask
      <4> QED
        BY <1>0, <3>1, <3>2, <3>5, <4>1, Leaves DEF TypeOK
    <3> QED
      BY <3>3, <3>4, <3>5
  <2>3. TypeOK'
    BY <1>0, <2>1, <2>2, TypesHold DEF TypeOK
  <2>4. QueueAgrees' /\ JobAgrees' /\ HandledIsConcluded'
    <3>1. CASE run'.pc = "idle" /\ message'.state = "queued" /\ message.tries < MaxTries
      BY <2>1, <2>2, <3>1 DEF QueueAgrees, JobAgrees, Recording, HandledIsConcluded
    <3>2. CASE run'.pc = "fail_job" /\ SameCopies /\ message' = message
      BY <2>1, <2>2, <3>2 DEF QueueAgrees, JobAgrees, Recording, HandledIsConcluded
    <3>3. CASE /\ run'.pc = "idle" /\ message'.state = "gone" /\ run.job.status # "running"
               /\ lost' = (lost \/ run.job.status = "succeeded")
      <4>1. lost' \/ job'.status = "failed"
        BY <1>0, <2>1, <2>2, <3>3 DEF JobAgrees, JobStatus
      <4> QED
        BY <2>1, <2>2, <3>3, <4>1 DEF QueueAgrees, JobAgrees, Recording, HandledIsConcluded
    <3> QED
      BY <2>2, <3>1, <3>2, <3>3
  <2>5. StagesDone' /\ FailureIsKnown' /\ CancelIsSeen' /\ CopiesAreOpen'
    BY <1>0, <2>1, <2>2 DEF StagesDone, InStage, PastCheck, FailureIsKnown, CancelIsSeen,
       CopiesAreOpen, Stages, SameCopies
  <2>6. RedeliveryIsHarmless' /\ PublishedStaysWhole'
    BY <1>0, <2>1, <2>2 DEF RedeliveryIsHarmless, InStage, PastCheck, PublishedStaysWhole, Stages
  <2> QED
    BY <2>3, <2>4, <2>5, <2>6
<1>2. CASE FailJob
  <2>1. UNCHANGED <<task, version, op, document, records, published, message, request, stored, accepted,
                    lost, faults>>
    BY <1>2 DEF FailJob, rows, history
  <2>2. /\ run.pc = "fail_job"
        /\ run' \in Runs /\ run'.stage = run.stage /\ SameCopies
        /\ run'.pc = "fail_version"
        /\ job' \in Jobs /\ job'.status = "failed"
    BY <1>0, <1>2, Moves DEF FailJob, At, Phase, Jobs, JobStatus
  <2>3. TypeOK'
    BY <1>0, <2>1, <2>2, TypesHold DEF TypeOK
  <2> QED
    BY <1>0, <2>1, <2>2, <2>3 DEF QueueAgrees, JobAgrees, Recording, StagesDone, InStage, PastCheck,
     CopiesAreOpen, RedeliveryIsHarmless, CancelIsSeen, FailureIsKnown, PublishedStaysWhole,
     HandledIsConcluded, Stages, Publishing, history, SameCopies
<1>3. CASE FailVersion
  <2>1. UNCHANGED <<job, task, op, document, records, published, message, request, stored, accepted, lost,
                    faults>>
    BY <1>3 DEF FailVersion, rows, history
  <2>2. /\ run.pc = "fail_version"
        /\ run' \in Runs /\ run'.stage = run.stage /\ SameCopies
        /\ run'.pc = "fail_op"
        /\ version' = version \/ (version = "ingesting" /\ version' = "failed")
    BY <1>0, <1>3, Moves DEF FailVersion, At, Phase
  <2>3. TypeOK'
    BY <1>0, <2>1, <2>2, TypesHold DEF TypeOK, VersionStatus
  <2> QED
    BY <1>0, <2>1, <2>2, <2>3 DEF QueueAgrees, JobAgrees, Recording, StagesDone, InStage, PastCheck,
     CopiesAreOpen, RedeliveryIsHarmless, CancelIsSeen, FailureIsKnown, PublishedStaysWhole,
     HandledIsConcluded, Stages, Publishing, history, SameCopies
<1>4. CASE FailOperation
  <2>1. UNCHANGED <<job, task, version, op, document, records, published, request, stored, accepted, lost,
                    faults>>
    BY <1>4 DEF FailOperation, rows, history
  <2>2. /\ run.pc = "fail_op"
        /\ run' \in Runs /\ message' \in Messages /\ run'.pc = "idle"
        /\ message'.state = "gone" /\ message'.tries = message.tries
    BY <1>0, <1>4, Leaves DEF FailOperation, At
  <2>3. TypeOK'
    BY <1>0, <2>1, <2>2, TypesHold DEF TypeOK
  <2> QED
    BY <1>0, <2>1, <2>2, <2>3 DEF QueueAgrees, JobAgrees, Recording, StagesDone, InStage, PastCheck,
     CopiesAreOpen, RedeliveryIsHarmless, CancelIsSeen, FailureIsKnown, PublishedStaysWhole,
     HandledIsConcluded, Stages, Publishing, history, SameCopies
<1> QED
  BY <1>1, <1>2, <1>3, <1>4

-----------------------------------------------------------------------------
\* What a failing database makes of the run.
LEMMA RunBreaks ==
  ASSUME run \in Runs, NEW st \in JobStatus, Breaks(st), faults \subseteq {"database", "other"}
  PROVE  /\ run' \in Runs /\ run'.pc = "fail_task" /\ run'.stage = run.stage
         /\ run'.job.status = st /\ run'.version = run.version /\ run'.op = run.op
         /\ faults' \subseteq {"database", "other"}
<1>1. PICK cause \in {"transient", "internal"} :
         run' = [run EXCEPT !.pc = "fail_task", !.cause = cause, !.job.status = st]
  BY DEF Breaks
<1>2. [run.job EXCEPT !.status = st] \in Jobs /\ [run.job EXCEPT !.status = st].status = st
  BY DEF Runs, Jobs
<1>3. run' = [run EXCEPT !.pc = "fail_task", !.cause = cause,
                         !.job = [run.job EXCEPT !.status = st]]
  BY <1>1 DEF Runs
<1>4. /\ run' \in Runs /\ run'.pc = "fail_task" /\ run'.stage = run.stage
      /\ run'.job = [run.job EXCEPT !.status = st] /\ run'.version = run.version
      /\ run'.op = run.op
  BY <1>2, <1>3 DEF Runs, Phase, Causes
<1> QED
  BY <1>2, <1>4 DEF Breaks

\* The database fails while the rows are loaded, while a run works, and while
\* a failure is recorded.
LEMMA DatabaseSteps ==
  ASSUME PipelineInv, DatabaseFails \/ FinishFails \/ RecordingFails \/ LoadFails
  PROVE  PipelineInv'
<1> USE DEF PipelineInv
<1>0. /\ job \in Jobs /\ job.status \in JobStatus /\ task \in [Stages -> TaskStatus]
      /\ version \in VersionStatus /\ op \in Rows /\ op.status \in OpStatus
      /\ message \in Messages /\ message.tries \in 0..MaxTries
      /\ run \in Runs /\ run.stage \in 1..Publishing /\ run.job \in Jobs /\ run.op \in Rows
      /\ run.version \in VersionStatus /\ run.cause \in Causes
      /\ run.job.status \in JobStatus /\ run.op.status \in OpStatus
      /\ request \in [pc : {"idle", "read"}, op : Rows]
      /\ request.op \in Rows /\ request.op.status \in OpStatus
      /\ records \in {"none", "inactive", "active"} /\ faults \subseteq {"database", "other"}
  BY Types
<1>1. CASE DatabaseFails
  <2>1. UNCHANGED <<job, task, version, op, document, records, published, message, request, stored,
                    accepted, lost>>
    BY <1>1 DEF DatabaseFails, rows, history
  <2>2. /\ run.pc \notin Recording \cup {"idle"}
        /\ run' \in Runs /\ run'.pc = "fail_task" /\ run'.stage = run.stage
        /\ run'.version = run.version /\ run'.op = run.op
        /\ faults' \subseteq {"database", "other"}
        /\ \/ run'.job.status = run.job.status /\ run.job.status # "pending"
           \/ run'.job.status = "running"
    <3>1. run.pc \in {"begin", "register", "check", "start", "work", "succeed",
                     "job_progress", "op_read", "op_save", "ready", "load", "commit", "retire"}
      BY <1>1 DEF DatabaseFails
    <3>2. CASE run.pc = "begin" /\ run.job.status = "pending"
      <4>1. Breaks("running")
        BY <1>1, <3>2 DEF DatabaseFails, At
      <4> QED
        BY <1>0, <3>1, <4>1, RunBreaks DEF JobStatus, Recording
    <3>3. CASE ~(run.pc = "begin" /\ run.job.status = "pending")
      <4>1. Breaks(run.job.status)
        BY <1>1, <3>3 DEF DatabaseFails, At
      <4>2. run.job.status # "pending"
        BY <3>1, <3>3 DEF JobAgrees, Recording
      <4> QED
        BY <1>0, <3>1, <4>1, <4>2, RunBreaks DEF Recording
    <3> QED
      BY <3>2, <3>3
  <2>3. TypeOK'
    BY <1>0, <2>1, <2>2, TypesHold DEF TypeOK
  <2> QED
    BY <1>0, <2>1, <2>2, <2>3 DEF QueueAgrees, JobAgrees, Recording, StagesDone, InStage, PastCheck,
     CopiesAreOpen, RedeliveryIsHarmless, CancelIsSeen, FailureIsKnown, PublishedStaysWhole,
     HandledIsConcluded, Stages, Publishing, history, SameCopies
<1>2. CASE FinishFails
  <2>1. UNCHANGED <<task, version, op, document, records, published, message, request, stored,
                    accepted, lost>>
    BY <1>2 DEF FinishFails, rows, history
  <2>2. /\ run.pc = "finish"
        /\ run' \in Runs /\ run'.pc = "fail_task" /\ run'.stage = run.stage
        /\ run'.version = run.version /\ run'.op = run.op /\ run'.job.status = "succeeded"
        /\ faults' \subseteq {"database", "other"}
        /\ job' \in Jobs
    <3>1. run.pc = "finish" /\ Breaks("succeeded")
          /\ job' \in {job, [status |-> "succeeded", progress |-> Whole]}
      BY <1>2 DEF FinishFails, At
    <3>2. job' \in Jobs
      BY <1>0, <3>1 DEF Jobs, JobStatus, Whole
    <3> QED
      BY <1>0, <3>1, <3>2, RunBreaks DEF JobStatus
  <2>3. TypeOK'
    BY <1>0, <2>1, <2>2, TypesHold DEF TypeOK
  <2> QED
    BY <1>0, <2>1, <2>2, <2>3 DEF QueueAgrees, JobAgrees, Recording, StagesDone, InStage, PastCheck,
     CopiesAreOpen, RedeliveryIsHarmless, CancelIsSeen, FailureIsKnown, PublishedStaysWhole,
     HandledIsConcluded, Stages, Publishing, history, SameCopies
<1>3. CASE RecordingFails
  <2>1. UNCHANGED <<job, version, op, document, records, published, request, stored, accepted>>
    BY <1>3 DEF RecordingFails, rows, history
  <2>2. /\ run.pc \in Recording
        /\ task' \in [Stages -> TaskStatus] /\ run' \in Runs /\ message' \in Messages
        /\ \A s \in Stages : task[s] = "succeeded" => task'[s] = "succeeded"
        /\ run'.pc = "idle" /\ message'.state = "gone" /\ message'.tries = message.tries
        /\ lost' \in BOOLEAN /\ faults' \subseteq {"database", "other"}
        /\ lost' \/ job.status = "failed"
    <3>1. /\ run.pc \in {"fail_task", "fail_job", "fail_version"}
          /\ task' = task \/ task' = FailedTasks
          /\ Leave("gone") /\ lost' = (lost \/ run.pc # "fail_version")
          /\ faults' = faults \cup {"database"}
      BY <1>3 DEF RecordingFails, At
    <3>2. /\ task' \in [Stages -> TaskStatus]
          /\ \A s \in Stages : task[s] = "succeeded" => task'[s] = "succeeded"
      BY <1>0, <3>1, TasksFail
    <3>3. lost' \in BOOLEAN /\ (lost' \/ job.status = "failed")
      BY <3>1 DEF JobAgrees, TypeOK
    <3> QED
      BY <1>0, <3>1, <3>2, <3>3, Leaves DEF Recording
  <2>3. TypeOK'
    BY <1>0, <2>1, <2>2, TypesHold DEF TypeOK
  <2> QED
    BY <1>0, <2>1, <2>2, <2>3 DEF QueueAgrees, JobAgrees, Recording, StagesDone, InStage, PastCheck,
     CopiesAreOpen, RedeliveryIsHarmless, CancelIsSeen, FailureIsKnown, PublishedStaysWhole,
     HandledIsConcluded, Stages, Publishing, history, SameCopies
<1>4. CASE LoadFails
  <2>1. UNCHANGED <<job, task, version, op, document, records, published, run, request, stored,
                    accepted>>
    BY <1>4 DEF LoadFails, rows, history
  <2>2. /\ message.state # "running" /\ message' \in Messages /\ message'.state = "gone"
        /\ message'.tries \in 0..MaxTries
        /\ lost' = TRUE /\ faults' \subseteq {"database", "other"}
    <3>1. /\ Waiting /\ message.tries < MaxTries /\ lost' = TRUE
          /\ message' = [state |-> "gone", tries |-> message.tries + 1]
          /\ faults' = faults \cup {"database"}
      BY <1>4 DEF LoadFails
    <3>2. message.tries + 1 \in 0..MaxTries
      BY <1>0, <3>1, TriesAssumption
    <3> QED
      BY <1>0, <3>1, <3>2 DEF Messages, Waiting
  <2>3. TypeOK'
    BY <1>0, <2>1, <2>2, TypesHold DEF TypeOK
  <2> QED
    BY <1>0, <2>1, <2>2, <2>3 DEF QueueAgrees, JobAgrees, Recording, StagesDone, InStage, PastCheck,
     CopiesAreOpen, RedeliveryIsHarmless, CancelIsSeen, FailureIsKnown, PublishedStaysWhole,
     HandledIsConcluded, Stages, Publishing, history, SameCopies
<1> QED
  BY <1>1, <1>2, <1>3, <1>4

-----------------------------------------------------------------------------
\* What the queue does with a message whose run broke off.
LEMMA QueueSteps ==
  ASSUME PipelineInv, Deliver \/ Exhaust \/ Crash \/ JobTimeout
  PROVE  PipelineInv'
<1> USE DEF PipelineInv
<1>0. /\ job \in Jobs /\ job.status \in JobStatus /\ task \in [Stages -> TaskStatus]
      /\ version \in VersionStatus /\ op \in Rows /\ op.status \in OpStatus
      /\ message \in Messages /\ message.tries \in 0..MaxTries
      /\ run \in Runs /\ run.stage \in 1..Publishing /\ run.job \in Jobs /\ run.op \in Rows
      /\ run.version \in VersionStatus /\ run.cause \in Causes
      /\ run.job.status \in JobStatus /\ run.op.status \in OpStatus
      /\ request \in [pc : {"idle", "read"}, op : Rows]
      /\ request.op \in Rows /\ request.op.status \in OpStatus
      /\ records \in {"none", "inactive", "active"} /\ faults \subseteq {"database", "other"}
  BY Types
<1>1. CASE Deliver
  <2>1. UNCHANGED <<job, task, version, op, document, records, published, request, stored, accepted, lost,
                    faults>>
    BY <1>1 DEF Deliver, Receive, rows, history
  <2>2. /\ run.pc = "idle"
        /\ run' \in Runs /\ message' \in Messages /\ message'.tries \in 0..MaxTries
        /\ \/ run'.pc = "idle" /\ message'.state = "gone" /\ job.status = "succeeded"
           \/ /\ run'.pc = "begin" /\ run'.stage = 1 /\ run'.job = job /\ run'.version = version
              /\ message'.state = "running" /\ job.status # "succeeded"
    <3>1. Waiting /\ message.tries < MaxTries /\ Receive(message.tries + 1)
      BY <1>1 DEF Deliver
    <3>2. run.pc = "idle"
      BY <3>1 DEF Waiting, QueueAgrees
    <3>3. message.tries + 1 \in 0..MaxTries
      BY <1>0, <3>1, TriesAssumption
    <3>4. message' \in Messages /\ message'.tries \in 0..MaxTries
      BY <3>1, <3>3 DEF Receive, Messages
    <3>5. Idle \in Runs /\ Idle.pc = "idle" /\ Idle.stage = 1
      BY DEF Idle, Fresh, Runs, Phase, Publishing, Jobs, Rows, JobStatus, OpStatus,
         VersionStatus, Causes, Whole
    <3>6. CASE job.status = "succeeded"
      BY <3>1, <3>2, <3>4, <3>5, <3>6 DEF Receive
    <3>7. CASE job.status # "succeeded"
      <4>1. run' = [Idle EXCEPT !.pc = "begin", !.job = job, !.version = version]
            /\ message'.state = "running"
        BY <3>1, <3>7 DEF Receive
      <4>2. /\ run' \in Runs /\ run'.pc = "begin" /\ run'.stage = 1 /\ run'.job = job
            /\ run'.version = version
        BY <1>0, <3>5, <4>1 DEF Runs, Phase
      <4> QED
        BY <3>2, <3>4, <3>7, <4>1, <4>2
    <3> QED
      BY <3>6, <3>7
  <2>3. TypeOK'
    BY <1>0, <2>1, <2>2, TypesHold DEF TypeOK
  <2>4. QueueAgrees' /\ HandledIsConcluded'
    BY <2>1, <2>2 DEF QueueAgrees, HandledIsConcluded
  <2>5. CASE run'.pc = "idle"
    BY <2>1, <2>2, <2>3, <2>4, <2>5 DEF JobAgrees, Recording, StagesDone, InStage, PastCheck,
       CopiesAreOpen, RedeliveryIsHarmless, CancelIsSeen, FailureIsKnown, PublishedStaysWhole
  <2>6. CASE run'.pc = "begin"
    <3>1. JobAgrees' /\ CopiesAreOpen' /\ CancelIsSeen' /\ PublishedStaysWhole'
      BY <2>1, <2>2, <2>6 DEF JobAgrees, Recording, CopiesAreOpen, CancelIsSeen, PublishedStaysWhole,
         PastCheck
    <3>2. StagesDone' /\ FailureIsKnown'
      BY <2>1, <2>2, <2>6 DEF StagesDone, InStage, PastCheck, FailureIsKnown
    <3>3. RedeliveryIsHarmless'
      BY <2>1, <2>2, <2>6 DEF RedeliveryIsHarmless, InStage, PastCheck, PublishedStaysWhole
    <3> QED
      BY <2>3, <2>4, <3>1, <3>2, <3>3
  <2> QED
    BY <2>2, <2>5, <2>6
<1>2. CASE Exhaust
  <2>1. UNCHANGED <<job, task, version, op, document, records, published, run, request, stored, accepted,
                    faults>>
    BY <1>2 DEF Exhaust, rows, history
  <2>2. /\ message' \in Messages /\ message'.state = "gone" /\ message.state # "running"
        /\ message'.tries \in 0..MaxTries
        /\ lost' \in BOOLEAN
        /\ lost'
    <3>1. Waiting /\ message.tries = MaxTries /\ message' = [message EXCEPT !.state = "gone"]
          /\ lost' = (lost \/ message.state = "orphaned")
      BY <1>2 DEF Exhaust
    <3>2. message.state = "orphaned"
      BY <1>0, <3>1, TriesAssumption DEF Waiting, QueueAgrees
    <3>3. lost' = TRUE
      BY <3>1, <3>2
    <3>4. message' \in Messages /\ message'.state = "gone" /\ message'.tries \in 0..MaxTries
      BY <1>0, <3>1 DEF Messages
    <3> QED
      BY <3>2, <3>3, <3>4
  <2>3. TypeOK'
    BY <1>0, <2>1, <2>2, TypesHold DEF TypeOK
  <2> QED
    BY <1>0, <2>1, <2>2, <2>3 DEF QueueAgrees, JobAgrees, Recording, StagesDone, InStage, PastCheck,
     CopiesAreOpen, RedeliveryIsHarmless, CancelIsSeen, FailureIsKnown, PublishedStaysWhole,
     HandledIsConcluded, Stages, Publishing, history, SameCopies
<1>3. CASE Crash
  <2>1. UNCHANGED <<job, task, version, op, document, records, published, request, stored, accepted, lost>>
    BY <1>3 DEF Crash, rows, history
  <2>2. /\ run' \in Runs /\ message' \in Messages /\ run'.pc = "idle"
        /\ message'.tries \in 0..MaxTries
        /\ message'.state = "orphaned" /\ faults' \subseteq {"database", "other"}
    BY <1>0, <1>3, Leaves DEF Crash
  <2>3. TypeOK'
    BY <1>0, <2>1, <2>2, TypesHold DEF TypeOK
  <2> QED
    BY <1>0, <2>1, <2>2, <2>3 DEF QueueAgrees, JobAgrees, Recording, StagesDone, InStage, PastCheck,
     CopiesAreOpen, RedeliveryIsHarmless, CancelIsSeen, FailureIsKnown, PublishedStaysWhole,
     HandledIsConcluded, Stages, Publishing, history, SameCopies
<1>4. CASE JobTimeout
  <2>1. UNCHANGED <<job, task, version, op, document, records, published, request, stored, accepted,
                    faults>>
    BY <1>4 DEF JobTimeout, rows, history
  <2>2. /\ run' \in Runs /\ message' \in Messages /\ run'.pc = "idle"
        /\ message'.tries \in 0..MaxTries
        /\ message'.state = "gone" /\ lost' = TRUE
    BY <1>0, <1>4, Leaves DEF JobTimeout
  <2>3. TypeOK'
    BY <1>0, <2>1, <2>2, TypesHold DEF TypeOK
  <2> QED
    BY <1>0, <2>1, <2>2, <2>3 DEF QueueAgrees, JobAgrees, Recording, StagesDone, InStage, PastCheck,
     CopiesAreOpen, RedeliveryIsHarmless, CancelIsSeen, FailureIsKnown, PublishedStaysWhole,
     HandledIsConcluded, Stages, Publishing, history, SameCopies
<1> QED
  BY <1>1, <1>2, <1>3, <1>4

-----------------------------------------------------------------------------
\* The caller who cancels, and the other writers of the document.
LEMMA OtherSteps ==
  ASSUME PipelineInv, ReadCancel \/ SaveCancel \/ Supersede \/ DeleteDocument
  PROVE  PipelineInv'
<1> USE DEF PipelineInv
<1>0. /\ job \in Jobs /\ job.status \in JobStatus /\ task \in [Stages -> TaskStatus]
      /\ version \in VersionStatus /\ op \in Rows /\ op.status \in OpStatus
      /\ message \in Messages /\ message.tries \in 0..MaxTries
      /\ run \in Runs /\ run.stage \in 1..Publishing /\ run.job \in Jobs /\ run.op \in Rows
      /\ run.version \in VersionStatus /\ run.cause \in Causes
      /\ run.job.status \in JobStatus /\ run.op.status \in OpStatus
      /\ request \in [pc : {"idle", "read"}, op : Rows]
      /\ request.op \in Rows /\ request.op.status \in OpStatus
      /\ records \in {"none", "inactive", "active"} /\ faults \subseteq {"database", "other"}
  BY Types
<1>1. CASE ReadCancel
  <2>1. UNCHANGED <<job, task, version, op, document, records, published, message, run, stored, accepted,
                    lost, faults>>
    BY <1>1 DEF ReadCancel, rows, history
  <2>2. /\ op.status # "succeeded"
        /\ request' \in [pc : {"idle", "read"}, op : Rows]
        /\ request'.op = op
    BY <1>0, <1>1 DEF ReadCancel
  <2>3. TypeOK'
    BY <1>0, <2>1, <2>2, TypesHold DEF TypeOK
  <2> QED
    BY <1>0, <2>1, <2>2, <2>3 DEF QueueAgrees, JobAgrees, Recording, StagesDone, InStage, PastCheck,
     CopiesAreOpen, RedeliveryIsHarmless, CancelIsSeen, FailureIsKnown, PublishedStaysWhole,
     HandledIsConcluded, Stages, Publishing, history, SameCopies
<1>2. CASE SaveCancel
  <2>1. UNCHANGED <<job, task, version, document, records, published, message, run, lost, faults>>
    BY <1>2 DEF SaveCancel, rows, history
  <2>2. /\ request.pc = "read" /\ request'.pc = "idle"
        /\ request' \in [pc : {"idle", "read"}, op : Rows]
        /\ op' \in Rows /\ op'.status = "cancel_requested"
        /\ stored' \in BOOLEAN /\ accepted' \in BOOLEAN
        /\ accepted' => accepted \/ (~published /\ run.pc \notin PastCheck \cup {"op_save"})
    BY <1>0, <1>2 DEF SaveCancel, Rows, OpStatus, Fresh, Whole, PastCheck, TypeOK, At
  <2>3. TypeOK'
    BY <1>0, <2>1, <2>2, TypesHold DEF TypeOK
  <2> QED
    BY <1>0, <2>1, <2>2, <2>3 DEF QueueAgrees, JobAgrees, Recording, StagesDone, InStage, PastCheck,
     CopiesAreOpen, RedeliveryIsHarmless, CancelIsSeen, FailureIsKnown, PublishedStaysWhole,
     HandledIsConcluded, Stages, Publishing, history, SameCopies
<1>3. CASE Supersede
  <2>1. UNCHANGED <<job, task, op, records, published, message, run, request, stored, accepted, lost,
                    faults>>
    BY <1>3 DEF Supersede, rows, history
  <2>2. /\ version' = version \/ (version = "ready" /\ version' = "superseded")
        /\ document' = "moved"
    BY <1>0, <1>3 DEF Supersede
  <2>3. TypeOK'
    BY <1>0, <2>1, <2>2, TypesHold DEF TypeOK, VersionStatus
  <2> QED
    BY <1>0, <2>1, <2>2, <2>3 DEF QueueAgrees, JobAgrees, Recording, StagesDone, InStage, PastCheck,
     CopiesAreOpen, RedeliveryIsHarmless, CancelIsSeen, FailureIsKnown, PublishedStaysWhole,
     HandledIsConcluded, Stages, Publishing, history, SameCopies
<1>4. CASE DeleteDocument
  <2>1. UNCHANGED <<job, task, version, op, records, published, message, run, request, stored, accepted,
                    lost, faults>>
    BY <1>4 DEF DeleteDocument, rows, history
  <2>2. /\ document' = "deleted"
    BY <1>0, <1>4 DEF DeleteDocument
  <2>3. TypeOK'
    BY <1>0, <2>1, <2>2, TypesHold DEF TypeOK
  <2> QED
    BY <1>0, <2>1, <2>2, <2>3 DEF QueueAgrees, JobAgrees, Recording, StagesDone, InStage, PastCheck,
     CopiesAreOpen, RedeliveryIsHarmless, CancelIsSeen, FailureIsKnown, PublishedStaysWhole,
     HandledIsConcluded, Stages, Publishing, history, SameCopies
<1> QED
  BY <1>1, <1>2, <1>3, <1>4

-----------------------------------------------------------------------------
\* Every step keeps the invariant.
LEMMA StepPipeline ==
  ASSUME PipelineInv, [Next]_vars
  PROVE  PipelineInv'
<1>1. CASE UNCHANGED vars
  BY <1>1 DEF vars, rows, history, PipelineInv, TypeOK, QueueAgrees, JobAgrees, StagesDone,
     InStage, PastCheck, CopiesAreOpen, RedeliveryIsHarmless, CancelIsSeen, FailureIsKnown,
     PublishedStaysWhole, HandledIsConcluded
<1>2. CASE Next
  BY <1>2, BeginSteps, StageSteps, PublishSteps, FailSteps, QueueSteps, DatabaseSteps, OtherSteps
     DEF Next, Work, Queue, Others
<1> QED
  BY <1>1, <1>2

\* The invariant holds always.
LEMMA PipelineInvariant == Spec => []PipelineInv
<1>1. Init => PipelineInv
  BY InitPipeline
<1>2. PipelineInv /\ [Next]_vars => PipelineInv'
  BY StepPipeline
<1> QED
  BY <1>1, <1>2, PTL DEF Spec

\* For any number of tries: what a job published stays whole, whatever is
\* delivered again (IngestionPipeline.handle after complete_ingestion).
THEOREM PublicationIsWhole == Spec => []PublishedStaysWhole
<1>1. PipelineInv => PublishedStaysWhole
  BY DEF PipelineInv
<1> QED
  BY <1>1, PipelineInvariant, PTL

\* A cancel request stored where a run still looks again, and not between
\* _progress's read and save of the operation, is honoured in every later
\* delivery (_require_lifecycle_active, LifecycleControlService.cancel).
THEOREM CancelHolds == Spec => []AcceptedCancelHolds
<1>1. PipelineInv => AcceptedCancelHolds
  BY DEF PipelineInv, CancelIsSeen, AcceptedCancelHolds
<1> QED
  BY <1>1, PipelineInvariant, PTL

\* A message that its handler let go has a concluded job, whatever the database
\* fails apart from the load, the last save and the recording of a failure: the
\* pipeline asks for no retry that the queue would not grant (_record_failure,
\* may_retry).
THEOREM HandledJobIsConcluded == Spec => []HandledIsConcluded
<1>1. PipelineInv => HandledIsConcluded
  BY DEF PipelineInv
<1> QED
  BY <1>1, PipelineInvariant, PTL

\* The rows, the message and the local states keep their shape.
THEOREM PipelineTypes == Spec => []TypeOK
<1>1. PipelineInv => TypeOK
  BY DEF PipelineInv
<1> QED
  BY <1>1, PipelineInvariant, PTL

\* A version recorded as failed is not taken up again, and nothing of it is
\* published, by any redelivery (_record_failure, the version's transitions).
THEOREM FailureIsFinal == Spec => FailedIsFinal
<1>1. ASSUME PipelineInv, [Next]_vars, version = "failed"
      PROVE  version' = "failed" /\ published' = published
  <2>1. CASE MarkIngesting \/ SaveReady \/ Commit
    BY <1>1, <2>1 DEF PipelineInv, FailureIsKnown, PastCheck, MarkIngesting, SaveReady, Commit, At
  <2>2. CASE FailVersion \/ Supersede \/ UNCHANGED vars
    BY <1>1, <2>2 DEF FailVersion, Supersede, vars, rows
  <2>3. CASE Queue \/ ReadCancel \/ SaveCancel \/ DeleteDocument
    BY <1>1, <2>3 DEF Queue, Deliver, Receive, Exhaust, LoadFails, Crash, JobTimeout, ReadCancel, SaveCancel,
       DeleteDocument, rows
  <2>4. CASE MarkRunning \/ RequireActive \/ StartTask \/ StageWorks \/ StageFails \/ SucceedTask
             \/ SaveJobProgress \/ ReadProgress \/ SaveProgress
    BY <1>1, <2>4 DEF MarkRunning, RequireActive, StartTask, StageWorks, StageFails, SucceedTask,
       SaveJobProgress, ReadProgress, SaveProgress, rows
  <2>5. CASE LoadPublication \/ Validate \/ Promote \/ Retire \/ PublisherFails \/ FinishJob
             \/ FailTask \/ FailJob \/ FailOperation \/ DatabaseFails \/ FinishFails
             \/ RecordingFails
    BY <1>1, <2>5 DEF LoadPublication, Validate, Promote, Retire, PublisherFails, FinishJob,
       FailTask, FailJob, FailOperation, DatabaseFails, FinishFails, RecordingFails, rows
  <2> QED
    BY <1>1, <2>1, <2>2, <2>3, <2>4, <2>5 DEF Next, Work, Others
<1> QED
  BY <1>1, PipelineInvariant, PTL DEF Spec, FailedIsFinal
=============================================================================
