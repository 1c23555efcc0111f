----------------------------- MODULE StoresProofs -----------------------------
(***************************************************************************)
(* The protocols over several rows and stores: what the alias of an index  *)
(* serves is whole and what its callers are told is true, an upload is one *)
(* document and served whole, and a batch tells what its operations did,   *)
(* for any number of calls, deliveries, operations and refreshes.          *)
(***************************************************************************)
EXTENDS MCStores, FiniteSetTheorems, TLAPS

-----------------------------------------------------------------------------
(* Index generations.                                                        *)

\* Only rebuilds create, write, resolve and clean up; each has an index of its own,
\* a rollback one that has been in service.
Roles ==
    /\ \A c \in Builds : pc[c] # "idle" => target[c] = c
    /\ \A c \in Rollbacks :
          /\ pc[c] \in {"idle", "validate", "compare", "update", "confirm", "returned", "raised"}
          /\ target[c] \in served

\* An index is absent until its build creates it, in service only after it was
\* written, and whole when its build wants to put it in service.
Progress ==
    \A c \in Builds :
        /\ pc[c] \in {"idle", "create"} => content[c] = "absent"
        /\ pc[c] \in {"idle", "create", "write"} => c \notin served
        /\ pc[c] \in {"compare", "update"} => content[c] # "part"

\* What has been in service is whole, or deleted; what is in service has been.
History ==
    /\ \A i \in served : content[i] # "part"
    /\ alias \subseteq served

GenerationInv == TypeOK /\ Roles /\ Progress /\ History /\ AliasedIsWhole /\ AnswersAreTrue

\* One whole index is served and nobody switches.
LEMMA InitGeneration == Init => GenerationInv
BY GenerationAssumption
   DEF Init, GenerationInv, TypeOK, Roles, Progress, History, AliasedIsWhole, AnswersAreTrue,
       Indexes, Calls, Phase

\* The alias is the target only if the target is in it.
LEMMA ResolvedIsAliased ==
  ASSUME TypeOK, NEW c \in Calls, Resolves(target[c])
  PROVE  target[c] \in alias
BY GenerationAssumption DEF TypeOK, Resolves, Indexes

\* Steps that only move a call, and perhaps strand it.
LEMMA MoveKeeps ==
  ASSUME GenerationInv, NEW c \in Calls, NEW to \in Phase \ {"idle", "create", "write"},
         pc[c] # "idle", pc' = [pc EXCEPT ![c] = to],
         UNCHANGED <<content, alias, target, expected, served>>,
         stranded \subseteq stranded', stranded' \subseteq Calls,
         c \in Rollbacks =>
             to \in {"validate", "compare", "update", "confirm", "returned", "raised"},
         to = "compare" /\ c \in Builds => content[c] # "part",
         to = "update" => pc[c] = "compare",
         to = "returned" => target[c] \in served,
         to = "raised" /\ c \in Builds =>
             c \in stranded' \/ target[c] \in served \/ content[c] = "absent"
  PROVE  GenerationInv'
<1>1. TypeOK'
  BY DEF GenerationInv, TypeOK
<1>2. Roles'
  BY DEF GenerationInv, TypeOK, Roles, Calls
<1>3. Progress'
  BY DEF GenerationInv, TypeOK, Progress, Calls, Roles
<1>4. History' /\ AliasedIsWhole'
  BY DEF GenerationInv, History, AliasedIsWhole
<1>5. AnswersAreTrue'
  BY DEF GenerationInv, TypeOK, AnswersAreTrue, Calls, Roles
<1> QED
  BY <1>1, <1>2, <1>3, <1>4, <1>5 DEF GenerationInv

-----------------------------------------------------------------------------
\* Every step keeps the invariant: one case per action.
LEMMA StepGeneration == GenerationInv /\ [Next]_vars => GenerationInv'
<1> SUFFICES ASSUME GenerationInv, [Next]_vars PROVE GenerationInv'
  OBVIOUS
<1> USE GenerationAssumption
<1>1. CASE UNCHANGED vars
  BY <1>1 DEF vars, GenerationInv, TypeOK, Roles, Progress, History, AliasedIsWhole, AnswersAreTrue
<1>2. ASSUME NEW c \in Calls, BeginBuild(c) PROVE GenerationInv'
  <2>1. TypeOK'
    BY <1>2 DEF GenerationInv, TypeOK, BeginBuild, Step, Indexes, Calls, Phase
  <2>2. Roles' /\ Progress' /\ History' /\ AliasedIsWhole' /\ AnswersAreTrue'
    BY <1>2 DEF GenerationInv, TypeOK, BeginBuild, Step, Roles, Progress, History,
                AliasedIsWhole, AnswersAreTrue, Calls
  <2> QED
    BY <2>1, <2>2 DEF GenerationInv
<1>3. ASSUME NEW c \in Calls, BeginRollback(c) PROVE GenerationInv'
  <2>1. TypeOK'
    BY <1>3 DEF GenerationInv, TypeOK, BeginRollback, Step, Indexes, Calls, Phase
  <2>2. Roles' /\ Progress' /\ History' /\ AliasedIsWhole' /\ AnswersAreTrue'
    BY <1>3 DEF GenerationInv, TypeOK, BeginRollback, Step, Roles, Progress, History,
                AliasedIsWhole, AnswersAreTrue, Calls
  <2> QED
    BY <2>1, <2>2 DEF GenerationInv
<1>4. ASSUME NEW c \in Calls, CreateStaging(c) PROVE GenerationInv'
  <2>1. c \in Builds /\ target[c] = c /\ c \notin served /\ content[c] = "absent"
    BY <1>4 DEF GenerationInv, CreateStaging, Step, Roles, Progress, Calls
  <2>2. TypeOK'
    BY <1>4 DEF GenerationInv, TypeOK, CreateStaging, Step, Phase
  <2>3. Roles' /\ Progress' /\ History' /\ AliasedIsWhole' /\ AnswersAreTrue'
    BY <1>4, <2>1 DEF GenerationInv, TypeOK, CreateStaging, Step, Roles, Progress, History,
                AliasedIsWhole, AnswersAreTrue, Calls
  <2> QED
    BY <2>2, <2>3 DEF GenerationInv
<1>5. ASSUME NEW c \in Calls, WriteGeneration(c) PROVE GenerationInv'
  <2>1. c \in Builds /\ target[c] = c /\ c \notin served /\ pc[c] = "write"
    BY <1>5 DEF GenerationInv, WriteGeneration, Step, Roles, Progress, Calls
  <2>2. TypeOK'
    BY <1>5, <2>1 DEF GenerationInv, TypeOK, WriteGeneration, Step, Phase, Indexes
  <2>3. Roles' /\ Progress' /\ History' /\ AliasedIsWhole' /\ AnswersAreTrue'
    BY <1>5, <2>1 DEF GenerationInv, TypeOK, WriteGeneration, Step, Roles, Progress, History,
                AliasedIsWhole, AnswersAreTrue, Calls, Indexes
  <2> QED
    BY <2>2, <2>3 DEF GenerationInv
<1>6. ASSUME NEW c \in Calls, ValidateGeneration(c) PROVE GenerationInv'
  <2> DEFINE to == pc'[c]
  <2>1. /\ pc[c] = "validate" /\ pc' = [pc EXCEPT ![c] = to]
        /\ UNCHANGED <<content, alias, target, expected, served, stranded>>
        /\ to \in {"compare", "cleanup", "raised"}
        /\ c \in Builds =>
              target[c] = c /\ to # "raised" /\ (to = "compare" => content[c] = "whole")
        /\ c \in Rollbacks => to # "cleanup"
    BY <1>6 DEF GenerationInv, TypeOK, ValidateGeneration, Step, Roles
  <2>2. stranded' \subseteq Calls /\ to \in Phase \ {"idle", "create", "write"}
    BY <2>1 DEF GenerationInv, TypeOK, Phase
  <2> HIDE DEF to
  <2> QED
    BY <2>1, <2>2, MoveKeeps
<1>7. ASSUME NEW c \in Calls, CompareAlias(c) PROVE GenerationInv'
  <2> DEFINE to == pc'[c]
  <2>1. /\ pc[c] = "compare" /\ pc' = [pc EXCEPT ![c] = to]
        /\ UNCHANGED <<content, alias, target, expected, served, stranded>>
        /\ to \in {"update", "resolve", "raised"}
        /\ c \in Builds => to # "raised"
        /\ c \in Rollbacks => to # "resolve"
    BY <1>7 DEF GenerationInv, TypeOK, CompareAlias, Step
  <2>2. stranded' \subseteq Calls /\ to \in Phase \ {"idle", "create", "write"}
    BY <2>1 DEF GenerationInv, TypeOK, Phase
  <2> HIDE DEF to
  <2> QED
    BY <2>1, <2>2, MoveKeeps
<1>8. ASSUME NEW c \in Calls, UpdateAlias(c) PROVE GenerationInv'
  <2> DEFINE to == pc'[c]
  <2>1. CASE \E i \in {target[c], expected[c]} \ {None} : content[i] = "absent"
    <3>1. /\ pc[c] = "update" /\ pc' = [pc EXCEPT ![c] = to]
          /\ UNCHANGED <<content, alias, target, expected, served, stranded>>
          /\ to \in {"resolve", "raised"}
          /\ c \in Builds => to # "raised"
          /\ c \in Rollbacks => to # "resolve"
      BY <1>8, <2>1 DEF GenerationInv, TypeOK, UpdateAlias, Step
    <3>2. stranded' \subseteq Calls /\ to \in Phase \ {"idle", "create", "write"}
      BY <3>1 DEF GenerationInv, TypeOK, Phase
    <3> HIDE DEF to
    <3> QED
      BY <3>1, <3>2, MoveKeeps
  <2>2. CASE ~ \E i \in {target[c], expected[c]} \ {None} : content[i] = "absent"
    <3>1. /\ pc[c] = "update" /\ pc' = [pc EXCEPT ![c] = to]
          /\ to \in {"confirm", "resolve", "raised"}
          /\ c \in Builds => to # "raised"
          /\ c \in Rollbacks => to # "resolve"
          /\ alias' = (alias \ {expected[c]}) \cup {target[c]}
          /\ served' = served \cup {target[c]}
          /\ UNCHANGED <<content, target, expected, stranded>>
      BY <1>8, <2>2 DEF GenerationInv, TypeOK, UpdateAlias, Step
    <3>2. target[c] \in Indexes /\ content[target[c]] = "whole"
      <4>1. target[c] \in Indexes /\ content[target[c]] # "absent"
        BY <2>2 DEF GenerationInv, TypeOK, Indexes
      <4>2. content[target[c]] # "part"
        BY <3>1 DEF GenerationInv, Roles, Progress, History, Calls
      <4> QED
        BY <4>1, <4>2 DEF GenerationInv, TypeOK
    <3>3. c \in Builds => target[c] = c
      BY <3>1 DEF GenerationInv, Roles
    <3> HIDE DEF to
    <3>4. TypeOK'
      BY <3>1, <3>2 DEF GenerationInv, TypeOK, Phase
    <3>5. Roles' /\ Progress'
      <4>1. c \in Rollbacks => target[c] \in served
        BY DEF GenerationInv, Roles
      <4> QED
        BY <3>1, <3>3, <4>1 DEF GenerationInv, TypeOK, Roles, Progress, Calls
    <3>6. History' /\ AliasedIsWhole'
      BY <3>1, <3>2 DEF GenerationInv, History, AliasedIsWhole
    <3>7. AnswersAreTrue'
      BY <3>1 DEF GenerationInv, TypeOK, AnswersAreTrue, Calls
    <3> QED
      BY <3>4, <3>5, <3>6, <3>7 DEF GenerationInv
  <2> QED
    BY <2>1, <2>2
<1>9. ASSUME NEW c \in Calls, ConfirmAlias(c) PROVE GenerationInv'
  <2> DEFINE to == pc'[c]
  <2>1. /\ pc[c] = "confirm" /\ pc' = [pc EXCEPT ![c] = to]
        /\ UNCHANGED <<content, alias, target, expected, served, stranded>>
        /\ to \in {"returned", "resolve", "raised"}
        /\ to = "returned" => Resolves(target[c])
        /\ c \in Builds => to # "raised"
        /\ c \in Rollbacks => to # "resolve"
    BY <1>9 DEF GenerationInv, TypeOK, ConfirmAlias, Step
  <2>2. stranded' \subseteq Calls /\ to \in Phase \ {"idle", "create", "write"}
    BY <2>1 DEF GenerationInv, TypeOK, Phase
  <2>3. to = "returned" => target[c] \in served
    BY <2>1, ResolvedIsAliased DEF GenerationInv, History
  <2> HIDE DEF to
  <2> QED
    BY <2>1, <2>2, <2>3, MoveKeeps
<1>10. ASSUME NEW c \in Calls, ResolveOutcome(c) PROVE GenerationInv'
  <2> DEFINE to == pc'[c]
  <2>1. /\ pc[c] = "resolve" /\ pc' = [pc EXCEPT ![c] = to]
        /\ UNCHANGED <<content, alias, target, expected, served, stranded>>
        /\ to \in {"returned", "cleanup"}
        /\ to = "returned" => Resolves(target[c])
        /\ c \in Builds /\ c \notin Rollbacks
    BY <1>10 DEF GenerationInv, TypeOK, ResolveOutcome, Step, Roles, Calls
  <2>2. stranded' \subseteq Calls /\ to \in Phase \ {"idle", "create", "write"}
    BY <2>1 DEF GenerationInv, TypeOK, Phase
  <2>3. to = "returned" => target[c] \in served
    BY <2>1, ResolvedIsAliased DEF GenerationInv, History
  <2> HIDE DEF to
  <2> QED
    BY <2>1, <2>2, <2>3, MoveKeeps
<1>11. ASSUME NEW c \in Calls, CleanUp(c) \/ RecheckAlias(c) PROVE GenerationInv'
  <2> DEFINE to == pc'[c]
  <2>1. /\ pc[c] \in {"cleanup", "recheck"} /\ pc' = [pc EXCEPT ![c] = to]
        /\ UNCHANGED <<content, alias, target, expected, served>>
        /\ stranded' \in {stranded, stranded \cup {c}}
        /\ to \in {"raised", "recheck", "delete"}
        /\ to = "raised" => c \in stranded' \/ Resolves(target[c])
        /\ c \in Builds /\ c \notin Rollbacks
    BY <1>11 DEF GenerationInv, TypeOK, CleanUp, RecheckAlias, Step, Roles, Calls
  <2>2. stranded' \subseteq Calls /\ to \in Phase \ {"idle", "create", "write"}
    BY <2>1 DEF GenerationInv, TypeOK, Phase
  <2>3. to = "raised" => c \in stranded' \/ target[c] \in served
    BY <2>1, ResolvedIsAliased DEF GenerationInv, History
  <2> HIDE DEF to
  <2> QED
    BY <2>1, <2>2, <2>3, MoveKeeps
<1>12. ASSUME NEW c \in Calls, DeleteIndex(c) PROVE GenerationInv'
  <2>1. c \in Builds /\ target[c] = c /\ pc[c] = "delete"
    BY <1>12 DEF GenerationInv, DeleteIndex, Step, Roles, Calls
  <2>2. TypeOK'
    BY <1>12 DEF GenerationInv, TypeOK, DeleteIndex, Step, Phase
  <2>3. Roles' /\ Progress' /\ History' /\ AliasedIsWhole' /\ AnswersAreTrue'
    BY <1>12, <2>1 DEF GenerationInv, TypeOK, DeleteIndex, Step, Roles, Progress, History,
                AliasedIsWhole, AnswersAreTrue, Calls, Indexes
  <2> QED
    BY <2>2, <2>3 DEF GenerationInv
<1>15. ASSUME NEW c \in Calls, CreateFails(c) PROVE GenerationInv'
  <2>1. c \in Builds /\ target[c] = c /\ c \notin served /\ content[c] = "absent"
    BY <1>15 DEF GenerationInv, CreateFails, Step, Roles, Progress, Calls
  <2>2. TypeOK'
    BY <1>15 DEF GenerationInv, TypeOK, CreateFails, Step, Phase
  <2>3. Roles' /\ Progress' /\ History' /\ AliasedIsWhole' /\ AnswersAreTrue'
    <3>1. CASE content' = content /\ stranded' = stranded
      BY <1>15, <2>1, <3>1 DEF GenerationInv, TypeOK, CreateFails, Step, Roles, Progress, History,
                AliasedIsWhole, AnswersAreTrue, Calls
    <3>2. CASE /\ content' = [content EXCEPT ![c] = "part"] /\ stranded' = stranded \cup {c}
      BY <1>15, <2>1, <3>2 DEF GenerationInv, TypeOK, CreateFails, Step, Roles, Progress, History,
                AliasedIsWhole, AnswersAreTrue, Calls
    <3> QED
      BY <1>15, <2>1, <3>1, <3>2 DEF CreateFails
  <2> QED
    BY <2>2, <2>3 DEF GenerationInv
<1>13. ASSUME NEW c \in Calls, SearchFails(c) PROVE GenerationInv'
  <2> DEFINE to == AfterFailure(c)
  <2>1. /\ pc[c] \notin {"idle", "create", "write"} /\ pc' = [pc EXCEPT ![c] = to]
        /\ UNCHANGED <<content, alias, target, expected, served>>
        /\ stranded' \in {stranded, stranded \cup {c}}
        /\ pc[c] \in {"cleanup", "recheck", "delete"} => c \in stranded'
    BY <1>13 DEF SearchFails
  <2>2. /\ to \in {"raised", "cleanup", "resolve"}
        /\ c \in Rollbacks => to = "raised"
        /\ to = "raised" /\ c \in Builds => pc[c] \in {"cleanup", "recheck", "delete"}
    BY <1>13 DEF SearchFails, AfterFailure, GenerationInv, TypeOK, Phase, Calls
  <2>4. stranded' \subseteq Calls /\ to \in Phase \ {"idle", "create", "write"}
    BY <2>1, <2>2 DEF GenerationInv, TypeOK, Phase
  <2> HIDE DEF to
  <2> QED
    BY <2>1, <2>2, <2>4, MoveKeeps
<1>14. ASSUME NEW c \in Calls, Crash(c) PROVE GenerationInv'
  <2>1. "raised" \in Phase \ {"idle", "create", "write"} /\ stranded' \subseteq Calls
    BY <1>14 DEF Crash, Phase, GenerationInv, TypeOK
  <2> QED
    BY <1>14, <2>1, MoveKeeps DEF Crash
<1> QED
  BY <1>1, <1>2, <1>3, <1>4, <1>5, <1>6, <1>7, <1>8, <1>9, <1>10, <1>11, <1>12, <1>13, <1>14,
     <1>15 DEF Next, CallStep

-----------------------------------------------------------------------------
\* Types, roles, progress and history hold throughout: the invariant that the
\* three theorems below are parts of.
THEOREM GenerationInvariant == Spec => []GenerationInv
BY InitGeneration, StepGeneration, PTL DEF Spec

\* However many rebuilds, clean-ups and rollbacks overlap and whatever fails, the
\* read alias serves whole generations.
THEOREM AliasServesWhole == Spec => []AliasedIsWhole
<1>1. GenerationInv => AliasedIsWhole
  BY DEF GenerationInv
<1> QED
  BY <1>1, GenerationInvariant, PTL

\* A call that returns has had its index in service, a build that raises without
\* has removed it, unless it died, its clean-up failed or the answer to its create
\* was lost.
THEOREM CallersAreTold == Spec => []AnswersAreTrue
<1>1. GenerationInv => AnswersAreTrue
  BY DEF GenerationInv
<1> QED
  BY <1>1, GenerationInvariant, PTL

-----------------------------------------------------------------------------
(* Uploads.                                                                  *)

\* How far a call has come, and what the rows show of it.
CallsAgree ==
    \A c \in Submits :
        /\ call[c] \in {"idle", "put", "register"} => version[c] = "absent"
        /\ call[c] = "commit" => c # job.document /\ version[c] # "absent"
        /\ call[c] \in {"publish", "acknowledged"} => job.document # NoJob
        /\ c = job.document => version[c] # "absent"

\* Before the job is committed nothing is queued or run.
NoJobNoRun ==
    job.document = NoJob => /\ message.state = "none" /\ run.pc = "idle"
                           /\ job.status = "pending"
                           /\ \A s \in Stages : task[s] = "pending"

\* One run at a time, and none once the document is served but the one that was not
\* told of it.
OneRun ==
    /\ run.pc # "idle" <=> message.state = "running"
    /\ run.pc # "idle" => \/ current = {} /\ job.status # "succeeded"
                          \/ run.pc = "fail_task" /\ run.job = "succeeded"

\* A run has done the stages before its own, and the object was there for the
\* first of them.
StagesDone ==
    /\ run.pc \in {"begin", "register"} => run.stage = 1
    /\ run.pc \in {"start", "work", "succeed"} =>
          \A s \in Stages : s < run.stage => task[s] = "succeeded"
    /\ run.pc \in {"activate", "finish"} => \A s \in Stages : task[s] = "succeeded"
    /\ run.pc = "finish" => overlooked \/ records = "active"
    /\ run.pc = "succeed" /\ run.stage = 1 => overlooked \/ object
    /\ task[1] = "succeeded" => overlooked \/ object

\* A repair that no registration has overtaken knows every version.
RepairKnows == repair.pc # "idle" => overlooked \/ repair.known = Registered

UploadInv == /\ UploadTypeOK /\ CallsAgree /\ NoJobNoRun /\ OneRun /\ StagesDone
             /\ RepairKnows /\ StrayIsNeverBuilt /\ ServedIsWhole

-----------------------------------------------------------------------------
(* The shape of the records, one lemma for each.                             *)

JobStatus == {"pending", "running", "succeeded", "failed"}
Versions  == {"absent", "registered", "ingesting", "ready", "failed"}
Tasks     == {"pending", "running", "succeeded", "failed", "refused"}
Runs      == [pc : RunPhase, stage : Stages, job : JobStatus, version : Versions,
              retryable : BOOLEAN]
Messages  == [state : {"none", "queued", "orphaned", "running", "answered"}, tries : 0..MaxTries]

\* What a step writes into the copies of a run has their types.
LEMMA RunShape ==
  ASSUME NEW r \in Runs
  PROVE  /\ \A at \in RunPhase : [r EXCEPT !.pc = at] \in Runs
         /\ \A at \in RunPhase, j \in JobStatus : [r EXCEPT !.pc = at, !.job = j] \in Runs
         /\ \A at \in RunPhase, v \in Versions : [r EXCEPT !.pc = at, !.version = v] \in Runs
         /\ \A at \in RunPhase, b \in BOOLEAN : [r EXCEPT !.pc = at, !.retryable = b] \in Runs
         /\ \A at \in RunPhase, n \in Stages : [r EXCEPT !.pc = at, !.stage = n] \in Runs
BY DEF Runs

\* No run, and a run that has raised.
LEMMA IdleShape == Idle \in Runs /\ Idle.pc = "idle" /\ Idle.stage = 1
BY DEF Idle, Runs, RunPhase, Stages, JobStatus, Versions

\* A run that has raised is about to record its failure.
LEMMA RaiseShape ==
  ASSUME NEW j \in JobStatus, NEW b \in BOOLEAN, RaiseWith(j, b)
  PROVE  run' \in Runs /\ run'.pc = "fail_task" /\ run'.job = j
BY IdleShape DEF RaiseWith, Runs, RunPhase

\* What the queue writes into a message has its type.
LEMMA MessageShape ==
  ASSUME NEW m \in Messages
  PROVE  \A st \in {"none", "queued", "orphaned", "running", "answered"} :
            [m EXCEPT !.state = st] \in Messages
BY DEF Messages

\* A step of a run has the types of what it writes to show.
LEMMA RunTypes ==
  ASSUME UploadTypeOK, UNCHANGED <<call, object, repair, history>>,
         version' \in [Submits -> Versions], current' \subseteq Submits,
         job' \in [document : Submits \cup {NoJob}, status : JobStatus],
         task' \in [Stages -> Tasks], records' \in {"none", "inactive", "active"},
         message' \in Messages, run' \in Runs
  PROVE  UploadTypeOK'
BY DEF UploadTypeOK, history, Versions, JobStatus, Tasks, Messages, Runs

\* The types, by part.
LEMMA TypeParts ==
  ASSUME UploadTypeOK
  PROVE  /\ version \in [Submits -> Versions] /\ current \subseteq Submits
         /\ job \in [document : Submits \cup {NoJob}, status : JobStatus]
         /\ task \in [Stages -> Tasks] /\ records \in {"none", "inactive", "active"}
         /\ message \in Messages /\ run \in Runs
         /\ run.stage \in Stages
BY DEF UploadTypeOK, Versions, JobStatus, Tasks, Messages, Runs

-----------------------------------------------------------------------------
\* Nothing is uploaded.
LEMMA InitUpload ==
  ASSUME UploadInit
  PROVE  UploadInv
<1>1. UploadTypeOK
  <2>1. /\ call \in [Submits -> CallPhase] /\ version \in [Submits -> Versions]
        /\ task \in [Stages -> Tasks]
    BY DEF UploadInit, CallPhase, Versions, Tasks
  <2>2. run \in Runs
    BY IdleShape DEF UploadInit
  <2>3. message \in Messages
    BY UploadConstants DEF UploadInit, Messages
  <2>4. repair \in [pc : {"idle", "objects", "projections"}, known : SUBSET Submits,
                    count : 0..Repairs]
    BY UploadConstants DEF UploadInit
  <2>5. job \in [document : Submits \cup {NoJob}, status : JobStatus]
    BY DEF UploadInit, JobStatus
  <2> QED
    BY <2>1, <2>2, <2>3, <2>4, <2>5
       DEF UploadInit, UploadTypeOK, Versions, Tasks, Runs, Messages, JobStatus
<1>2. CallsAgree /\ NoJobNoRun /\ OneRun
  BY IdleShape, UploadConstants DEF UploadInit, CallsAgree, NoJobNoRun, OneRun, Stages
<1>3. StagesDone /\ RepairKnows
  BY IdleShape DEF UploadInit, StagesDone, RepairKnows, Stages
<1>4. StrayIsNeverBuilt /\ ServedIsWhole
  BY DEF UploadInit, StrayIsNeverBuilt, ServedIsWhole
<1> QED
  BY <1>1, <1>2, <1>3, <1>4 DEF UploadInv

\* The upload call, up to the message it enqueues.
LEMMA SubmitSteps ==
  ASSUME UploadInv, NEW c \in Submits,
         LookUpJob(c) \/ PutObject(c) \/ RegisterDocument(c) \/ AddJob(c) \/ Publish(c)
         \/ RequestFails(c)
  PROVE  UploadInv'
<1> USE UploadConstants DEF UploadInv
<1>1. call \in [Submits -> CallPhase] /\ UploadTypeOK
  BY DEF UploadTypeOK
<1>2. CASE LookUpJob(c)
  <2>1. UploadTypeOK' /\ CallsAgree'
    BY <1>1, <1>2 DEF LookUpJob, Advance, UploadTypeOK, CallPhase, CallsAgree, rows, history
  <2> QED
    BY <1>2, <2>1 DEF LookUpJob, rows, history, NoJobNoRun, OneRun, StagesDone,
       RepairKnows, Registered, StrayIsNeverBuilt, ServedIsWhole
<1>3. CASE PutObject(c)
  <2>1. UploadTypeOK' /\ CallsAgree'
    BY <1>1, <1>3 DEF PutObject, Advance, UploadTypeOK, CallPhase, CallsAgree, rows, history
  <2> QED
    BY <1>3, <2>1 DEF PutObject, rows, history, NoJobNoRun, OneRun, StagesDone,
       RepairKnows, Registered, StrayIsNeverBuilt, ServedIsWhole
<1>4. CASE RegisterDocument(c)
  <2>1. UploadTypeOK'
    BY <1>1, <1>4 DEF RegisterDocument, Advance, UploadTypeOK, CallPhase
  <2>2. c # job.document /\ version[c] = "absent"
    BY <1>1, <1>4 DEF RegisterDocument, Advance, CallsAgree
  <2>3. /\ version' = [version EXCEPT ![c] = "registered"]
        /\ call' = [call EXCEPT ![c] = "commit"]
        /\ overlooked' = (overlooked \/ repair.pc # "idle")
        /\ UNCHANGED <<object, current, job, task, records, message, run, repair, lost>>
    BY <1>4 DEF RegisterDocument, Advance
  <2>4. CallsAgree'
    BY <1>1, <2>2, <2>3 DEF CallsAgree, UploadTypeOK
  <2>5. NoJobNoRun' /\ OneRun' /\ StagesDone' /\ RepairKnows'
    BY <1>1, <2>3 DEF NoJobNoRun, OneRun, StagesDone, RepairKnows, UploadTypeOK
  <2>6. StrayIsNeverBuilt' /\ ServedIsWhole'
    BY <1>1, <2>2, <2>3 DEF StrayIsNeverBuilt, ServedIsWhole, UploadTypeOK
  <2> QED
    BY <2>1, <2>4, <2>5, <2>6
<1>5. CASE AddJob(c)
  <2>1. CASE job.document = NoJob
    <3>1. /\ call[c] = "commit" /\ call' = [call EXCEPT ![c] = "publish"]
          /\ job' = [document |-> c, status |-> "pending"]
          /\ UNCHANGED <<object, version, current, task, records, message, run, repair, history>>
      BY <1>5, <2>1 DEF AddJob, Advance
    <3>2. UploadTypeOK'
      BY <1>1, <3>1 DEF UploadTypeOK, CallPhase, history
    <3>3. CallsAgree'
      BY <1>1, <3>1, <2>1 DEF CallsAgree, UploadTypeOK
    <3>4. current = {}
      BY <1>1, <2>1 DEF StrayIsNeverBuilt, UploadTypeOK
    <3>5. NoJobNoRun' /\ OneRun' /\ StagesDone' /\ RepairKnows'
      BY <1>1, <2>1, <3>1 DEF NoJobNoRun, OneRun, StagesDone, RepairKnows, UploadTypeOK, Registered,
         history
    <3>6. StrayIsNeverBuilt' /\ ServedIsWhole'
      BY <1>1, <2>1, <3>1, <3>4 DEF StrayIsNeverBuilt, ServedIsWhole, UploadTypeOK
    <3> QED
      BY <3>2, <3>3, <3>5, <3>6
  <2>2. CASE job.document # NoJob
    <3>1. /\ call[c] = "commit" /\ call' = [call EXCEPT ![c] = "failed"]
          /\ UNCHANGED <<object, version, current, job, task, records, message, run, repair,
                         history>>
      BY <1>5, <2>2 DEF AddJob, Advance
    <3>2. UploadTypeOK' /\ CallsAgree'
      BY <1>1, <3>1 DEF UploadTypeOK, CallPhase, history, CallsAgree
    <3> QED
      BY <3>1, <3>2 DEF history, NoJobNoRun, OneRun, StagesDone,
         RepairKnows, Registered, StrayIsNeverBuilt, ServedIsWhole
  <2> QED
    BY <2>1, <2>2
<1>6. CASE Publish(c)
  <2>1. job.document # NoJob
    BY <1>6 DEF Publish, Advance, CallsAgree
  <2>2. UploadTypeOK' /\ CallsAgree'
    BY <1>1, <1>6 DEF Publish, Enqueued, Advance, UploadTypeOK, CallPhase, CallsAgree, rows, history
  <2>3. NoJobNoRun' /\ OneRun'
    BY <1>1, <1>6, <2>1 DEF Publish, Enqueued, rows, NoJobNoRun, OneRun, UploadTypeOK
  <2> QED
    BY <1>6, <2>2, <2>3 DEF Publish, rows, history, StagesDone,
       RepairKnows, Registered, StrayIsNeverBuilt, ServedIsWhole
<1>7. CASE RequestFails(c)
  <2>1. /\ \E from \in {"put", "register", "commit", "publish"} :
              call[c] = from /\ call' = [call EXCEPT ![c] = "failed"]
        /\ message' = message \/ (message' = Enqueued /\ call[c] = "publish")
        /\ UNCHANGED <<object, version, current, job, task, records, run, repair, history>>
    BY <1>7 DEF RequestFails, Advance, rows
  <2>2. message'.state = "running" <=> message.state = "running"
    BY <2>1 DEF Enqueued
  <2>3. message' = message \/ job.document # NoJob
    BY <2>1 DEF CallsAgree
  <2>4. UploadTypeOK'
    BY <1>1, <2>1 DEF Enqueued, UploadTypeOK, CallPhase, history
  <2>5. CallsAgree'
    BY <1>1, <2>1 DEF UploadTypeOK, CallsAgree
  <2>6. NoJobNoRun' /\ OneRun'
    BY <2>1, <2>2, <2>3 DEF NoJobNoRun, OneRun
  <2> QED
    BY <2>1, <2>4, <2>5, <2>6 DEF history, StagesDone,
       RepairKnows, Registered, StrayIsNeverBuilt, ServedIsWhole
<1> QED
  BY <1>2, <1>3, <1>4, <1>5, <1>6, <1>7

-----------------------------------------------------------------------------
\* Delivery, and the queue after a run that broke off.
LEMMA QueueSteps ==
  ASSUME UploadInv, Deliver \/ Exhaust \/ LoadFails \/ ResultExpires \/ WorkerDies \/ JobTimeout
  PROVE  UploadInv'
<1> USE UploadConstants DEF UploadInv
<1>1. UploadTypeOK
  OBVIOUS
<1>2. CASE Deliver
  <2>1. job.document \in Submits /\ run.pc = "idle"
    BY <1>1, <1>2 DEF Deliver, Waiting, NoJobNoRun, OneRun, UploadTypeOK
  <2>2. version[job.document] \in {"absent", "registered", "ingesting", "ready", "failed"}
        /\ job.status \in {"pending", "running", "succeeded", "failed"}
        /\ message.tries + 1 \in 0..MaxTries
    BY <1>1, <1>2, <2>1 DEF Deliver, TriesLeft, UploadTypeOK
  <2>3. UploadTypeOK'
    BY <1>1, <1>2, <2>2 DEF Deliver, UploadTypeOK, rows, history, RunPhase, Stages
  <2>4. job.status # "succeeded" => current = {}
    BY DEF ServedIsWhole
  <2>5. NoJobNoRun' /\ OneRun' /\ StagesDone'
    BY <1>1, <1>2, <2>1, <2>4 DEF Deliver, Waiting, NoJobNoRun, OneRun, StagesDone, rows, history
  <2> QED
    BY <1>2, <2>3, <2>5 DEF Deliver, rows, history, CallsAgree,
       RepairKnows, Registered, StrayIsNeverBuilt, ServedIsWhole
<1>3. CASE Exhaust \/ LoadFails \/ ResultExpires
  <2>0. message'.state \in {"none", "answered"} /\ message.state # "running"
        /\ message'.tries \in 0..MaxTries /\ lost' \in BOOLEAN
        /\ message' \in [state : {"none", "answered"}, tries : 0..MaxTries]
        /\ UNCHANGED <<call, object, rows, records, run, repair, overlooked>>
        /\ message.state # "none"
    <3>1. CASE Exhaust
      BY <1>1, <3>1 DEF Exhaust, Waiting, UploadTypeOK
    <3>2. CASE ResultExpires
      BY <1>1, <3>2 DEF ResultExpires, UploadTypeOK, history
    <3>3. CASE LoadFails
      BY <1>1, <3>3 DEF LoadFails, Waiting, TriesLeft, UploadTypeOK
    <3> QED
      BY <1>3, <3>1, <3>2, <3>3
  <2>1. UploadTypeOK'
    BY <1>1, <2>0 DEF UploadTypeOK, rows
  <2>2. NoJobNoRun' /\ OneRun'
    BY <1>1, <2>0 DEF NoJobNoRun, OneRun, rows
  <2> QED
    BY <2>0, <2>1, <2>2 DEF rows, CallsAgree, StagesDone, RepairKnows, Registered,
       StrayIsNeverBuilt, ServedIsWhole
<1>4. CASE WorkerDies \/ JobTimeout
  <2>0. /\ run.pc # "idle" /\ run' = Idle
        /\ \E state \in {"orphaned", "answered"} : message' = [message EXCEPT !.state = state]
        /\ lost' \in BOOLEAN /\ UNCHANGED <<call, object, rows, records, repair, overlooked>>
    BY <1>1, <1>4 DEF WorkerDies, JobTimeout, At, Leave, history, UploadTypeOK
  <2>1. UploadTypeOK'
    BY <1>1, <2>0, IdleShape DEF UploadTypeOK, RunPhase, rows, Runs, JobStatus, Versions
  <2>2. run'.pc = "idle" /\ message'.state # "running" /\ job.document # NoJob
    BY <1>1, <2>0, IdleShape DEF UploadTypeOK, NoJobNoRun
  <2>3. NoJobNoRun' /\ OneRun'
    BY <2>0, <2>2 DEF NoJobNoRun, OneRun, rows
  <2>4. StagesDone'
    BY <2>0, <2>2 DEF StagesDone, rows
  <2> QED
    BY <2>0, <2>1, <2>3, <2>4 DEF rows, CallsAgree,
       RepairKnows, Registered, StrayIsNeverBuilt, ServedIsWhole
<1> QED
  BY <1>2, <1>3, <1>4

-----------------------------------------------------------------------------
\* The reconciler: what it lists, removes and enqueues again.
LEMMA RepairSteps ==
  ASSUME UploadInv, Reconcile
  PROVE  UploadInv'
<1> USE UploadConstants DEF UploadInv
<1>1. UploadTypeOK
  OBVIOUS
<1>2. CASE ReadRows
  <2>1. PICK known \in SUBSET Registered :
          /\ repair' = [pc |-> "objects", known |-> known, count |-> repair.count + 1]
          /\ overlooked' = (overlooked \/ known # Registered)
    BY <1>2 DEF ReadRows
  <2>2. Registered \subseteq Submits
    BY DEF Registered
  <2>3. UploadTypeOK' /\ RepairKnows'
    <3>1. UNCHANGED <<call, object, version, current, job, task, records, message, run, lost>>
      BY <1>2 DEF ReadRows, rows
    <3>2. repair.count + 1 \in 0..Repairs /\ overlooked' \in BOOLEAN
      BY <1>1, <1>2, <2>1 DEF ReadRows, UploadTypeOK
    <3>3. UploadTypeOK'
      BY <1>1, <2>1, <2>2, <3>1, <3>2 DEF UploadTypeOK
    <3>4. RepairKnows'
      BY <2>1, <3>1 DEF RepairKnows, Registered
    <3> QED
      BY <3>3, <3>4
  <2>4. overlooked => overlooked'
    BY <2>1
  <2> QED
    BY <1>2, <2>3, <2>4 DEF ReadRows, rows, CallsAgree, NoJobNoRun, OneRun, StagesDone,
       StrayIsNeverBuilt, ServedIsWhole
<1>3. CASE DeleteOrphanObject
  <2>1. UploadTypeOK' /\ RepairKnows'
    BY <1>1, <1>3 DEF DeleteOrphanObject, UploadTypeOK, RepairKnows, Registered, rows, history
  <2>2. job.document # NoJob /\ ~overlooked => object' = object
    BY <1>1, <1>3 DEF DeleteOrphanObject, RepairKnows, CallsAgree, Registered, UploadTypeOK
  <2>3. current # {} => job.document # NoJob
    BY <1>1 DEF StrayIsNeverBuilt, UploadTypeOK
  <2>4. UNCHANGED <<call, rows, records, message, run, history>>
    BY <1>3 DEF DeleteOrphanObject
  <2>5. task[1] = "succeeded" \/ run.pc # "idle" => job.document # NoJob
    BY <1>1 DEF NoJobNoRun, Stages
  <2>6. StagesDone' /\ ServedIsWhole'
    BY <2>2, <2>3, <2>4, <2>5 DEF rows, history, StagesDone, ServedIsWhole
  <2> QED
    BY <2>1, <2>4, <2>6 DEF rows, history, CallsAgree, NoJobNoRun, OneRun, StrayIsNeverBuilt
<1>4. CASE DeleteOrphanRecords
  <2>1. UploadTypeOK' /\ RepairKnows'
    <3>1. /\ repair' = [repair EXCEPT !.pc = "idle", !.known = {}]
          /\ records' \in {"none", records}
          /\ UNCHANGED <<call, object, rows, message, run, history>>
      BY <1>4 DEF DeleteOrphanRecords
    <3>2. repair' \in [pc : {"idle", "objects", "projections"}, known : SUBSET Submits,
                       count : 0..Repairs] /\ repair'.pc = "idle"
      BY <1>1, <3>1 DEF UploadTypeOK
    <3>3. records' \in {"none", "inactive", "active"}
      BY <1>1, <3>1 DEF UploadTypeOK
    <3> QED
      BY <1>1, <3>1, <3>2, <3>3 DEF UploadTypeOK, RepairKnows, rows, history
  <2>2. job.document # NoJob /\ ~overlooked => records' = records
    BY <1>1, <1>4 DEF DeleteOrphanRecords, RepairKnows, CallsAgree, Registered, UploadTypeOK, Mine
  <2>3. current # {} => job.document # NoJob
    BY <1>1 DEF StrayIsNeverBuilt, UploadTypeOK
  <2>4. UNCHANGED <<call, object, rows, message, run, history>>
    BY <1>4 DEF DeleteOrphanRecords
  <2>5. run.pc # "idle" => job.document # NoJob
    BY DEF NoJobNoRun
  <2>6. StagesDone' /\ ServedIsWhole'
    BY <2>2, <2>3, <2>4, <2>5 DEF rows, history, StagesDone, ServedIsWhole
  <2> QED
    BY <2>1, <2>4, <2>6 DEF rows, history, CallsAgree, NoJobNoRun, OneRun, StrayIsNeverBuilt
<1> QED
  BY <1>2, <1>3, <1>4 DEF Reconcile

-----------------------------------------------------------------------------
\* What every step of a run leaves alone, and what it starts from.
LEMMA RunFacts ==
  ASSUME UploadInv, run.pc # "idle"
  PROVE  /\ job.document \in Submits /\ version[job.document] # "absent"
         /\ message.state = "running" /\ current \in {{}, {job.document}}
         /\ \/ current = {} /\ job.status # "succeeded"
            \/ run.pc = "fail_task" /\ run.job = "succeeded"
<1>1. /\ job.document \in Submits /\ version[job.document] # "absent"
      /\ message.state = "running"
      /\ \/ current = {} /\ job.status # "succeeded"
         \/ run.pc = "fail_task" /\ run.job = "succeeded"
  BY UploadConstants DEF UploadInv, NoJobNoRun, CallsAgree, OneRun, UploadTypeOK
<1>2. current \in {{}, {job.document}}
  BY <1>1 DEF UploadInv, StrayIsNeverBuilt, UploadTypeOK
<1> QED
  BY <1>1, <1>2

\* A step of a run that leaves the rows of calls and repairs alone keeps what
\* they agree on.
LEMMA RunFrame ==
  ASSUME UploadInv, run.pc # "idle", UNCHANGED <<call, repair, overlooked>>,
         job'.document = job.document,
         \A c \in Submits : c # job.document => version'[c] = version[c],
         version'[job.document] # "absent",
         version' \in [Submits -> {"absent", "registered", "ingesting", "ready", "failed"}],
         current' \in {{}, {job.document}}
  PROVE  CallsAgree' /\ RepairKnows' /\ StrayIsNeverBuilt' /\ NoJobNoRun'
<1>1. job.document \in Submits /\ job.document # NoJob /\ version[job.document] # "absent"
  BY RunFacts, UploadConstants
<1>2. \A c \in Submits : version'[c] = "absent" <=> version[c] = "absent"
  BY <1>1 DEF UploadInv, UploadTypeOK
<1>3. CallsAgree'
  BY <1>1, <1>2 DEF UploadInv, CallsAgree
<1>4. RepairKnows'
  BY <1>2 DEF UploadInv, RepairKnows, Registered
<1>5. StrayIsNeverBuilt' /\ NoJobNoRun'
  BY <1>1 DEF UploadInv, StrayIsNeverBuilt, NoJobNoRun
<1> QED
  BY <1>3, <1>4, <1>5

\* A run that raises, whatever it has written into the index by then.
LEMMA RunRaises ==
  ASSUME UploadInv, run.pc \notin {"idle", "fail_task"},
         NEW j \in JobStatus, NEW b \in BOOLEAN, RaiseWith(j, b),
         UNCHANGED <<call, object, repair, history, version, current, job, task, message>>,
         records' \in {"none", "inactive", "active"}
  PROVE  UploadInv'
<1>1. UploadTypeOK /\ OneRun /\ StagesDone
  BY DEF UploadInv
<1>2. /\ job.document \in Submits /\ version[job.document] # "absent"
      /\ message.state = "running" /\ current = {} /\ job.status # "succeeded"
  BY <1>1, RunFacts
<1>3. run' \in Runs /\ run'.pc = "fail_task"
  BY RaiseShape
<1>4. UploadTypeOK'
  BY <1>1, <1>3, TypeParts, RunTypes
<1>5. OneRun' /\ ServedIsWhole'
  BY <1>2, <1>3 DEF OneRun, ServedIsWhole
<1>6. StagesDone'
  BY <1>1, <1>3 DEF StagesDone, history
<1>7. CallsAgree' /\ RepairKnows' /\ StrayIsNeverBuilt' /\ NoJobNoRun'
  BY <1>1, <1>2, RunFrame DEF UploadTypeOK, history
<1> QED
  BY <1>4, <1>5, <1>6, <1>7 DEF UploadInv

\* What a run reads and claims before its first stage.
LEMMA BeginSteps ==
  ASSUME UploadInv, MarkRunning \/ MarkIngesting \/ StartTask
  PROVE  UploadInv'
<1>1. UploadTypeOK /\ run.pc \notin {"idle", "fail_task"} /\ OneRun /\ StagesDone
  BY DEF UploadInv, MarkRunning, MarkIngesting, StartTask, At
<1>2. /\ job.document \in Submits /\ version[job.document] # "absent"
      /\ message.state = "running" /\ current = {} /\ job.status # "succeeded"
  BY <1>1, RunFacts
<1>0. /\ version \in [Submits -> Versions] /\ current \subseteq Submits
      /\ job \in [document : Submits \cup {NoJob}, status : JobStatus]
      /\ task \in [Stages -> Tasks] /\ records \in {"none", "inactive", "active"}
      /\ message \in Messages /\ run \in Runs /\ run.stage \in Stages
  BY <1>1, TypeParts
<1>3. CASE MarkRunning
  <2>1. /\ UNCHANGED <<call, object, repair, history, version, current, task, records, message>>
        /\ \/ run' = [run EXCEPT !.pc = "register", !.job = "running"]
           \/ run' = [run EXCEPT !.pc = "register"]
        /\ job' = job \/ job' = [job EXCEPT !.status = "running"]
        /\ run.pc = "begin"
    BY <1>3 DEF MarkRunning, Untouched, Goto, At
  <2>2. UploadTypeOK'
    <3>1. run' \in Runs
      <4>1. "register" \in RunPhase /\ "running" \in JobStatus
        BY DEF RunPhase, JobStatus
      <4>2. CASE run' = [run EXCEPT !.pc = "register", !.job = "running"]
        BY <1>0, <4>1, <4>2, RunShape
      <4>3. CASE run' = [run EXCEPT !.pc = "register"]
        BY <1>0, <4>1, <4>3, RunShape
      <4> QED
        BY <2>1, <4>2, <4>3
    <3>2. job' \in [document : Submits \cup {NoJob}, status : JobStatus]
      BY <1>0, <2>1 DEF JobStatus
    <3> QED
      BY <1>0, <1>1, <2>1, <3>1, <3>2, RunTypes
  <2>3. OneRun' /\ StagesDone' /\ ServedIsWhole' /\ job'.document = job.document
    BY ZenonT(40), <1>1, <1>2, <2>1 DEF UploadTypeOK, OneRun, StagesDone, ServedIsWhole, history
  <2>4. CallsAgree' /\ RepairKnows' /\ StrayIsNeverBuilt' /\ NoJobNoRun'
    BY <1>1, <1>2, <2>1, <2>3, RunFrame DEF UploadTypeOK, history
  <2> QED
    BY <2>2, <2>3, <2>4 DEF UploadInv
<1>4. CASE MarkIngesting
  <2>1. /\ UNCHANGED <<call, object, repair, history, current, job, task, records, message>>
        /\ \/ run' = [run EXCEPT !.pc = "start", !.version = "ingesting"]
           \/ run' = [run EXCEPT !.pc = "start"]
        /\ version' = version \/ version' = [version EXCEPT ![job.document] = "ingesting"]
        /\ run.pc = "register"
    BY <1>4 DEF MarkIngesting, Untouched, Goto, At, Mine
  <2>2. UploadTypeOK'
    <3>1. run' \in Runs
      <4>1. "start" \in RunPhase /\ "ingesting" \in Versions
        BY DEF RunPhase, Versions
      <4>2. CASE run' = [run EXCEPT !.pc = "start", !.version = "ingesting"]
        BY <1>0, <4>1, <4>2, RunShape
      <4>3. CASE run' = [run EXCEPT !.pc = "start"]
        BY <1>0, <4>1, <4>3, RunShape
      <4> QED
        BY <2>1, <4>2, <4>3
    <3>2. version' \in [Submits -> Versions]
      BY <1>0, <2>1 DEF Versions
    <3> QED
      BY <1>0, <1>1, <2>1, <3>1, <3>2, RunTypes
  <2>3. OneRun' /\ ServedIsWhole'
    BY <1>0, <1>1, <1>2, <2>1 DEF OneRun, ServedIsWhole, Runs
  <2>4. run'.pc = "start" /\ run'.stage = 1
    BY <1>0, <1>1, <2>1 DEF Runs, StagesDone
  <2>5. StagesDone'
    BY <1>1, <2>1, <2>4 DEF StagesDone, Stages, history
  <2>6. CallsAgree' /\ RepairKnows' /\ StrayIsNeverBuilt' /\ NoJobNoRun'
    BY <1>1, <1>2, <2>1, <2>2, RunFrame DEF UploadTypeOK, history
  <2> QED
    BY <2>2, <2>3, <2>5, <2>6 DEF UploadInv
<1>5. CASE StartTask /\ task[run.stage] = "refused"
  <2>1. /\ RaiseWith(run.job, FALSE) /\ run.job \in JobStatus
        /\ UNCHANGED <<call, object, repair, history, version, current, job, task, message, records>>
    BY <1>0, <1>5 DEF StartTask, Untouched, Raise, Runs
  <2> QED
    BY <1>0, <1>1, <2>1, RunRaises
<1>6. CASE StartTask /\ task[run.stage] # "refused"
  <2>1. /\ UNCHANGED <<call, object, repair, history, version, current, job, records, message>>
        /\ run.pc = "start" /\ run.stage \in Stages
        /\ run' = [run EXCEPT !.pc = "work"]
        /\ task' = [task EXCEPT ![run.stage] = IF @ = "succeeded" THEN @ ELSE "running"]
    BY <1>0, <1>6 DEF StartTask, Untouched, Goto, At
  <2>2. UploadTypeOK'
    <3>1. task' \in [Stages -> Tasks]
      BY <1>0, <2>1 DEF Tasks
    <3>2. run' \in Runs
      BY <1>0, <2>1, RunShape DEF RunPhase
    <3> QED
      BY <1>0, <1>1, <2>1, <3>1, <3>2, RunTypes
  <2>3. \A s \in Stages : task[s] = "succeeded" <=> task'[s] = "succeeded"
    BY <1>0, <2>1
  <2>4. OneRun' /\ ServedIsWhole'
    BY <1>0, <1>1, <1>2, <2>1 DEF Runs, OneRun, ServedIsWhole, history
  <2>5. StagesDone'
    <3>1. task'[1] = "succeeded" <=> task[1] = "succeeded"
      BY <2>3 DEF Stages
    <3>2. run'.pc = "work" /\ run'.stage = run.stage
      BY <1>0, <2>1 DEF Runs
    <3> QED
      BY <1>1, <2>1, <2>3, <3>1, <3>2 DEF StagesDone, history
  <2>6. CallsAgree' /\ RepairKnows' /\ StrayIsNeverBuilt' /\ NoJobNoRun'
    BY <1>1, <1>2, <2>1, RunFrame DEF UploadTypeOK, history
  <2> QED
    BY <2>2, <2>4, <2>5, <2>6 DEF UploadInv
<1> QED
  BY <1>3, <1>4, <1>5, <1>6

\* The stages of a run, each with its task.
LEMMA StageSteps ==
  ASSUME UploadInv, StageWorks \/ StageFails \/ SucceedTask
  PROVE  UploadInv'
<1>1. UploadTypeOK /\ run.pc \notin {"idle", "fail_task"} /\ OneRun /\ StagesDone
  BY DEF UploadInv, StageWorks, StageFails, SucceedTask, At
<1>2. /\ job.document \in Submits /\ version[job.document] # "absent"
      /\ message.state = "running" /\ current = {} /\ job.status # "succeeded"
  BY <1>1, RunFacts
<1>0. /\ version \in [Submits -> Versions] /\ current \subseteq Submits
      /\ job \in [document : Submits \cup {NoJob}, status : JobStatus]
      /\ task \in [Stages -> Tasks] /\ records \in {"none", "inactive", "active"}
      /\ message \in Messages /\ run \in Runs /\ run.stage \in Stages
  BY <1>1, TypeParts
<1>3. CASE StageFails
  <2>1. PICK retryable \in BOOLEAN : RaiseWith(run.job, retryable)
    BY <1>3 DEF StageFails, Raise
  <2>2. /\ UNCHANGED <<call, object, repair, history, version, current, job, task, message>>
        /\ records' \in {"none", "inactive", "active"} /\ run.job \in JobStatus
    BY <1>0, <1>3 DEF StageFails, Untouched, rows, Runs
  <2> QED
    BY <1>1, <2>1, <2>2, RunRaises
<1>5. CASE StageWorks
  <2>1. /\ UNCHANGED <<call, object, repair, history, version, current, job, task, message>>
        /\ run.pc = "work" /\ records' \in {records, "inactive"}
        /\ run' = [run EXCEPT !.pc = "succeed"] /\ (run.stage = 1 => object)
    BY <1>5 DEF StageWorks, Untouched, rows, Goto, At
  <2>2. UploadTypeOK'
    <3>1. run' \in Runs
      BY <1>0, <2>1, RunShape DEF RunPhase
    <3> QED
      BY <1>0, <1>1, <2>1, <3>1, RunTypes
  <2>3. OneRun' /\ ServedIsWhole'
    BY <1>1, <1>2, <2>1 DEF UploadTypeOK, OneRun, ServedIsWhole, history
  <2>4. StagesDone'
    BY ZenonT(40), <1>1, <2>1 DEF UploadTypeOK, StagesDone, history
  <2>5. CallsAgree' /\ RepairKnows' /\ StrayIsNeverBuilt' /\ NoJobNoRun'
    BY <1>1, <1>2, <2>1, RunFrame DEF UploadTypeOK, history
  <2> QED
    BY <2>2, <2>3, <2>4, <2>5 DEF UploadInv
<1>4. CASE SucceedTask
  <2>1. /\ UNCHANGED <<call, object, repair, history, version, current, job, records, message>>
        /\ run.pc = "succeed" /\ run.stage \in Stages
        /\ task' = [task EXCEPT ![run.stage] = "succeeded"]
        /\ run' = IF run.stage = 4 THEN [run EXCEPT !.pc = "activate"]
                  ELSE [run EXCEPT !.pc = "start", !.stage = run.stage + 1]
    BY <1>1, <1>4 DEF SucceedTask, Untouched, At, UploadTypeOK
  <2>2. UploadTypeOK'
    <3>1. task' \in [Stages -> Tasks]
      BY <1>0, <2>1 DEF Tasks
    <3>2. run.stage # 4 => run.stage + 1 \in Stages
      BY <2>1 DEF Stages
    <3>3. run' \in Runs
      BY <1>0, <2>1, <3>2, RunShape DEF RunPhase
    <3> QED
      BY <1>0, <1>1, <2>1, <3>1, <3>3, RunTypes
  <2>3. OneRun' /\ ServedIsWhole'
    BY <1>1, <1>2, <2>1 DEF UploadTypeOK, OneRun, ServedIsWhole, history
  <2>4. \A s \in Stages : s <= run.stage => task'[s] = "succeeded"
    BY <1>1, <2>1 DEF UploadTypeOK, StagesDone, Stages
  <2>5. task'[1] = "succeeded" => overlooked \/ object
    BY <1>1, <2>1 DEF UploadTypeOK, StagesDone, Stages
  <2>6. StagesDone'
    <3>1. CASE run.stage = 4
      BY <1>1, <2>1, <2>4, <2>5, <3>1 DEF UploadTypeOK, StagesDone, history, Stages
    <3>2. CASE run.stage # 4
      <4>1. run'.pc = "start" /\ run'.stage = run.stage + 1
        BY <1>1, <2>1, <3>2 DEF UploadTypeOK
      <4> QED
        BY <2>1, <2>4, <2>5, <4>1 DEF StagesDone, history, Stages
    <3> QED
      BY <3>1, <3>2
  <2>7. CallsAgree' /\ RepairKnows' /\ StrayIsNeverBuilt' /\ NoJobNoRun'
    BY <1>1, <1>2, <2>1, RunFrame DEF UploadTypeOK, history
  <2> QED
    BY <2>2, <2>3, <2>6, <2>7 DEF UploadInv
<1> QED
  BY <1>3, <1>4, <1>5

\* The last stages: the records, the version, the document and the job.
LEMMA EndSteps ==
  ASSUME UploadInv, Activate \/ ActivateFails \/ Finish \/ FinishFails
  PROVE  UploadInv'
<1>1. UploadTypeOK /\ run.pc \notin {"idle", "fail_task"} /\ OneRun /\ StagesDone
  BY DEF UploadInv, Activate, ActivateFails, Finish, FinishFails, At
<1>2. /\ job.document \in Submits /\ version[job.document] # "absent"
      /\ message.state = "running" /\ current = {} /\ job.status # "succeeded"
  BY <1>1, RunFacts
<1>0. /\ version \in [Submits -> Versions] /\ current \subseteq Submits
      /\ job \in [document : Submits \cup {NoJob}, status : JobStatus]
      /\ task \in [Stages -> Tasks] /\ records \in {"none", "inactive", "active"}
      /\ message \in Messages /\ run \in Runs /\ run.stage \in Stages
  BY <1>1, TypeParts
<1>3. CASE ActivateFails \/ (Activate /\ run'.pc = "fail_task")
  <2>1. PICK retryable \in BOOLEAN : RaiseWith(run.job, retryable)
    <3>1. [run EXCEPT !.pc = "finish"].pc = "finish"
      BY <1>0 DEF Runs
    <3> QED
      BY <1>3, <3>1 DEF Activate, ActivateFails, Raise, Goto
  <2>2. /\ UNCHANGED <<call, object, repair, history, version, current, job, task, message>>
        /\ records' \in {"none", "inactive", "active"} /\ run.job \in JobStatus
    BY <1>0, <1>3 DEF Activate, ActivateFails, Untouched, rows, Runs
  <2> QED
    BY <1>1, <2>1, <2>2, RunRaises
<1>4. CASE Activate /\ run'.pc # "fail_task"
  <2>0. ~RaiseWith(run.job, FALSE)
    BY <1>0, <1>4, RaiseShape DEF Runs
  <2>1. /\ UNCHANGED <<call, object, repair, history, version, current, job, task, message>>
        /\ run.pc = "activate" /\ records' = "active" /\ run' = [run EXCEPT !.pc = "finish"]
    BY <1>4, <2>0 DEF Activate, Untouched, rows, Goto, Raise, At
  <2>2. UploadTypeOK'
    <3>1. run' \in Runs
      BY <1>0, <2>1, RunShape DEF RunPhase
    <3> QED
      BY <1>0, <1>1, <2>1, <3>1, RunTypes
  <2>3. OneRun' /\ ServedIsWhole'
    BY <1>1, <1>2, <2>1 DEF UploadTypeOK, OneRun, ServedIsWhole, history
  <2>4. StagesDone'
    BY <1>1, <2>1 DEF UploadTypeOK, StagesDone, history
  <2>5. CallsAgree' /\ RepairKnows' /\ StrayIsNeverBuilt' /\ NoJobNoRun'
    BY <1>1, <1>2, <2>1, RunFrame DEF UploadTypeOK, history
  <2> QED
    BY <2>2, <2>3, <2>4, <2>5 DEF UploadInv
<1>5. CASE FinishFails /\ UNCHANGED <<version, current, job>>
  <2>1. PICK retryable \in BOOLEAN : RaiseWith("succeeded", retryable)
    BY <1>5 DEF FinishFails, Breaks
  <2>2. /\ UNCHANGED <<call, object, repair, history, task, message, records>>
        /\ "succeeded" \in JobStatus
    BY <1>5 DEF FinishFails, Untouched, JobStatus
  <2> QED
    BY <1>0, <1>1, <1>5, <2>1, <2>2, RunRaises
<1>6. CASE Serve /\ (Finish \/ FinishFails)
  <2>1. /\ UNCHANGED <<call, object, repair, history, task, records>> /\ run.pc = "finish"
        /\ version' = [version EXCEPT ![job.document] = "ready"]
        /\ current' = {job.document}
        /\ job' = [job EXCEPT !.status = "succeeded"]
    BY <1>2, <1>6 DEF Finish, FinishFails, Serve, Untouched, At, Mine
  <2>2. /\ run' \in Runs /\ message' \in Messages
        /\ \/ run'.pc = "idle" /\ message'.state # "running"
           \/ run'.pc = "fail_task" /\ run'.job = "succeeded" /\ message' = message
    <3>1. CASE Finish
      BY <1>0, <3>1, IdleShape, MessageShape DEF Finish, Leave, Messages
    <3>2. CASE FinishFails
      <4>1. PICK retryable \in BOOLEAN : RaiseWith("succeeded", retryable)
        BY <3>2 DEF FinishFails, Breaks
      <4>2. "succeeded" \in JobStatus
        BY DEF JobStatus
      <4> QED
        BY <1>0, <3>2, <4>1, <4>2, RaiseShape DEF FinishFails
    <3> QED
      BY <1>6, <3>1, <3>2
  <2>3. UploadTypeOK'
    <3>1. version' \in [Submits -> Versions]
          /\ job' \in [document : Submits \cup {NoJob}, status : JobStatus]
      BY <1>0, <2>1 DEF Versions, JobStatus
    <3> QED
      BY <1>0, <1>1, <1>2, <2>1, <2>2, <3>1, RunTypes
  <2>4. OneRun' /\ job'.document = job.document /\ StagesDone'
    BY <1>0, <1>1, <1>2, <2>1, <2>2 DEF OneRun, StagesDone, history
  <2>5. overlooked \/ (records = "active" /\ object)
    BY <1>1, <2>1 DEF StagesDone, Stages
  <2>6. ServedIsWhole'
    BY <1>0, <1>1, <1>2, <2>1, <2>5 DEF ServedIsWhole, StagesDone, history
  <2>7. CallsAgree' /\ RepairKnows' /\ StrayIsNeverBuilt' /\ NoJobNoRun'
    BY <1>1, <1>2, <2>1, <2>3, <2>4, RunFrame DEF UploadTypeOK, history
  <2> QED
    BY <2>3, <2>4, <2>6, <2>7 DEF UploadInv
<1>7. Finish => Serve
  BY DEF Finish
<1>8. FinishFails => Serve \/ UNCHANGED <<version, current, job>>
  BY DEF FinishFails
<1> QED
  BY <1>3, <1>4, <1>5, <1>6, <1>7, <1>8

\* The database fails a run that has not served its document.
LEMMA DatabaseStep ==
  ASSUME UploadInv, DatabaseFails
  PROVE  UploadInv'
<1>1. UploadTypeOK /\ run.pc \notin {"idle", "fail_task"}
  BY DEF UploadInv, DatabaseFails
<1>2. run.job \in JobStatus /\ "running" \in JobStatus
      /\ records \in {"none", "inactive", "active"}
  BY <1>1, TypeParts DEF JobStatus, Runs
<1>3. PICK j \in JobStatus, b \in BOOLEAN : RaiseWith(j, b)
  BY <1>2 DEF DatabaseFails, Breaks
<1>4. UNCHANGED <<call, object, repair, history, version, current, job, task, message, records>>
  BY DEF DatabaseFails, rows
<1> QED
  BY <1>1, <1>2, <1>3, <1>4, RunRaises

\* A stage that failed, and the retry of its task.
LEMMA FailSteps ==
  ASSUME UploadInv, FailTask \/ FailJob \/ FailVersion \/ RecordingFails
  PROVE  UploadInv'
<1>1. /\ UploadTypeOK /\ OneRun /\ StagesDone /\ ServedIsWhole
      /\ run.pc \in {"fail_task", "fail_job", "fail_version"}
  BY DEF UploadInv, FailTask, FailJob, FailVersion, RecordingFails, At
<1>2. /\ job.document \in Submits /\ version[job.document] # "absent"
      /\ message.state = "running" /\ current \in {{}, {job.document}}
      /\ run.pc # "fail_task" \/ run.job # "succeeded" =>
            current = {} /\ job.status # "succeeded"
  BY <1>1, RunFacts
<1>0. /\ version \in [Submits -> Versions] /\ current \subseteq Submits
      /\ job \in [document : Submits \cup {NoJob}, status : JobStatus]
      /\ task \in [Stages -> Tasks] /\ records \in {"none", "inactive", "active"}
      /\ message \in Messages /\ run \in Runs /\ run.stage \in Stages
  BY <1>1, TypeParts
<1>3. CASE FailTask \/ RecordingFails
  <2>1. /\ UNCHANGED <<call, object, repair, overlooked, version, current, job, records>>
        /\ task' \in {task, FailedTasks} /\ lost' \in BOOLEAN
        /\ \/ /\ run' = Idle
              /\ \E state \in {"queued", "answered"} :
                    message' = [message EXCEPT !.state = state]
           \/ /\ run' = [run EXCEPT !.pc = "fail_job"] /\ message' = message
              /\ run.pc = "fail_task" /\ run.job = "running"
    <3>1. lost \in BOOLEAN
      BY <1>1 DEF UploadTypeOK
    <3>2. CASE FailTask
      BY <3>1, <3>2 DEF FailTask, Goto, Leave, At
    <3>3. CASE RecordingFails
      BY <3>1, <3>3 DEF RecordingFails, Leave, At
    <3> QED
      BY <1>3, <3>2, <3>3
  <2>2. /\ task' \in [Stages -> Tasks]
        /\ \A s \in Stages : task'[s] = "succeeded" <=> task[s] = "succeeded"
    BY <1>0, <2>1 DEF FailedTasks, Tasks
  <2>3. /\ run' \in Runs /\ message' \in Messages
        /\ \/ run'.pc = "idle" /\ message'.state # "running"
           \/ run'.pc = "fail_job" /\ message' = message /\ run.job = "running"
    <3>1. CASE run' = Idle /\ \E state \in {"queued", "answered"} :
                                  message' = [message EXCEPT !.state = state]
      <4>1. message' \in Messages /\ message'.state # "running"
        BY <1>0, <3>1 DEF Messages
      <4> QED
        BY <3>1, <4>1, IdleShape
    <3>2. CASE run' = [run EXCEPT !.pc = "fail_job"] /\ message' = message /\ run.job = "running"
      <4>1. run' \in Runs /\ run'.pc = "fail_job"
        BY <1>0, <3>2 DEF Runs, RunPhase
      <4> QED
        BY <1>0, <3>2, <4>1
    <3> QED
      BY <2>1, <3>1, <3>2
  <2>4. UploadTypeOK'
    BY <1>0, <1>1, <2>1, <2>2, <2>3
       DEF UploadTypeOK, Versions, JobStatus, Tasks, Messages, Runs
  <2>5. OneRun'
    BY <1>2, <2>1, <2>3 DEF OneRun
  <2>6. ServedIsWhole'
    BY <1>1, <2>1, <2>2 DEF ServedIsWhole
  <2>7. StagesDone'
    <3>1. task'[1] = "succeeded" <=> task[1] = "succeeded"
      BY <2>2 DEF Stages
    <3> QED
      BY <1>1, <2>1, <2>3, <3>1 DEF StagesDone
  <2>8. CallsAgree' /\ RepairKnows' /\ StrayIsNeverBuilt' /\ NoJobNoRun'
    BY <1>0, <1>1, <1>2, <2>1, RunFrame DEF Versions
  <2> QED
    BY <2>4, <2>5, <2>6, <2>7, <2>8 DEF UploadInv
<1>4. CASE FailJob
  <2>1. /\ UNCHANGED <<call, object, repair, history, version, current, task, records, message>>
        /\ job' = [job EXCEPT !.status = "failed"] /\ run.pc = "fail_job"
        /\ run' = [run EXCEPT !.pc = "fail_version"]
    BY <1>4 DEF FailJob, Untouched, Goto, At
  <2>2. UploadTypeOK' /\ OneRun' /\ ServedIsWhole' /\ job'.document = job.document
    BY <1>1, <1>2, <2>1 DEF UploadTypeOK, OneRun, ServedIsWhole, history, RunPhase
  <2>3. StagesDone'
    BY <1>1, <2>1 DEF UploadTypeOK, StagesDone, history
  <2>4. CallsAgree' /\ RepairKnows' /\ StrayIsNeverBuilt' /\ NoJobNoRun'
    BY <1>1, <1>2, <2>1, <2>2, RunFrame DEF UploadTypeOK, history
  <2> QED
    BY <2>2, <2>3, <2>4 DEF UploadInv
<1>5. CASE FailVersion
  <2>1. /\ UNCHANGED <<call, object, repair, history, current, job, task, records>>
        /\ version' = version \/ version' = [version EXCEPT ![job.document] = "failed"]
        /\ run' = Idle /\ run.pc = "fail_version"
        /\ message' = [message EXCEPT !.state = "answered"]
    BY <1>1, <1>2, <1>5 DEF FailVersion, Untouched, Leave, Mine, UploadTypeOK, At
  <2>2. UploadTypeOK'
    <3>1. run' \in Runs /\ message' \in Messages
      BY <1>0, <2>1, IdleShape, MessageShape
    <3>2. version' \in [Submits -> Versions]
      BY <1>0, <2>1 DEF Versions
    <3> QED
      BY <1>0, <1>1, <2>1, <3>1, <3>2, RunTypes
  <2>3. OneRun' /\ StagesDone' /\ ServedIsWhole'
    BY <1>1, <1>2, <2>1, IdleShape DEF UploadTypeOK, OneRun, ServedIsWhole, StagesDone, history
  <2>4. CallsAgree' /\ RepairKnows' /\ StrayIsNeverBuilt' /\ NoJobNoRun'
    BY <1>1, <1>2, <2>1, <2>2, RunFrame DEF UploadTypeOK, history
  <2> QED
    BY <2>2, <2>3, <2>4 DEF UploadInv
<1> QED
  BY <1>3, <1>4, <1>5

-----------------------------------------------------------------------------
\* Every step keeps the invariant.
LEMMA StepUpload ==
  ASSUME UploadInv, [UploadNext]_uploadVars
  PROVE  UploadInv'
<1>1. CASE UNCHANGED uploadVars
  BY <1>1 DEF uploadVars, rows, history, UploadInv, UploadTypeOK, CallsAgree, NoJobNoRun, OneRun,
     StagesDone, RepairKnows, Registered, StrayIsNeverBuilt, ServedIsWhole
<1>2. CASE UploadNext
  BY <1>2, SubmitSteps, QueueSteps, RepairSteps, BeginSteps, StageSteps, EndSteps, FailSteps,
     DatabaseStep DEF UploadNext, SubmitStep, Work
<1> QED
  BY <1>1, <1>2

\* The invariant holds always.
LEMMA UploadInvariant == UploadSpec => []UploadInv
<1>1. UploadInit => UploadInv
  BY InitUpload
<1>2. UploadInv /\ [UploadNext]_uploadVars => UploadInv'
  BY StepUpload
<1> QED
  BY <1>1, <1>2, PTL DEF UploadSpec

\* Any number of submit calls that carry one key, wherever they die: the job
\* names one document, and what the others registered is never built or served
\* (UploadService.submit, IngestionPipeline.handle).
THEOREM OneDocumentPerKey == UploadSpec => []StrayIsNeverBuilt
<1>1. UploadInv => StrayIsNeverBuilt
  BY DEF UploadInv
<1> QED
  BY <1>1, UploadInvariant, PTL

\* However often the job is delivered, killed or timed out, and whatever the
\* database fails: a served upload has its version and tasks, and its records and
\* source too as long as no reconciliation overlooked a version row, one that came
\* after the rows were read or one its full list left out (LifecycleReconciler.run).
THEOREM ServedUploadIsWhole == UploadSpec => []ServedIsWhole
<1>1. UploadInv => ServedIsWhole
  BY DEF UploadInv
<1> QED
  BY <1>1, UploadInvariant, PTL

\* The rows, the message and the local state keep their shape.
THEOREM UploadTypes == UploadSpec => []UploadTypeOK
<1>1. UploadInv => UploadTypeOK
  BY DEF UploadInv
<1> QED
  BY <1>1, UploadInvariant, PTL

-----------------------------------------------------------------------------
(* Lifecycle batches.                                                        *)

Asked == [pc : {"idle", "add", "created", "raised", "count", "refreshed"},
          left : SUBSET Operations, counts : [Classes -> Nat], since : SUBSET Operations]

BatchTypes ==
    /\ operation \in [Operations -> {"pending", "cancel_requested", "succeeded"}]
    /\ asked \in [Requests -> Asked]
    /\ batch \in [status : {"absent", "pending", "running", "succeeded", "partial_success",
                            "failed", "cancelled"},
                  counts : [Classes -> Nat]]
    /\ published \subseteq Operations /\ reopened \subseteq published

\* An operation has succeeded only if it was published, and if it was it still has,
\* unless a cancel was saved over it.
PublishedInv ==
    /\ \A o \in Operations : operation[o] = "succeeded" => o \in published
    /\ \A o \in published \ reopened : operation[o] = "succeeded"

\* What a request has counted: no more than the published operations it has read, no
\* less than those that had succeeded when it began and still do.
Counted(q) ==
    /\ asked[q].counts.failed = 0 /\ asked[q].counts.cancelled = 0
    /\ asked[q].counts.succeeded <= Cardinality(published \ asked[q].left)
    /\ asked[q].counts.succeeded >= Cardinality((asked[q].since \ reopened) \ asked[q].left)
    /\ asked[q].since \subseteq published
    /\ asked[q].pc = "idle" => asked[q].left = Operations /\ asked[q].counts = Nothing
    /\ asked[q].pc = "refreshed" => asked[q].left = {}

\* The row tells no more than a request has counted.
RowTold ==
    /\ batch.status \notin {"absent", "pending", "running"} => published = Operations
    /\ batch.counts.succeeded <= Cardinality(published)

BatchInv == /\ BatchTypes /\ PublishedInv /\ RowTold
            /\ \A q \in Requests : Counted(q)

\* The operations, and all that is published or left of them, can be counted.
LEMMA Countable ==
    ASSUME NEW S, S \subseteq Operations
    PROVE  /\ IsFiniteSet(S) /\ Cardinality(S) \in Nat
           /\ Cardinality(S) <= Cardinality(Operations)
           /\ Cardinality(S) = Cardinality(Operations) => S = Operations
           /\ \A T : T \subseteq S => Cardinality(T) <= Cardinality(S)
  BY BatchAssumption, FS_Subset, FS_CardinalityType

\* One more operation is one more to count.
LEMMA CountsOneMore ==
    ASSUME NEW S, S \subseteq Operations, NEW o \in Operations, o \notin S
    PROVE  Cardinality(S \cup {o}) = Cardinality(S) + 1
  BY Countable, FS_AddElement

\* What a request has counted stands while operations are published and reopened.
LEMMA CountedStands ==
    ASSUME BatchInv, NEW q \in Requests, asked'[q] = asked[q],
           published \subseteq published', published' \subseteq Operations,
           reopened \subseteq reopened'
    PROVE  Counted(q)'
<1>1. Counted(q) /\ asked[q] \in Asked
  BY DEF BatchInv, BatchTypes
<1>2. /\ asked[q].left \subseteq Operations /\ asked[q].since \subseteq Operations
      /\ asked[q].counts \in [Classes -> Nat]
  BY <1>1 DEF Asked
<1>3. asked[q].counts.succeeded \in Nat
  BY <1>2 DEF Classes
<1>4. Cardinality(published \ asked[q].left) <= Cardinality(published' \ asked[q].left)
  BY Countable
<1>5. Cardinality((asked[q].since \ reopened') \ asked[q].left)
         <= Cardinality((asked[q].since \ reopened) \ asked[q].left)
  <2>1. (asked[q].since \ reopened) \ asked[q].left \subseteq Operations
    BY <1>2
  <2> QED
    BY <2>1, Countable
<1>6. /\ Cardinality(published \ asked[q].left) \in Nat
      /\ Cardinality(published' \ asked[q].left) \in Nat
      /\ Cardinality((asked[q].since \ reopened') \ asked[q].left) \in Nat
      /\ Cardinality((asked[q].since \ reopened) \ asked[q].left) \in Nat
  <2>1. published \ asked[q].left \subseteq Operations
    OBVIOUS
  <2>2. published' \ asked[q].left \subseteq Operations
    OBVIOUS
  <2>3. (asked[q].since \ reopened') \ asked[q].left \subseteq Operations
    BY <1>2
  <2>4. (asked[q].since \ reopened) \ asked[q].left \subseteq Operations
    BY <1>2
  <2> QED
    BY <2>1, <2>2, <2>3, <2>4, Countable
<1> QED
  BY <1>1, <1>3, <1>4, <1>5, <1>6 DEF Counted

\* Publications and cancels: nothing that was counted becomes untrue.
LEMMA OperationStep ==
    ASSUME BatchInv, NEW o \in Operations,
           \/ LoadOperation(o) \/ CompleteOperation(o) \/ ReadOperation(o) \/ SaveCancel(o)
    PROVE  BatchInv'
<1>0. BatchTypes /\ PublishedInv /\ RowTold
  BY DEF BatchInv
<1>1. asked' = asked /\ batch' = batch
  BY DEF LoadOperation, CompleteOperation, ReadOperation, SaveCancel
<1>2. \/ operation' = operation /\ published' = published /\ reopened' = reopened
      \/ /\ operation' = [operation EXCEPT ![o] = "succeeded"]
         /\ published' = published \cup {o} /\ reopened' = reopened
      \/ /\ operation' = [operation EXCEPT ![o] = "cancel_requested"]
         /\ published' = published
         /\ reopened' = IF operation[o] = "succeeded" THEN reopened \cup {o} ELSE reopened
  BY DEF LoadOperation, CompleteOperation, ReadOperation, SaveCancel
<1>3. BatchTypes'
  BY <1>0, <1>1, <1>2 DEF BatchTypes, PublishedInv
<1>4. PublishedInv'
  BY <1>0, <1>2 DEF BatchTypes, PublishedInv
<1>5. /\ published \subseteq published' /\ published' \subseteq Operations
      /\ reopened \subseteq reopened'
  BY <1>0, <1>2 DEF BatchTypes
<1>6. RowTold'
  <2>1. Cardinality(published) <= Cardinality(published')
    BY <1>5, Countable
  <2>2. Cardinality(published) \in Nat /\ Cardinality(published') \in Nat
    BY <1>0, <1>5, Countable DEF BatchTypes
  <2>3. batch.counts.succeeded \in Nat
    BY <1>0 DEF BatchTypes, Classes
  <2> QED
    BY <1>0, <1>1, <1>5, <2>1, <2>2, <2>3 DEF RowTold
<1>7. \A q \in Requests : Counted(q)'
  BY <1>1, <1>5, CountedStands
<1> QED
  BY <1>3, <1>4, <1>6, <1>7 DEF BatchInv

\* A request that moves on counts as before.
LEMMA CountedMoves ==
    ASSUME BatchInv, NEW q \in Requests, NEW from, NEW to \in {"add", "created", "raised"},
           Moves(q, from, to), UNCHANGED <<operation, published, reopened>>
    PROVE  /\ asked' \in [Requests -> Asked]
           /\ PublishedInv' /\ \A r \in Requests : Counted(r)'
<1>0. BatchTypes /\ PublishedInv
  BY DEF BatchInv
<1>1. asked' = [asked EXCEPT ![q].pc = to]
  BY DEF Moves
<1>2. /\ asked[q] \in Asked /\ asked'[q] = [asked[q] EXCEPT !.pc = to]
      /\ \A r \in Requests \ {q} : asked'[r] = asked[r]
  BY <1>0, <1>1 DEF BatchTypes
<1>3. /\ asked'[q].pc = to /\ asked'[q].left = asked[q].left
      /\ asked'[q].counts = asked[q].counts /\ asked'[q].since = asked[q].since
      /\ asked'[q] \in Asked
  BY <1>2 DEF Asked
<1>4. asked' \in [Requests -> Asked]
  BY <1>0, <1>1, <1>2, <1>3 DEF BatchTypes
<1>5. Counted(q)'
  <2>1. Counted(q)
    BY DEF BatchInv
  <2> QED
    BY <1>3, <2>1 DEF Counted
<1>6. \A r \in Requests \ {q} : Counted(r)'
  BY <1>0, <1>2, CountedStands DEF BatchTypes
<1>7. PublishedInv'
  BY <1>0 DEF PublishedInv
<1> QED
  BY <1>4, <1>5, <1>6, <1>7

\* Creating a batch, once, and giving up.
LEMMA CreateStep ==
    ASSUME BatchInv, NEW q \in Requests, LookUpBatch(q) \/ AddBatch(q) \/ Aborts(q)
    PROVE  BatchInv'
<1>0. BatchTypes /\ RowTold
  BY DEF BatchInv
<1>1. /\ \E from, to : to \in {"add", "created", "raised"} /\ Moves(q, from, to)
      /\ UNCHANGED <<operation, published, reopened>>
      /\ batch' = batch \/ batch' = NewRow
  BY DEF LookUpBatch, AddBatch, Aborts
<1>2. /\ asked' \in [Requests -> Asked]
      /\ PublishedInv' /\ \A r \in Requests : Counted(r)'
  BY <1>1, CountedMoves
<1>3. NewRow.status = "pending" /\ NewRow.counts.succeeded = 0 /\ NewRow.counts \in [Classes -> Nat]
  BY DEF NewRow, Nothing, Classes
<1>4. BatchTypes'
  BY <1>0, <1>1, <1>2, <1>3 DEF BatchTypes, NewRow
<1>5. RowTold'
  <2>1. Cardinality(published) \in Nat
    BY <1>0, Countable DEF BatchTypes
  <2> QED
    BY <1>0, <1>1, <1>3, <2>1 DEF RowTold
<1> QED
  BY <1>2, <1>4, <1>5 DEF BatchInv

\* A refresh begins with nothing counted and every operation left.
LEMMA BeginRefreshStep ==
    ASSUME BatchInv, NEW q \in Requests, BeginRefresh(q) PROVE BatchInv'
<1> DEFINE done == {o \in Operations : operation[o] = "succeeded"}
<1>0. BatchTypes /\ PublishedInv /\ RowTold /\ Counted(q)
  BY DEF BatchInv
<1>1. /\ asked[q].pc = "idle" /\ asked' = [asked EXCEPT ![q].pc = "count", ![q].since = done]
      /\ UNCHANGED <<operation, batch, published, reopened>>
  BY DEF BeginRefresh
<1>2. /\ asked[q] \in Asked /\ asked'[q] = [asked[q] EXCEPT !.pc = "count", !.since = done]
      /\ \A r \in Requests \ {q} : asked'[r] = asked[r]
  BY <1>0, <1>1 DEF BatchTypes
<1>3. /\ asked'[q].pc = "count" /\ asked'[q].left = Operations
      /\ asked'[q].counts = Nothing /\ asked'[q].since = done
      /\ asked'[q] \in Asked
  <2>1. asked[q].left = Operations /\ asked[q].counts = Nothing
    BY <1>0, <1>1 DEF Counted
  <2>2. done \in SUBSET Operations
    OBVIOUS
  <2> HIDE DEF done
  <2> QED
    BY <1>2, <2>1, <2>2 DEF Asked
<1>4. BatchTypes'
  BY <1>0, <1>1, <1>2, <1>3 DEF BatchTypes
<1>5. Counted(q)'
  <2>1. /\ Nothing.succeeded = 0 /\ Nothing.failed = 0 /\ Nothing.cancelled = 0
    BY DEF Nothing, Classes
  <2>2. (done \ reopened) \ Operations = {} /\ published \ Operations = {}
    BY <1>0 DEF BatchTypes
  <2>3. Cardinality({}) = 0
    BY FS_EmptySet
  <2>4. done \subseteq published
    BY <1>0 DEF PublishedInv
  <2>5. reopened' = reopened /\ published' = published
    BY <1>1
  <2> HIDE DEF done
  <2>6. /\ (asked'[q].since \ reopened') \ asked'[q].left = {}
        /\ published' \ asked'[q].left = {}
    BY <1>3, <2>2, <2>5
  <2>7. asked'[q].counts.succeeded = 0
    BY <1>3, <2>1
  <2>8. /\ asked'[q].counts.failed = 0 /\ asked'[q].counts.cancelled = 0
        /\ asked'[q].since \subseteq published'
        /\ asked'[q].pc # "idle" /\ asked'[q].pc # "refreshed"
    BY <1>3, <2>1, <2>4, <2>5
  <2>9. /\ asked'[q].counts.succeeded <= Cardinality(published' \ asked'[q].left)
        /\ asked'[q].counts.succeeded
              >= Cardinality((asked'[q].since \ reopened') \ asked'[q].left)
    BY <2>3, <2>6, <2>7
  <2> QED
    BY <2>8, <2>9 DEF Counted
<1>6. \A r \in Requests \ {q} : Counted(r)'
  BY <1>0, <1>1, <1>2, CountedStands DEF BatchTypes
<1>7. PublishedInv' /\ RowTold'
  BY <1>0, <1>1 DEF PublishedInv, RowTold
<1> QED
  BY <1>4, <1>5, <1>6, <1>7 DEF BatchInv

\* A refresh reads one operation: one that has succeeded is counted, and one that has
\* not was not among those the count must reach.
LEMMA ReadChildStep ==
    ASSUME BatchInv, NEW q \in Requests, NEW o \in Operations, ReadChild(q, o) PROVE BatchInv'
<1> DEFINE class == ClassOf(operation[o])
           left  == asked[q].left
           count == asked[q].counts
<1>0. BatchTypes /\ PublishedInv /\ RowTold /\ Counted(q)
  BY DEF BatchInv
<1>1. /\ asked[q].pc = "count" /\ o \in left
      /\ asked' = [asked EXCEPT ![q].left = @ \ {o}, ![q].counts[class] = @ + 1]
      /\ UNCHANGED <<operation, batch, published, reopened>>
  BY DEF ReadChild
<1>2. /\ class = IF operation[o] = "succeeded" THEN "succeeded" ELSE "open"
      /\ class \in Classes
  BY <1>0 DEF BatchTypes, ClassOf, Classes
<1> HIDE DEF class
<1>3. /\ asked[q] \in Asked
      /\ asked'[q] = [asked[q] EXCEPT !.left = @ \ {o}, !.counts[class] = @ + 1]
      /\ \A r \in Requests \ {q} : asked'[r] = asked[r]
  BY <1>0, <1>1 DEF BatchTypes
<1>4. /\ asked'[q].pc = "count" /\ asked'[q].left = left \ {o}
      /\ asked'[q].counts = [count EXCEPT ![class] = @ + 1]
      /\ asked'[q].since = asked[q].since
  <2> DEFINE row == asked[q]
  <2>1. row \in Asked /\ asked'[q] = [row EXCEPT !.left = @ \ {o}, !.counts[class] = @ + 1]
    BY <1>3
  <2>2. row.pc = "count"
    BY <1>1
  <2> HIDE DEF row
  <2>3. /\ asked'[q].pc = "count" /\ asked'[q].left = row.left \ {o}
        /\ asked'[q].counts = [row.counts EXCEPT ![class] = @ + 1]
        /\ asked'[q].since = row.since
    BY <2>1, <2>2 DEF Asked
  <2> QED
    BY <2>3 DEF row
<1>5. left \subseteq Operations /\ asked[q].since \subseteq Operations /\ count \in [Classes -> Nat]
  BY <1>3 DEF Asked
<1>6. asked'[q] \in Asked
  <2>1. [count EXCEPT ![class] = @ + 1] \in [Classes -> Nat]
    BY <1>2, <1>5
  <2> QED
    BY <1>3, <1>4, <1>5, <2>1 DEF Asked
<1>7. BatchTypes'
  BY <1>0, <1>1, <1>3, <1>6 DEF BatchTypes
<1>8. /\ asked'[q].counts.failed = 0 /\ asked'[q].counts.cancelled = 0
      /\ asked'[q].counts.succeeded =
            count.succeeded + (IF operation[o] = "succeeded" THEN 1 ELSE 0)
      /\ count.succeeded \in Nat
  BY <1>0, <1>2, <1>4, <1>5 DEF Counted, Classes
<1> DEFINE read  == published \ left
           reach == (asked[q].since \ reopened) \ left
<1>9. /\ read \subseteq Operations /\ reach \subseteq Operations
      /\ Cardinality(read) \in Nat /\ Cardinality(reach) \in Nat
      /\ count.succeeded <= Cardinality(read) /\ count.succeeded >= Cardinality(reach)
  <2>1. read \subseteq Operations /\ reach \subseteq Operations
    BY <1>0, <1>5 DEF BatchTypes
  <2> QED
    BY <1>0, <2>1, Countable DEF Counted
<1>10. asked'[q].counts.succeeded <= Cardinality(published \ asked'[q].left)
  <2>0. /\ operation[o] = "succeeded" => asked'[q].counts.succeeded = count.succeeded + 1
        /\ operation[o] # "succeeded" => asked'[q].counts.succeeded = count.succeeded
    BY <1>8
  <2>1. CASE operation[o] = "succeeded"
    <3>1. published \ asked'[q].left = read \cup {o} /\ o \notin read
      BY <1>0, <1>1, <1>4, <2>1 DEF PublishedInv
    <3>2. Cardinality(read \cup {o}) = Cardinality(read) + 1
      BY <1>9, <3>1, CountsOneMore
    <3> HIDE DEF read, reach, count, left
    <3>3. count.succeeded + 1 <= Cardinality(read) + 1
      BY <1>8, <1>9
    <3> QED
      BY <2>0, <2>1, <3>1, <3>2, <3>3
  <2>2. CASE operation[o] # "succeeded"
    <3>1. read \subseteq published \ asked'[q].left /\ published \ asked'[q].left \subseteq Operations
      BY <1>0, <1>4 DEF BatchTypes
    <3>2. /\ Cardinality(read) <= Cardinality(published \ asked'[q].left)
          /\ Cardinality(published \ asked'[q].left) \in Nat
      BY <3>1, Countable
    <3> HIDE DEF read, reach, count
    <3> QED
      BY <1>8, <1>9, <2>0, <2>2, <3>2
  <2> QED
    BY <2>1, <2>2
<1>11. asked'[q].counts.succeeded >= Cardinality((asked'[q].since \ reopened) \ asked'[q].left)
  <2>0. /\ operation[o] = "succeeded" => asked'[q].counts.succeeded = count.succeeded + 1
        /\ asked'[q].counts.succeeded >= count.succeeded
    BY <1>8
  <2>1. CASE o \in asked[q].since \ reopened
    <3>1. operation[o] = "succeeded"
      BY <1>0, <2>1 DEF PublishedInv, Counted
    <3>2. (asked'[q].since \ reopened) \ asked'[q].left = reach \cup {o} /\ o \notin reach
      BY <1>1, <1>4, <2>1
    <3>3. Cardinality(reach \cup {o}) = Cardinality(reach) + 1
      BY <1>9, <3>2, CountsOneMore
    <3> HIDE DEF read, reach, count, left
    <3>4. count.succeeded + 1 >= Cardinality(reach) + 1
      BY <1>8, <1>9
    <3> QED
      BY <2>0, <3>1, <3>2, <3>3, <3>4
  <2>2. CASE o \notin asked[q].since \ reopened
    <3>1. (asked'[q].since \ reopened) \ asked'[q].left = reach
      BY <1>4, <2>2
    <3>2. asked'[q].counts.succeeded \in Nat
      BY <1>8
    <3> HIDE DEF read, reach, count
    <3> QED
      BY <1>8, <1>9, <2>0, <3>1, <3>2
  <2> QED
    BY <2>1, <2>2
<1>12. Counted(q)'
  BY <1>0, <1>1, <1>4, <1>8, <1>10, <1>11 DEF Counted
<1>13. \A r \in Requests \ {q} : Counted(r)'
  BY <1>0, <1>1, <1>3, CountedStands DEF BatchTypes
<1>14. PublishedInv' /\ RowTold'
  BY <1>0, <1>1 DEF PublishedInv, RowTold
<1> QED
  BY <1>7, <1>12, <1>13, <1>14 DEF BatchInv

\* A refresh that has read every operation saves what it has counted, over whatever
\* another refresh has saved by then.
LEMMA SaveRefreshStep ==
    ASSUME BatchInv, NEW q \in Requests, SaveRefresh(q) PROVE BatchInv'
<1> DEFINE count == asked[q].counts
<1>0. BatchTypes /\ PublishedInv /\ RowTold /\ Counted(q)
  BY DEF BatchInv
<1>1. /\ asked[q].left = {} /\ asked[q].pc = "count"
      /\ asked' = [asked EXCEPT ![q].pc = "refreshed"]
      /\ batch' = [status |-> StatusOf(count), counts |-> count]
      /\ UNCHANGED <<operation, published, reopened>>
  BY DEF SaveRefresh, Moves
<1>2. /\ asked[q] \in Asked /\ asked'[q] = [asked[q] EXCEPT !.pc = "refreshed"]
      /\ \A r \in Requests \ {q} : asked'[r] = asked[r]
  BY <1>0, <1>1 DEF BatchTypes
<1>3. /\ asked'[q].pc = "refreshed" /\ asked'[q].left = asked[q].left
      /\ asked'[q].counts = count /\ asked'[q].since = asked[q].since
      /\ asked'[q] \in Asked /\ count \in [Classes -> Nat]
  BY <1>2 DEF Asked
<1>4. StatusOf(count) \in {"running", "succeeded", "partial_success", "failed", "cancelled"}
  BY DEF StatusOf
<1>5. BatchTypes'
  BY <1>0, <1>1, <1>2, <1>3, <1>4 DEF BatchTypes
<1>6. Counted(q)'
  BY <1>0, <1>1, <1>3 DEF Counted
<1>7. \A r \in Requests \ {q} : Counted(r)'
  BY <1>0, <1>1, <1>2, CountedStands DEF BatchTypes
<1>8. RowTold'
  <2>1. /\ count.succeeded <= Cardinality(published) /\ count.failed = 0 /\ count.cancelled = 0
        /\ count.succeeded \in Nat
    <3>1. published \ asked[q].left = published
      BY <1>1
    <3> QED
      BY <1>0, <1>3, <3>1 DEF Counted, Classes
  <2>2. /\ Cardinality(published) \in Nat /\ Cardinality(Operations) \in Nat
        /\ Cardinality(published) <= Cardinality(Operations)
        /\ Cardinality(published) = Cardinality(Operations) => published = Operations
    BY <1>0, Countable DEF BatchTypes
  <2>3. StatusOf(count) # "running" => published = Operations
    <3>1. StatusOf(count) # "running" => ~(count.succeeded + 0 + 0 < Cardinality(Operations))
      BY <2>1 DEF StatusOf
    <3> QED
      BY <2>1, <2>2, <3>1
  <2> QED
    BY <1>1, <2>1, <2>3 DEF RowTold
<1>9. PublishedInv'
  BY <1>0, <1>1 DEF PublishedInv
<1> QED
  BY <1>5, <1>6, <1>7, <1>8, <1>9 DEF BatchInv

\* The rows and the requests of a batch at the beginning.
LEMMA BatchStarts == BatchInit => BatchInv
<1> SUFFICES ASSUME BatchInit PROVE BatchInv
  OBVIOUS
<1>1. /\ Nothing \in [Classes -> Nat] /\ Nothing.succeeded = 0
      /\ Nothing.failed = 0 /\ Nothing.cancelled = 0
  BY DEF Nothing, Classes
<1>2. \/ published = {} /\ \A o \in Operations : operation[o] = "pending"
      \/ published = Operations /\ \A o \in Operations : operation[o] = "succeeded"
  BY DEF BatchInit
<1>3. batch.status \in {"absent", "pending"} /\ batch.counts = Nothing
  BY DEF BatchInit, NoRow, NewRow
<1>4. BatchTypes
  BY <1>1, <1>2 DEF BatchInit, BatchTypes, NoRow, NewRow, Asked, Unasked
<1>5. PublishedInv
  BY <1>2 DEF BatchInit, PublishedInv
<1>6. RowTold
  BY <1>1, <1>3, <1>4, Countable DEF RowTold, BatchTypes
<1>7. ASSUME NEW q \in Requests PROVE Counted(q)
  <2>1. asked[q] = Unasked
    BY DEF BatchInit
  <2>2. (Unasked.since \ reopened) \ Operations = {} /\ published \ Operations = {}
    BY <1>4 DEF Unasked, BatchTypes
  <2>3. Cardinality({}) = 0
    BY FS_EmptySet
  <2> QED
    BY <1>1, <2>1, <2>2, <2>3 DEF Counted, Unasked
<1> QED
  BY <1>4, <1>5, <1>6, <1>7 DEF BatchInv

\* Every step keeps the invariant.
LEMMA BatchKept == BatchInv /\ [BatchNext]_batchVars => BatchInv'
<1> SUFFICES ASSUME BatchInv, [BatchNext]_batchVars PROVE BatchInv'
  OBVIOUS
<1>1. CASE UNCHANGED batchVars
  BY <1>1 DEF batchVars, BatchInv, BatchTypes, PublishedInv, RowTold, Counted
<1>2. ASSUME NEW o \in Operations,
             LoadOperation(o) \/ CompleteOperation(o) \/ ReadOperation(o) \/ SaveCancel(o)
      PROVE  BatchInv'
  BY <1>2, OperationStep
<1>3. ASSUME NEW q \in Requests,
             \/ LookUpBatch(q) \/ AddBatch(q) \/ BeginRefresh(q)
             \/ \E o \in Operations : ReadChild(q, o)
             \/ SaveRefresh(q) \/ Aborts(q)
      PROVE  BatchInv'
  BY <1>3, CreateStep, BeginRefreshStep, ReadChildStep, SaveRefreshStep
<1> QED
  BY <1>1, <1>2, <1>3 DEF BatchNext

\* The invariant holds in every reachable state.
LEMMA BatchInvariant == BatchSpec => []BatchInv
<1>1. BatchInit => BatchInv
  BY BatchStarts
<1>2. BatchInv /\ [BatchNext]_batchVars => BatchInv'
  BY BatchKept
<1> QED
  BY <1>1, <1>2, PTL DEF BatchSpec

\* The rows of a batch and its requests have their shape (LifecycleBatchService).
THEOREM BatchTypeCorrect == BatchSpec => []BatchTypeOK
<1>1. BatchInv => BatchTypeOK
  BY DEF BatchInv, BatchTypes, BatchTypeOK, Asked
<1> QED
  BY <1>1, BatchInvariant, PTL

\* A batch of any size tells what its operations did, whatever publications and
\* cancels come between the reads of a refresh and however many refreshes save over
\* each other (LifecycleBatchService.refresh).
THEOREM BatchesTellTheTruth == BatchSpec => []BatchTellsTruth
<1>1. BatchInv => BatchTellsTruth
  <2> SUFFICES ASSUME BatchInv PROVE BatchTellsTruth
    OBVIOUS
  <2>1. RowTold
    BY DEF BatchInv
  <2>2. ASSUME NEW q \in Requests, asked[q].pc = "refreshed"
        PROVE  asked[q].counts.succeeded >= Cardinality(asked[q].since \ reopened)
    <3>1. Counted(q)
      BY DEF BatchInv
    <3>2. asked[q].left = {}
      BY <2>2, <3>1 DEF Counted
    <3>3. (asked[q].since \ reopened) \ asked[q].left = asked[q].since \ reopened
      BY <3>2
    <3> QED
      BY <3>1, <3>3 DEF Counted
  <2> QED
    BY <2>1, <2>2 DEF RowTold, BatchTellsTruth
<1> QED
  BY <1>1, BatchInvariant, PTL
-----------------------------------------------------------------------------
(* The three protocols side by side.                                         *)

\* A behaviour of the three is one of each: the one that is the subject steps, the
\* others stutter.
LEMMA EachOfThree ==
  /\ StoresInit => Init /\ UploadInit /\ BatchInit
  /\ [StoresNext]_<<subject, vars, uploadVars, batchVars>>
        => [Next]_vars /\ [UploadNext]_uploadVars /\ [BatchNext]_batchVars
<1>1. StoresInit => Init /\ UploadInit /\ BatchInit
  BY DEF StoresInit
<1>2. ASSUME [StoresNext]_<<subject, vars, uploadVars, batchVars>>
      PROVE  [Next]_vars /\ [UploadNext]_uploadVars /\ [BatchNext]_batchVars
  BY <1>2, Zenon DEF StoresNext
<1> QED
  BY <1>1, <1>2

\* The rows, stores and calls of the three protocols keep their shape, for any number
\* of builds, deliveries and operations (index generations, uploads, batches).
THEOREM StoresTypes == StoresSpec => []StoresTypeOK
<1>1. /\ Init => GenerationInv
      /\ GenerationInv /\ [Next]_vars => GenerationInv'
      /\ GenerationInv => TypeOK
  BY InitGeneration, StepGeneration DEF GenerationInv
<1>2. /\ UploadInit => UploadInv
      /\ UploadInv /\ [UploadNext]_uploadVars => UploadInv'
      /\ UploadInv => UploadTypeOK
  BY InitUpload, StepUpload DEF UploadInv
<1>3. BatchInit => BatchInv
  BY BatchStarts
<1>4. BatchInv /\ [BatchNext]_batchVars => BatchInv'
  BY BatchKept
<1>5. BatchInv => BatchTypeOK
  BY DEF BatchInv, BatchTypes, BatchTypeOK, Asked
<1>6. GenerationInv /\ UploadInv /\ BatchInv => StoresTypeOK
  BY <1>1, <1>2, <1>5 DEF StoresTypeOK
<1> QED
  BY <1>1, <1>2, <1>3, <1>4, <1>6, EachOfThree, PTL DEF StoresSpec
=============================================================================
