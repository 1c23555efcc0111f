# A verification development for ragflow-agent

ragflow-agent is a multi-tenant RAG service: documents are uploaded, parsed,
chunked, embedded and indexed by a worker, answered from by an agent, and
moved through a lifecycle of updates, rollbacks, soft deletes, restores and
purges. This directory holds TLA+ modules translated from its source, the TLC
configurations that check them, and proofs that TLAPS checks.

    tlc -workers 2 -config lifecycle.cfg MCDocumentLifecycle.tla
    tlc -workers 2 -config pipeline.cfg IngestionPipeline.tla
    tlc -workers 2 -config agent.cfg MCAgents.tla
    tlc -workers 2 -config stores.cfg MCStores.tla
    tlc -workers 2 -config query.cfg MCKnowledge.tla
    tlapm DocumentLifecycleSafety.tla
    tlapm DocumentLifecycleContent.tla
    tlapm AgentApprovalProofs.tla
    tlapm AgentsProofs.tla
    tlapm IngestionPipelineProofs.tla
    tlapm StoresProofs.tla
    tlapm KnowledgeQueryProofs.tla
    tlapm KnowledgeProofs.tla

All paths below are relative to `src/src/ragflow_agent/` unless they start
with `docs/`.

## 1. The system

PostgreSQL rows are authoritative; MinIO (objects), Elasticsearch (projections)
and Redis/ARQ (jobs) are written by separate calls, with no transaction across
them. Only `Document` rows are compared and swapped on a revision
(`save_if_revision`); every other row is saved blindly, as the service read it.

| Component | State | Operations | Hard behaviour | What makes it correct |
|---|---|---|---|---|
| Publication, rollback (`knowledge/application/lifecycle/publish.py`) | document, versions, operation; the index's active flag and fencing token | `complete_ingestion`, `rollback` | validate, promote, commit and retire are four calls over two stores; several publishers per document | one winner per revision; the current version is ready and the others superseded; what is current is searchable |
| Update, reparse (`update.py`, `reparse.py`) | object, version, operation, job, outbox event | `update`, `reparse` | the object is stored before any row names it; the document is only read | a candidate never disturbs the version in service |
| Delete, restore, purge (`delete.py`) | document, delete operation, delayed cleanup event | `request_delete`, `restore`, `purge_due` | restore races the purge around the retention deadline; the purge deletes before it swaps | restore brings back what the last delete hid, unless an earlier deletion was cancelled; nothing recoverable is erased |
| Outbox dispatcher (`worker/outbox.py`) | outbox rows, attempts, available_at | `dispatch_due` | several runs list the same event; rows are saved as listed | an event is handled at least once and its retries end |
| Ingestion pipeline (`ingestion.py`, `domain/ingestion.py`, `domain/lifecycle.py`) | job, tasks, version, operation | `handle`, `_record_failure`, `_progress` | crash and redelivery between any two saves, retries, job timeout, cancel | a published version stays whole, a failed one stays out, a cancelled one is not published, the message leaves the queue |
| Cancel (`control.py`) | operation | `cancel`, `get` | read and blind save next to the worker's | a cancel that no save overwrites holds |
| ARQ queue (`worker/arq_worker.py`) | messages, job_try | deliver, redeliver, exhaust | `max_tries` counts crashes and retries together | bounded deliveries |
| Knowledge query (`knowledge_service.py`, `query/`) | none of its own | `retrieve` | the index is read once, the rows later; channels fail, fallback attempts repeat the search | answers hold only versions that were current; an outage is not an empty answer |
| Retrieval algorithms (`query/fusion.py`, `rerank.py`, `clean.py`, `fallback.py`) | none | fuse, rerank, select | ties, duplicates, several limits on one list | ranking and selection agree with their definitions |
| Upload (`upload.py`) | object, document, version, job, message | `submit` | three stores in a row; a retry after a crash registers again | one document per key is built; what is served is whole; what is acknowledged is concluded |
| Batch (`batch.py`) | batch row | `create`, `refresh` | status derived from children read one after the other | it tells what its operations did |
| Reconciler (`reconcile.py`) | none | `run` | lists rows up to a limit, then deletes what they do not name while uploads are half-way | nothing is deleted whose row it has listed |
| Index rebuild (`rebuild.py`) | generations, alias | `build_and_publish`, `rollback_alias` | rebuilds of one scope overlap; answers of requests are lost | the alias names a complete generation; callers learn the truth |
| Parsing, chunking (`parser_registry.py`, `infrastructure/parsers/`, `infrastructure/chunking/`) | none | parse, group, cut | nine formats, seven strategies, a window with an overlap | blocks show the source, chunks hold all of it |
| Approval service (`agent/application/hitl.py`, `tool_policy.py`) | approval row, in-process results | `request`, `decide`, `resume` | decisions, expiry and resumption under compare-and-set; crash while executing, results remembered from other runs | a tool's effect is approved and happens once |
| Agentic graph, budgets (`agent/graphs/agentic_rag.py`, `agent/application/budgets.py`, `agentic_runtime.py`) | graph state, ledger, remembered results | `route`, `direct_rag`, `execute_step`, `await_approval`, `evaluate`, `finalize`; `run`, `resume` | loops, budgets that run out half-way, crashes that fall back to an older checkpoint | a run ends within its budgets and completes only with its evidence |
| Minimal runtime (`agent/application/runtime.py`, `resilience.py`, `nodes/minimal.py`) | checkpoint, graph state | `run`, `resume` | time-outs racing answers, checkpoints written late, crashes | a resume knows what was done; everybody gets one answer |
| Memory (`agent/application/memory.py`) | consent, memories | grant, revoke, remember, list, delete, expire | consent is read before the save | a revocation forgets |
| Advanced knowledge (`knowledge/advanced/`) | a build's row | trees, graphs, windows, contexts, merging | odd nodes, limits, incompatible manifests | what is derived keeps its sources |
| HTTP API, settings, providers, evaluation, operations | | mapping, wiring, I/O | | not of interest to a model |

How they interact: an API call runs a command service; `update` and `reparse`
leave an outbox event that the dispatcher turns into a queue message; the
pipeline builds the candidate and calls `complete_ingestion`; `request_delete`
leaves a delayed cleanup event that the dispatcher hands to `purge_due`;
`restore` cancels that event; `retrieve` reads the index and then the rows.
`PROJECT.json` lists every component with its status, and under `hazards`
every place where this is hard to test, with the property that covers it.

## 2. The modules

| Module | What it is |
|---|---|
| `DocumentLifecycle` | one document and every command on it, against rows, objects and index |
| `ServedDocument` | the abstract promise: one version after the other is served, a delete hides it, a restore brings it back, or what a cancelled deletion had hidden; an expired tombstone is erased for good |
| `IngestionPipeline` | one ingestion job: queue, stages, publication, failures, redelivery, cancel |
| `MCDocumentLifecycle` | four scenarios of requests, dispatchers and readers for TLC |
| `DocumentLifecycleSafety` | its types, the inductive invariant of the rows, the safety properties and the refinement, proved |
| `DocumentLifecycleContent` | the inductive invariant of the index and the objects, and what it implies, proved |
| `AgentApproval` | one Agentic run waiting for the approval of a tool call, and the requests that resume it |
| `ApprovedCall` | the abstract promise about one tool call: it is decided once, executed once and only if approved, its end is final, its run is told what became of it |
| `AgentApprovalProofs` | the inductive invariant and safety properties of `AgentApproval`, and the refinement, proved |
| `AgenticGraph` | one Agentic run: the nodes of the graph, the ledger, the tools, and the runtime that starts, cuts off and resumes it |
| `AgentRuntime` | one thread of the minimal agent: executions, the graph, checkpoints that lag behind |
| `LongTermMemory` | consent and memories of users, and the calls on them |
| `UploadIngestion` | the uploads that carry one idempotency key, the job's run, a repairing reconciliation among any other documents |
| `IndexGeneration` | rebuilds and rollbacks of a search index under its alias |
| `LifecycleBatch` | one batch, the requests that create and refresh it, the operations it sums up |
| `Lists` | lists sorted, and what is kept of one: used by the three pipelines below |
| `KnowledgeQuery` | one question, from the variants of the query to checked evidence and a prompt |
| `SourceParsers` | the parsers, from abstract sources to blocks |
| `DocumentContent` | routing, parsing, grouping and cutting of one source |
| `AdvancedKnowledge` | trees, graph builds, windows, contexts and merged candidates |
| `MCStores`, `MCAgents`, `MCKnowledge` | instances for TLC: each takes one of several modules at a time |
| `IngestionPipelineProofs`, `KnowledgeQueryProofs` | the inductive invariant and safety properties of each, proved |
| `StoresProofs` | those of `IndexGeneration`, `UploadIngestion` and `LifecycleBatch`, and the types of their sum |
| `AgentsProofs` | those of `AgenticGraph`, `AgentRuntime` and `LongTermMemory`, and the types of their sum |
| `KnowledgeProofs` | those of `DocumentContent` and `AdvancedKnowledge`, the types of `MCKnowledge`, and its three pipelines apart |

`ServedDocument` is instantiated by `DocumentLifecycle`, `ApprovedCall` by
`AgentApproval` (both as `Promise`).
`IngestionPipeline` details the worker that `DocumentLifecycle` takes in a few
steps (its `SaveReady` and `IngestFails` are how a message ends there),
`UploadIngestion` ends where `DocumentLifecycle` begins, `IndexGeneration` is the
index under `KnowledgeQuery`, whose confirmation step `DocumentLifecycle` has
against every lifecycle command, `DocumentContent` uses `SourceParsers`, and
`AgentApproval` details what `AgenticGraph` takes as a claim and a stored result.

`MCStores`, `MCAgents` and `MCKnowledge` are sums: the variable `subject` names the
module a behaviour is of, chosen in the initial state, and the variables of the
others rest in one initial state. The components in one sum share no state in the
code, so nothing is lost by not interleaving them.

### DocumentLifecycle

The variables are the rows (`doc`, `versions`, `objectKey`, `opStatus`,
`cleanup`, `due`), the object store (`objects`), the index (`indexed`,
`searchable`, `token`), the clock, and the local variables of each command
(`pc`, `kind`, `expected`, `target`, `previous`, `source`, `seen`), dispatcher
(`disp`) and reader (`query`). A unit of work is one step; each call to another
store is one step; between two steps anything else may run. A request becomes
one command, chosen by its first step:

| Command | Steps (`pc` afterwards) |
|---|---|
| update | `PutSource` (stored), `Register` (queued), then the worker |
| reparse | `ReadCurrent` (stored), `Register` (queued), then the worker |
| worker | `LoadJob`, `MarkIngesting`, `ParseSource`, `WriteCandidate`, `SaveReady` (publish), or `IngestFails` |
| publication | `LoadPublication`, `Validate`, `Promote`, `Publish`, `Retire` |
| rollback | `ReadRollback`, `AddRollback`, then publication |
| delete | `RequestDelete`, one unit of work |
| cancel of a deletion | `CancelDelete`, one unit of work |
| restore | `ReadRestore`, `Validate`, `Promote`, `CommitRestore` |
| purge | `TakeDueEvent`, `ReadTombstone`, `DeleteProjection`*, `DeleteObject`*, `CommitPurge` or `PurgeConflicts` or `PurgeTimesOut`, `SaveEvent`; `DispatcherCrash` at any point |
| retrieve | `Retrieve`, then `Confirm` for each candidate, in any order |

A command that raises, or whose process dies, takes no further step: that is
an unfair specification, and covers a crash of every command at every point.
`timeline`, `kept` and `overdue` are history: what each revision exposed, which
versions a restore may bring back now, and whether a restore committed after the
retention it had checked when it started.

`restore` undoes the last item of kind DELETE in `updated_at` order (`lastDelete`,
`LastDeletion`). Nothing ever ends a DELETE operation, so `LifecycleControlService.cancel`
accepts one whose delete was undone long ago, and its save makes it the last; see
finding 6. A version left out of service by such a restore stays ready
(`PassedOver`), every other one is superseded (`Retired`).

Left out: permission checks and idempotency keys (they only refuse a command,
or return an earlier result), failing database transactions (an aborted one is
a command that stops), the back-off of a retried event (it may be taken up
earlier than in the code, which adds behaviours), and more than one run of a
job at a time (ARQ holds one per job id). Records of one version move together.
`Init` is the state the upload path leaves: one ready, active version.

### IngestionPipeline

`DocumentLifecycle` lets an ingestion succeed or fail; here is how. The rows
are `job`, `task`, `version` and `op`, each saved on its own, as the run read
it; `document` says whether the document is still at the revision the
operation expects; `records` is the version's projection; `message` is the ARQ
job with its `job_try`; `run` is the worker's local state, copies of rows
included. `_progress` is split into its read and its save of the operation,
because `cancel` has the same two steps and either can overwrite the other.
`Crash` may strike between any two saves and delivers the message again,
`JobTimeout` cancels the coroutine for good (`except Exception` does not catch
`CancelledError` and ARQ does not retry it), `Exhaust` is ARQ refusing a
message past `max_tries`. The database may fail every read and save: in `_load`, which
precedes the `try` (`LoadFails`: the error is no `RetryableIngestionError`, so ARQ ends the
message), in `handle` (`DatabaseFails`, classified like any other failure; `FinishFails` for the
last save, whose answer may be lost with its effect), and in `_record_failure`
(`RecordingFails`, which ends the message). `FailOperation` is what `_record_failure` does
to the operation: nothing, see the findings. `document` may be superseded or
deleted by other commands at any time. `stored`, `accepted`, `lost` and `faults` are
history: a cancel stored while the run still had a check ahead, one stored moreover
outside `_progress`'s read and save, a message that ended with its job as it was, and
what has failed so far.

### AgentApproval

The variables are the `approval` row (status, revision, stored summary), the
run's `checkpoint`, the clock (`now`), and per request where it is (`at`), whether the run
it loaded had gone on (`loaded`), the approval as it read it (`item`), its tool attempts
and what it will save. The decision a request brings is picked when it decides. `Init` is what
`request` leaves. A resume request goes through four phases, each of which reads
the approval, expires it when it is overdue, and acts:

| Code | Steps |
|---|---|
| `AgenticRagRuntime.resume` loads the run | `LoadRun` |
| `get_current` | `Read`, `Expire`, `View` |
| `decide` | `Read`, `Expire`, `Decide` |
| the node `await_approval` after the interrupt | `Read`, `Expire`, `Look` |
| `ApprovalService.resume` | `Read`, `Expire`, `Claim`; after a lost claim `Reread` |
| `SecureToolExecutionService.execute` | `Reuse`, `CallAnswers`, `CallTimesOut` (again up to `max_retries`), `CallRaises` |
| the result is stored | `Store` |
| the node returns, LangGraph saves the run | `SaveRun` |
| the run's time budget cancels the graph | `TimeRunsOut` |

`Expire` hands on the expired row whether or not its swap was stored, as `_expire_if_needed`
does; the node makes a rejected run of it (`RunStatus`), and the run's `hitl_status` says why
(`HitlStatus`). `Reuse`: `execute` answers a claimed call without calling the tool when the
process remembers the result of a call with the same arguments (`tool_policy.py:173-183`), which
another run of the same user has left there. `SUCCEEDED` is stored for every outcome that is
returned, failed ones (timeouts) included; only what is raised is stored as `FAILED`. The node
builds evidence of any returned outcome of a SQL or API tool (`Evidence`), and raises for one
without a digest (`Raises`). `toolEffects` and `approvedBy` are history. Left out: roles, the
policy re-check and the match of arguments, which only refuse a request.

`ApprovedCall` is what all this is for: a call with a status, a result, the number of its
effects and what its run was told last, with the ground it was given. A call concludes with
an effect, or with a remembered result and none; a run is told of a refusal that stands, or
that the approval expired, whatever has become of the call since. Requests, revisions and copies
are not in it. The mapping reads these off the row, the history and the checkpoint (`Promise`).
`MCAgents` runs it.

### AgenticGraph

`state` is the `AgenticState` the last node returned, `node` the node that runs next (`call` and
`tool` are inside one), `run` what the runtime's invocation is doing, `behind` the checkpoints
that a crash may leave as the last one written: LangGraph writes them while later nodes run, and
an invocation that ends waits for them (`Written`). A node is one step, except where it calls a
tool: `execute_step` and `await_approval` go through `CallTool`, an answer or a retry for each
attempt, with the usage in `ledger` until the node returns. `memory` is what
`SecureToolExecutionService` remembers in its process of this run's calls, by call id and by
arguments; a crash, and a resume in another process, start without it. What the process
remembers of other runs may answer a call at any time (`Borrow`, `BorrowApproved`). `rows` are
the approvals that were claimed, have a stored result, were rejected or cancelled.

| Code | Steps |
|---|---|
| `route`, `direct_rag` | `Route`, `Direct` |
| `execute_step` | `ExecuteStep`, `SkipSteps`; `BudgetStop` where the budget runs out |
| `SecureToolExecutionService.execute` | `Known`, `Recall`, `Borrow`, `BorrowApproved`, `CallTool`, `NoAttemptLeft`, `ToolAnswers`, `ToolTimesOut`, `ToolFails`, `ToolRaises` |
| `await_approval` | `Refused` (once refused, for good: `Refusals`), `Claims`, `AnsweredFromRow`, `ResumeFails` |
| `evaluate`, `finalize` | `Evaluate`, `Finalize` |
| `AgenticRagRuntime._invoke` | `Return`, `RunTimesOut`; `Crash` |
| `AgenticRagRuntime.resume` | `ResumedBy`, and `ResumeFinalize` for a run that died after its approval was refused or failed |

Of an evidence item the model keeps what `EvidenceSufficiencyPolicy` asks: its step, whether it
passes the filters, and its stance on a fact. Tokens are three values: the finalization reserve
is intact, cut into, or a limit is passed; cost is whether its limit is passed. `visits`,
`toolCalls` and `risky` are history: the steps and calls of the run as its checkpoints tell it,
and the calls an approval allowed, which nothing takes back. A crash falls back to a checkpoint
that was written. Only a run that has an approval pending there can be resumed; from any other
it is lost. A call of the tool may time out, fail or be refused at any attempt. Left out: the
texts of answers, what the planner and the models say, concurrent resumes (`AgentApproval` has
them), and LangGraph's recursion limit.

### UploadIngestion

`call` is where each `submit` with the key is, `object`, `version`, `current`, `job`,
`task` and `records` what the stores hold, `message` the ARQ job, `run` the worker's
local state, `repair` the reconciler's. A document's id is fresh in every call, so
documents are named by the call that registered them; the object's key and the job's
id derive from the idempotency key, so there is one of each.

| Code | Steps |
|---|---|
| `UploadService.submit`, `_republish_pending` | `LookUpJob`, `PutObject`, `RegisterDocument`, `AddJob`, `Publish`; `RequestFails` at any of them |
| ARQ | `Deliver`, `LoadFails`, `Exhaust`, `ResultExpires`, `WorkerDies`, `JobTimeout` |
| `IngestionPipeline.handle` without an operation | `MarkRunning`, `MarkIngesting`, `StartTask`, `StageWorks` or `StageFails`, `SucceedTask`, `Activate` or `ActivateFails`, `Finish`; `DatabaseFails`, `FinishFails` at any of them |
| `_record_failure` | `FailTask`, `FailJob`, `FailVersion`; `RecordingFails` |
| `LifecycleReconciler.run(dry_run=False)` | `ReadRows`, `DeleteOrphanObject`, `DeleteOrphanRecords` |

The reconciler lists `limit * 10` version rows of the whole tenant, so the rows of other
documents may fill the list and any row of these uploads be missing from it: `ReadRows` takes
any subset of them. `lost` and `overlooked` are history: a message that ended with its job as
it was (a run that was killed, or a database error in `_load`, in the last save or in
`_record_failure`), and a version row a reconciliation did not see, because its list was
full or because the row was registered after it was read.

### IndexGeneration

Each request to Elasticsearch is a step and may fail, with or without its effect
(`SearchFails`); a call may die (`Crash`). The request that creates the index precedes the `try`
(`rebuild.py:24`): when it fails, with or without its effect, the build raises and removes
nothing (`CreateFails`). `switch_alias` is `CompareAlias`, `UpdateAlias`, `ConfirmAlias`: the
update is atomic, the comparison is a request of its own. After a failure the builder asks where
the alias points (`ResolveOutcome`) and decides what to clean up (`CleanUp`, then `RecheckAlias`
and `DeleteIndex`, the two requests of `delete_generation`). `stranded` is history: the calls
that died, whose clean-up failed, or whose index was created although they were not told.
Generation numbers are the callers' and are taken to differ.

### LifecycleBatch

`batch` is the row, `operation` the statuses of its operations, `asked` where each request is
and what a refresh has counted. A batch is of one kind: an update, reparse or rollback
(`publish`), a delete, or a restore; a purge is added as succeeded, like a restore. `create` is
`LookUpBatch` and `AddBatch`; `refresh` is `BeginRefresh`, `ReadChild` for each operation and
`SaveRefresh`; either may fail (`Aborts`). Meanwhile `LoadOperation` and `CompleteOperation` are
the publication of an operation, `ReadOperation` and `SaveCancel` the cancel of one.
`published`, `reopened` and the `since` of a refresh are history. Children are read in any
order. Left out: the scope checks and the limits of `create`, which only refuse.

### KnowledgeQuery

One question: `Authorize`, `Transform`, then per attempt `SearchVariant` or `SearchFails`
for each variant and channel, `Fuse`, `Rerank` or `RerankFails`, the verdict
(`RecordTrace`), and `CheckCandidate` for each candidate; last `Generate`, the prompt of
the fixed RAG answer. Meanwhile documents switch versions, are revoked, and the index
follows later (`SwitchVersion`, `Revoke`, `SyncIndex`). What the channels and the reranker
answer is any list over `Scores` and `RerankScores`. Fusion is exact: the fractions of
`1 / (k + rank)` multiplied by `Scale`, a common multiple of their denominators.
The code's sorts are `Ordered`: the element at a place is the one with as many before it, by
score and then by chunk. `Fusion` adds each channel's `Share` of a chunk and orders the sums;
`Clean` looks at one candidate after the other and takes it (`Taken`) while the threshold, its
document's limit and the number wanted allow. A reranker answers any permutation of its
candidates with any scores. `RankingIsSound` compares these operators with their definitions
for every list that occurs and every score. `QueryAssumption` is what the settings and the
stores guarantee of the constants, `ScaleAssumption` that `Scale` tells two ranks apart.
Left out: filters of metadata, wording of prompts, and the steps of a trace.

### SourceParsers and DocumentContent

A source is the sequence of elements the format's library finds; a parser makes blocks of
them that remember which elements they are made from, their page, and the
headings above. An element may stand inside others (`inside`: a heading or a table in a list
item or a cell, a word in a table of a PDF), and may be one the parser does not look for
(`hidden`: scripts and text outside HTML's blocks, grouped shapes, charts, speaker notes, text
boxes). The parsers are translated for text, Markdown, HTML, DOCX, PPTX,
XLSX, PDF (with its columns and the OCR of a page without text) and images.
`DocumentContent` routes a request (`Resolve`: an override that is not registered, and a media
type the parser does not take, are refused), parses (`Parse`), picks the strategy and
groups the blocks (`ChooseStrategy`), and cuts each group with the sliding window (`Cut`,
`Finish`). A line is one token and known by its mark: what a strategy looks for at its
start. Of the strategies `qa` leaves out what is outside a question and its answer, and the
table strategy repeats its header in every row, as the code does.

A strategy is written by the places where its groups begin: `Grouped` takes a list, the
members that open a group (a heading, an article) and those that stand alone (a table, an
image); `Keep` leaves a subsequence. In `Pairs` a question opens a pair when an answer stands
between it and every question before it, which is where the code's loop starts one.
`ContentGiven` is what is assumed of the constants: positive limits, an overlap that is a
natural number, strategies the code has a branch for (`Named`), and parsers that make a list
of blocks, each a list of lines (`ContentAssumption`). TLC evaluates it for the sources of the run.

### AdvancedKnowledge

`made` is the last thing derived, `row` and `copies` a graph build in the store and as its
callers have it. `BuildTree` is RAPTOR, `ReadBuild` and `BuildGraph` GraphRAG with
its budgets and its build row, `Cancel` its cancellation, `MakeWindows` the temporal
windows, `Expand` the context of a hit, `Retrieve` the merging retriever. The services are
instantiated nowhere in `src/src` outside the tests; they are modelled as their callers
there use them.

`Tree`, `Expanded` and `Merged` are functions by recursion over the levels, the chunks and
the admitted candidates; `Lists` has what they share with the other pipelines: `Ordered` and
`Ascending` sort, `Keep` leaves out. A property is stated of one derived record
(`TreeKeepsLeaves`, `GraphIsGrounded`, `WindowsHoldPoints`, `ContextHasHit`, `MergeIsBest`), and
`DerivedKeepsSources` of the last one made. `AdvancedAssumption` is what is assumed of the
inputs: lists, tokens and times that are natural numbers, positive limits, and of a result of the base
retriever that it is in the order of its scores and has no chunk twice, which is what
`RankingIsSound` says of `KnowledgeQuery`. TLC evaluates it for the inputs of the run.

### AgentRuntime

Executions of one thread, each `run` or `resume`: `Load`, `Begin`, the nodes (`Normalize`,
`DecideTool`, `DecideFinal`, `ToolReturns`, `Observe`, `Finish`), their retries
(`DecideTransient`, `ToolTransient`), every way to break off (`Breaks`, `StepLimit`, `Cancel`),
and the end (`ReturnAnswer`, `Raise`; `ProcessDies`). The graph library is external: it writes
the checkpoint of a step while the next one runs (`SaveCheckpoint` takes the oldest of
`unsaved`), an execution that ends waits for its writes and one that crashes does not, and its
step limit counts steps of its own, so that a resumed graph gets up to two more. `effects`,
`answers`, `crashed` and `overlap` are history. The reuse of a result by call id is modelled and
never happens: the id contains the step. Left out: events and their sequence numbers, and
streaming.

### LongTermMemory

Consent and memories per user, with each repository call a transaction of its own:
`Revoke` stores the consent and then deletes all the user has (`Delete` is one memory),
`ReadConsent` precedes `SaveMemory`, `BeginList` precedes `ListMemories`. A request may die
between two of them (`Die`). The filter for secrets and the limits on length only refuse.

## 3. The runs

| Run | Checks | Shows |
|---|---|---|
| `lifecycle` | `CurrentIsReady`, `OthersAreSuperseded`, `OneWinnerPerRevision`, `KeptWhileRecoverable`, `FirstPublicationSearchable`, `AnswersWereCurrent`, `ImplementsServedDocument` | four scenarios: three commands of any kind and a dispatcher, two commands and a retrieval, two dispatchers over one tombstone, and a document deleted twice |
| | `ContentInv` | the inductive invariant the proofs use, which contains `LifecycleInv` and the types |
| `pipeline` | `TypeOK`, `PublishedStaysWhole`, `AcceptedCancelHolds`, `HandledIsConcluded`, `FailedIsFinal`, `EventuallySettled` | one job with three deliveries; stages, publication and the database failing at any step, crashes, timeouts and cancels |
| `agent` | `AgentsTypeOK`, `CompletedIsCovered`, `CallsAreBudgeted`, `StepsAreBudgeted` | one Agentic run over every small plan, any evidence, failures, retries, approvals, remembered results, crashes with checkpoints that lag behind, and resumes |
| | `OneExecution`, `EffectsAreApproved`, `RunAgreesWithTool`, `ImplementsApprovedCall` | three resumes that approve, reject or cancel, around the expiry, with retries, failures, remembered results, the time budget and a crash anywhere |
| | `EffectsAreRemembered`, `AnswersAgree` | two executions of a minimal agent's thread, with retries, cancellation, the step limit and crashes |
| | `RevokedIsForgotten` | two users and two requests that agree, revoke, remember, list and delete |
| `stores` | `StoresTypeOK`, `StrayIsNeverBuilt`, `ServedIsWhole`, `AcknowledgedIsConcluded` | two uploads with one key, the worker, a database that fails it, and a repair whose list may leave out any row |
| | `AliasedIsWhole`, `AnswersAreTrue` | two rebuilds and a rollback of one index, any request failing with or without its effect |
| | `BatchTellsTruth` | two operations of any kind, published and cancelled, and two requests over a batch that may already exist |
| `query` | `KnowledgeTypeOK`, `EvidenceIsCurrent`, `EmptyIsHonest`, `RankingIsSound` | a question over two documents and three versions that change meanwhile, with failing channels and every fallback attempt |
| | `BlocksShowSource`, `ChunksCoverSource` | sources of every format, through every strategy and two window sizes |
| | `DerivedKeepsSources` | trees, graphs, windows, contexts and merged candidates over small inputs |
| `restore_purge` | `RestoredIsNotReclaimed` | violated: finding 1 |
| `dead_letter` | `FailureIsDeadLettered` | violated: finding 2 |
| `transient` | `TransientIsRetried` | violated: finding 3 |
| `repeated_resume` | `ContinuesWithResult` | violated: finding 4 |
| `generation` | `ServedIsNotDeleted` | violated: finding 5 |
| `restore_other` | `RestoreUndoesDelete` | violated: finding 6 |
| `cancel_lost` | `StoredCancelHolds` | violated: finding 7 |

Bounds. The run of the documents plays one of four scenarios (`Scenarios`), for all commands
with two dispatchers and a reader at once are past what can be enumerated. `commands`: three
requests let an update, a rollback and a third command meet on one revision, give a document
three versions, and let a delete, a restore and a publication overlap. `reader`: a
retrieval beside two commands. `dispatchers`: a delete, a restore and two dispatchers that
have listed the same cleanup event. `redelete`: two deletes, two restores and an update, with
the first deletion's event and operation still about; deletions are cancelled at any time in all
but `commands`. Requests are
interchangeable and taken up in one order; that no request can come twice makes this what a
symmetry set would do, and it is sound for the refinement too. With `Retention = 1` and a clock
that goes up to 2 a deadline can be ahead, reached and passed (`Until` stops it at 1 in
`commands`, where a deadline is ahead or reached, and at 0 in `redelete`). The proofs need none
of this: they are for any requests, dispatchers and readers at once. `MaxAttempts = 2` and
`ConcurrencyAttempts = 2` give each event a first attempt, a retry and a dead
letter. In the pipeline `MaxTries = 3` and `ConcurrencyAttempts = 2` keep the two
limits apart (the code has 6 and 3) and let a message be delivered first,
again after a retry or crash, and for the last time. For an
approval, three resumes are a decider, a competitor and a late one; with
`ApprovalTtl = 1` and `MaxClock = 1` the approval is in time or overdue, and `CallRetries =
1` gives a first attempt and a last. For the graph, plans of one and two steps over
the three kinds of tool (knowledge base, SQL or API, one that needs approval)
give every order of them, with two passes (`MaxRounds = 2`); three iterations are
a pass of two steps and half of another, three attempts run out in the middle of a plan when one call is
retried, and one model call is used up by the planner. `visits` stops counting two
steps past the limit, enough to tell that a run went on.

For uploads, two calls are a first request and a retry or a competitor; `MaxTries = 2` gives a
redelivery and a last try, `Repairs = 1` one repair at any point. For generations, two builds
and a rollback are every pair of callers, one of whom may delete what another serves. For a
batch, two requests are two creations with one key, or two refreshes that overlap; two
operations let one change after it was counted and before the other is. For a question, four
chunks of three versions of two documents, ranked lists of two, two variants and `MaxFallback =
4` give duplicates between channels, ties, the per-document limit and every fallback attempt;
`MaxChanges = 1` lets a switch, a revocation or an update of the index fall between any two
steps. Sources are sequences of two or three elements, which is a heading, what is under it and
what comes next; windows of one and three tokens with an overlap of one are shorter than, equal
to and longer than a group. Trees have up to five leaves and three levels: an odd node at two
levels, and a tree cut off. For a thread, two executions, three graph steps and two attempts
give a retry, a resume in the middle of the graph and one at its end; two users with two callers
and two memories give a revocation next to a save of the same user and of another.

The guards that bound counters: `Tick`, `ClockTicks` and `Until` (the clocks: `MaxClock`,
`MaxTime`), `Total` (requests), `MaxSaves`, `MaxChanges`, `Repairs`. The largest runs reach 3.1
million states (`agent`), 1.2 million (`lifecycle`), 0.6 million (`stores`) and 0.4 million
(`query`). Revisions, attempts, deliveries and tokens are bounded by the code itself or by the
number of requests.

Deadlock is not checked: when all requests are done, the clock is at its bound and no event is
due, when the message is gone, when every resume, run or execution has returned, when every
upload is answered, every build has ended and every request to a batch is used, or when a
question or a source is done, the system really stops.

Fairness. `IngestionPipeline` and `UploadIngestion` have it. `WF(Work)`, an event loop runs what
is runnable and every awaited call answers, fails or times out (each of those is a disjunct of
`Work`, a call of the database included: `DatabaseFails`, `FinishFails`, `RecordingFails`), and
`WF(Deliver \/ Exhaust)`, workers poll the queue. Crashes, timeouts, cancels and other commands
are never required. A fair run may crash at every delivery; `EventuallySettled` holds all the
same because `job_try` counts crashes. It says that the message leaves the queue, not that the
job is concluded: a database error in `_load` ends the message with the job as it was, which is
why `HandledIsConcluded` and `AcknowledgedIsConcluded` except the runs in `lost`. For uploads
also `WF(SubmitStep(c))`: a request that has begun goes on. No client has to come back with its
key, and no reconciliation has to run.

Mutants. Every property of a passing run has a plausible bug of the code (an
operator named in `PROJECT.json` "mutants", kept beside the definition it would
replace) under which TLC finds it violated.

## 4. What is proved

For the documents: any set of requests, dispatchers and readers, any retention,
clock bound and attempt limits, from three assumptions: `NamesAssumption` (the initial
version and `None` are not requests), `BoundsAssumption` (natural, positive
where the code requires it) and `KindsAssumption` (the kinds of command).

| Theorem | States |
|---|---|
| `TypeCorrect` | `Spec => []TypeOK` |
| `LifecycleInvariant` | `Spec => []LifecycleInv`, the inductive invariant |
| `OneWinner` | `Spec => []OneWinnerPerRevision` |
| `CurrentReady` | `Spec => []CurrentIsReady` |
| `OthersSuperseded` | `Spec => []OthersAreSuperseded` |
| `AnswersCurrent` | `Spec => []AnswersWereCurrent` |
| `ServesOneVersion` | `Spec => Promise!Spec`, the refinement of `ServedDocument` |
| `ContentInvariant` | `Spec => []ContentInv`, the inductive invariant with the index and the objects |
| `FirstSearchable` | `Spec => []FirstPublicationSearchable` |
| `KeptRecoverable` | `Spec => []KeptWhileRecoverable` |

None of the safety properties is inductive. That the current version is
ready, for example, depends on what a publisher read before it promoted, on
what a rollback read two units of work earlier, and on a purge finding what
it listed. `LifecycleInv` says what those copies are worth. The key is
`timeline`: its length is the revision, its last entry what the document
exposes, and `CallInv(c)` ties every local variable of a command to the
timeline at the revision it expects - as long as that revision is still the
last one, which is exactly the case in which its swap succeeds. So a stale
copy is harmless because the swap refuses it, and a fresh one is known to be
the truth:

- `DocInv`: status, current version, deadline and the end of the timeline agree;
- `CallInv`: what a command read (target, previous, expected) is what the
  timeline says at that revision; an update's target is its own and was never
  served before it commits;
- `OneEach`: a revision is claimed by at most one command;
- `ServedInv`, `StatusInv`: a version enters service by the commit of the command that built
  it; a superseded one has been in service; of those that have, the one that is current (or was
  last) is ready and the others superseded, but for those a restore has passed over
  (`PassedOver`), which stay ready;
- `TombstoneInv`: the deletion a restore would undo is one, and the version it brings back
  has been served; `kept` has that version of every tombstone;
- `PurgeInv`: a purge in progress is of a tombstone that had expired when it was
  read, if the revision is still the one it read;
- `AnswerInv`: an answer's versions are entries of the timeline since the request
  began.

`DocumentLifecycleSafety` proves `Init => LifecycleInv`, one lemma per action and
conjunct that the action can disturb, and derives the properties. For the
refinement, `Publish` of a new version maps to `Publish`, of an old one to
`Rollback`, `RequestDelete` to `Hide`, `CancelDelete` of a hidden document to `Recall`,
`CommitRestore` to `Reveal`, `CommitPurge` to `Erase`, `Tick` to `Tick` and every other step to a
stutter. What must be shown of a restore is that the version it read is still in `kept` when
its swap wins.

`DocumentLifecycleContent` adds what the rows do not say, since nothing ties the index and
the objects to them but the order of the calls and the fencing token:

- `LocalInv`: which calls have a row of their own; that a registered candidate had read a
  version in service; that what a late retire call hides was served at the revision its
  publication or delete had read;
- `FoundInv`: what a purge has listed was registered before the delete it completes. A
  candidate that may still win therefore never loses its records to a purge that is doomed
  to lose its swap but deletes first;
- `SearchInv`: only its own publication fences the records of a candidate nobody has
  served, so its promotion is never a no-op, and its records stay searchable while its
  revision is the last one. From that revision on the late retire calls concern only what
  was served before: hence `FirstPublicationSearchable`, and hence its restriction to
  versions in service for the first time;
- `DueInv`: the deadline a restore is measured by is the tombstone's own;
- `KeptInv`: while a document is `Recoverable` (in service, or inside the retention, with no
  restore that overran it) no purge is deleting, whatever has a row has its object, and
  whatever was served or is about to be has its records. It is inductive because no step
  makes a document recoverable that was not before (`RecoverableBefore`): a restore that
  commits in time finds the tombstone unexpired, and a purge begins only when it has expired.

For the approvals: any set of requests, any number of retries, any time to live,
from `ApprovalBounds` (they are natural numbers).

| Theorem | States |
|---|---|
| `ApprovalInvariant` | `ApprovalSpec => []ApprovalInv`, the inductive invariant |
| `ApprovalTypeCorrect` | `ApprovalSpec => []ApprovalTypeOK` |
| `ToolExecutesOnce` | `ApprovalSpec => []OneExecution` |
| `EffectsNeedApproval` | `ApprovalSpec => []EffectsAreApproved` |
| `EndsAreFinal` | `ApprovalSpec => [][Concluded => approval' = approval]_approvalVars`, an action property |
| `RunIsToldTheTruth` | `ApprovalSpec => []RunAgreesWithTool` |
| `CallKeepsPromise` | `ApprovalSpec => ImplementsApprovedCall`, the refinement of `ApprovedCall` |

Here too no property is inductive, because every request acts on a copy.
`RowInv(c)` says what the copy is worth: if its revision is the row's, so is its
status, so a swap that wins found what was read (`SwapFinds`); and from the claim
to the result the claimant's revision is the row's, so nobody can take the claim
away. `ClaimInv`: a claim exists only under a status it has set, and is one
request's. `EffectInv`: the effects are at most that request's attempts.
`ApprovedInv`: the status says whether an approval was stored. A step either
leaves the row alone (`QuietStep`), or swaps it while nobody else holds the claim
(`SwapStep`), or is an attempt of the claimant.

`RunIsToldTheTruth` is about what comes after: the run's checkpoint is saved by a request
that decided, refused or read something several steps earlier. `TruthInv` adds to
`ApprovalInv` what such a request carries (`CarriesTruth`): a refusal or a result it read is
the row's, for both are final (`EndsAreFinal` is used here), and a result it made itself
becomes the row's before it saves the run, or the request fails. A stored success has had
its effect, or is the remembered result of another run's call (`ResultInv`), nothing is stored
before the end (`BlankInv`), and the checkpoint says of the approval what the row says
(`CheckpointInv`). All of this but for an expiry: the request that tells the run of one does not know
whether it was stored, and the checkpoint's `hitl_status` is how such a run is told apart.

`CallKeepsPromise` maps the steps under `TruthInv`. A `Decide` or an `Expire` whose swap wins is
`Settle`, a `Claim` that wins is `Begin`, an attempt with an effect is `Call`, a `Store` is
`Conclude` (also of a remembered result, whose `Reuse` is a stutter and which has no effect
because its request has made no attempt), saving the run or running out of time is `Tell`; a
swap that loses and every step on a copy is a stutter. That a swap which wins finds the status
the request has read, that only one claimant calls, and that what is told is still so, are the
parts of `TruthInv` above: the order in which requests read, expire and save disappears behind
the promise.

For the Agentic graph: any plans that are non-empty sequences of steps
(`PlansAssumption`) and any budgets (`GraphBounds`: natural numbers, with at least one
iteration, retrieval round and model call where the settings demand it).

| Theorem | States |
|---|---|
| `GraphTypeCorrect` | `Spec => []TypeOK` |
| `CompletedRunsAreCovered` | `Spec => CompletedIsCovered`, an action property |
| `StepsStayBudgeted` | `Spec => []StepsAreBudgeted` |
| `CallsStayBudgeted` | `Spec => []CallsAreBudgeted` |

`RunInv` is `GraphInv`, about the run as it is, and `KeptInv`, about what a crash may leave of it.
`GraphInv` has a part for each property. `PlaceInv`: where a run that goes on may stand and with
which status. `StoppedInv` is what makes `completed` hold (`CompletedInv`): the status is written
by whichever node exhausts a budget with sufficient evidence, and the graph may still go round
after it; a budget that is exhausted stays so, hence no call can add to the evidence or take from
it before the run ends. `VisitsInv`: every step begun has cost an iteration, in the node's ledger
until the node returns and in the run's usage after it. `CallsInv`: every call the run knows of is
in that ledger or in that usage; and those that needed an approval, which no crash takes back, are
within what the claimed approvals allow (`RiskyLimit`), because one that is under way is of a
claim with attempts left and a claim is never taken twice. `KeptInv`: each checkpoint that a crash
may fall back to is one that a request can go on from (`Resumable`): it waits for its approval,
has its result, or is at an end that is not `completed`. One
lemma per action shows that it keeps each part; the arithmetic of sums and products over
`Cardinality` is in lemmas of its own.

For the pipeline: any `MaxTries` and `ConcurrencyAttempts` that `TriesAssumption` allows
(positive, the second at most the first).

| Theorem | States |
|---|---|
| `PublicationIsWhole` | `Spec => []PublishedStaysWhole` |
| `CancelHolds` | `Spec => []AcceptedCancelHolds` |
| `HandledJobIsConcluded` | `Spec => []HandledIsConcluded` |
| `FailureIsFinal` | `Spec => FailedIsFinal`, an action property |
| `PipelineTypes` | `Spec => []TypeOK` |

`PipelineInv` relates each copy in `run` and in `request` to its row. A redelivery after
publication (`RedeliveryIsHarmless`) is stopped by the operation it reads, which is
completed, or cancelled by a blind save, and either way gets no further than its first
stage; `CancelIsSeen`: an accepted cancel is in the row and in every copy that may still be
saved over it; `JobAgrees`: a run's copy of the job has the row's status until it records a
failure, although every read and save may fail; `FailureIsKnown`: a run that goes on knows a
failed version as one. What is in `lost` is excepted by `HandledIsConcluded` and by nothing else.

For uploads: any set of calls and any number of tries and repairs (`UploadConstants`), and any
list the reconciler may get.

| Theorem | States |
|---|---|
| `OneDocumentPerKey` | `UploadSpec => []StrayIsNeverBuilt` |
| `ServedUploadIsWhole` | `UploadSpec => []ServedIsWhole` |
| `UploadTypes` | `UploadSpec => []UploadTypeOK` |

`UploadInv`: how far each call has come agrees with the rows (`CallsAgree`), nothing runs
before a job is committed (`NoJobNoRun`), at most one run is under way and none once the
document is served, but for one that was not told so by its last save and is recording a
failure that nobody will read (`OneRun`), a run has the stages before its own behind it
(`StagesDone`), and a repair that overlooked nothing knows every version (`RepairKnows`).

For index generations: any sets of builds and rollbacks with distinct names
(`GenerationAssumption`).

| Theorem | States |
|---|---|
| `GenerationInvariant` | `Spec => []GenerationInv` |
| `AliasServesWhole` | `Spec => []AliasedIsWhole` |
| `CallersAreTold` | `Spec => []AnswersAreTrue` |

The comparison before the switch is no part of the argument, for it may be stale: what
holds is that a call reaches the switch only with an index that validation has found
whole, and that nobody writes to an index after that but by deleting it. A build that raises
leaves an index behind only if it is in `stranded`: it died, a request of its clean-up failed, or
its index was created by a request whose answer was lost.

For the minimal agent: any executions, tools, answers and limits, if `None` is no call
and no state (`NoneIsNothing`).

| Theorem | States |
|---|---|
| `RuntimeInvariant` | `RuntimeSpec => []RuntimeInv` |
| `ResumeKnowsEffects` | `RuntimeSpec => []EffectsAreRemembered` |
| `OneAnswer` | `RuntimeSpec => []AnswersAgree` |
| `RuntimeTypeCorrect` | `RuntimeSpec => []RuntimeTypeOK` |

`RuntimeInv` says of a thread that no two executions have driven at once: the state of the
running graph is the last checkpoint written or waiting to be written (`Follows`), a state
that has ended is the last of those (`EndIsLast`), and what was done is known to the
latest of them (`Remembers`). It claims nothing after an overlap, and
nothing of effects after a crash, when what was still to be written is lost.

`RuntimeTypeCorrect` is for finitely many executions and natural limits (`FiniteRuntime`). The
bound on the steps of a state is not inductive by itself, since an execution may go on from
the checkpoint of any other: a state has made no more steps than the executions begun can
have contributed, each at most its own limit (`StepsCounted`), and a graph that runs has a
checkpoint or one to write (`CheckpointThere`).

For batches: any finite set of operations (`BatchAssumption`) and any requests.

| Theorem | States |
|---|---|
| `BatchTypeCorrect` | `BatchSpec => []BatchTypeOK` |
| `BatchesTellTheTruth` | `BatchSpec => []BatchTellsTruth` |

`Counted(q)` bounds what a refresh has counted on both sides: at most the published
operations it has read, at least those that had succeeded when it began, have been read and
were not saved over by a cancel. Publications and cancels keep both (`CountedStands`), and so
does a read, which adds an operation to both or only to the upper one. The row is a copy of
some refresh's count, so overlapping saves cannot make it claim more than was published.

For a question: any documents, versions, chunks, limits, answers of the channels and of the
reranker, and number of changes to the stores, from `QueryAssumption` and `ScaleAssumption`.

| Theorem | States |
|---|---|
| `QueryTypeCorrect` | `Spec => []TypeOK` |
| `EmptyMeansEmpty` | `Spec => []EmptyIsHonest` |
| `EvidenceStaysCurrent` | `Spec => []EvidenceIsCurrent` |
| `RankingStaysSound` | `Spec => []RankingIsSound` |

`EmptyMeansEmpty` and `EvidenceStaysCurrent` depend on nothing that fusion, reranking and
selection compute: `OutageInv` follows a failed search through the attempt's errors to the
outcome that is recorded, and `EvidenceInv` notes every version that is current from the
beginning of the check, so that a candidate whose document is found at its version is at one
of those, whatever the index answered.

`RankingStaysSound` is about what they compute. `QueryInv` says what the lists of an attempt
are: rankings of the channels without a chunk twice, candidates that are the fused list cut
to its limit. The rest are lemmas about the operators, for any lists. `Ordered` sorts
(`OrderedSorts`): the number of elements ahead of one is a bijection to the places, by counting
(`FirstOfCounts`). `Clean` is a function defined by recursion, so its existence is proved
first (`CleaningExists`), then what it has kept after each candidate (`KeptGrows`): in the end
exactly those that reach the threshold, are within their document's limit among those, and
within the number wanted among what is left (`CleanChooses`). Induction on the natural numbers is
used as a statement about sets of them (`NatInd`, from the least element of a set), since the
library's induction theorems cannot be instantiated here.

For sources: any parsers, sources, strategies, limits and overlaps that `ContentGiven` allows.
`ChunksHoldSource` is `ContentSpec => []ChunksCoverSource`. It has two halves. One lemma per
strategy (`SectionsHave`, `LawsHave`, `TableHas`, `PicturesHave`, `QuestionsAre`, `GeneralHas`)
shows that its groups hold every line of the blocks, for any list of blocks; they rest on what
flattening, keeping and grouping do to the members of a list (`FlatHas`, `KeepHas`,
`GroupedHas`), and those on recursion over the natural numbers (`Recursion`). The other half is
`ContentInv`, about the window: a group before the current one is cut entirely, the current
one up to what its last window reached (`Cutting`); the next window begins no later than that
and ends beyond it, because the overlap is cut to less than the limit (`NextWindow`), and this
is why the loop of `_split` ends.

For what is derived: any chunks, points, results of the base retriever, offers, versions,
levels, windows and limits that `AdvancedAssumption` allows.

| Theorem | States |
|---|---|
| `DerivedStaysSound` | `AdvancedSpec => []DerivedKeepsSources` |
| `DerivedTypes` | `AdvancedSpec => []AdvancedTypeOK` |

The property speaks of one record, so that it is inductive as it stands; the work is in one
lemma about each operator.

- `TreeKeeps`: after `n` rounds there are `n + 1` levels or one root (`GrownIs`). The nodes of
  a level end at rising places (`EndsAt`): a node holds the run of leaves from the end of the
  one before it to its own (`Run`). Two runs that follow each other are one (`RunsJoin`), so
  a parent holds a run too, that of an odd node included (`ParentsHold`), and the leaves of
  a level, put together, are all of them in order (`LevelHolds`).
- `GraphGrounded`: an edge comes from a chunk that names both of its ends next to each other.
- `WindowsHold`: an index is the one window whose bounds hold the point (`Multiples`, from
  division), and the indices in use are sorted (`AscendingSorts`).
- `ContextHas`: what is taken after each chunk, and the tokens used are the sum of theirs (`TokensAre`).
  The hit is among the chunks around it, so only the tokens can keep it out.
- `MergedIsBest`: after each candidate the dictionary has one entry for each chunk offered so
  far, the best of its offers (`JoinHas`, `MergingHas`); sorting and cutting keep the best of those
  (`AllAdmittedIs`), and the base result alone stays in its order (`SortedStays`).

For the long-term memory: any users and callers, with natural bounds. `RevocationForgets`
(`MemorySpec => []RevokedIsForgotten`) and `MemoryTypes`, from one more conjunct:
a call under way has an owner (`Owned`).

For the sums: `AgentsTypes` (`AgentsSpec => []AgentsTypeOK`) and `StoresTypes` (`StoresSpec =>
[]StoresTypeOK`) from the types of their modules; the module a behaviour is of takes its own
steps and the others rest in an initial state. `PipelinesApart` (`KnowledgeSpec => Spec /\
ContentSpec /\ AdvancedSpec`) says this of `MCKnowledge` as a theorem of its own, so that every
result on one of the three holds of the specification the run checks (`KnowledgeStaysSound`),
and `KnowledgeTypes` is `KnowledgeSpec => []KnowledgeTypeOK`. The type of `DocumentContent` follows from
`ContentInv` (the window's first token is in the current group) and from `Routing`: a parser
that is resolved is a registered one, and there are no groups before a strategy is chosen.

Model-checked only:

- `BlocksShowSource`: the parsers of `SourceParsers` are folds and sorts over operators given as
  lambdas, and what those compute for every input needs induction over data, which this
  prover does not reach. It is also no theorem for every source: it holds of those a
  format's library can find, which the run lists. `ContentGiven` assumes no more of the
  parsers than that they list blocks.
- `EventuallySettled` and `AcknowledgedIsConcluded`: liveness under fairness is out of its reach.

## 5. Findings

1. **A restored document is reclaimed** (`restore_purge`, `delete.py:342`). A
   restore that starts before the deadline and commits after it meets a purge that
   deletes first and compares the revision last. `KeptWhileRecoverable` is what
   remains true: it happens to no restore that commits in time.
2. **No ingestion failure becomes a dead letter** (`dead_letter`, `ingestion.py:468`).
   The status is a bare string that the repository cannot save; the transaction is
   rolled back and the operation stays pending.
3. **A transient error after the first stage is not retried** (`transient`,
   `domain/lifecycle.py:345`). The retry reports progress 0.25 where the operation
   has more, which is refused for good.
4. **A repeated resume goes on with evidence that says None** (`repeated_resume`,
   `hitl.py:165`). A resume whose predecessor stored the tool's result but not the
   run is answered from the stored summary, which has no output;
   `await_approval` makes a valid citation of it. `RunAgreesWithTool` is what
   remains true: the run that goes on has had its effect, or goes on with the result of
   another run's call.
5. **An index in service is deleted** (`generation`, `elasticsearch.py:548`).
   `delete_generation` looks at the alias and then deletes, in two requests; a failed build's
   clean-up has looked, a rollback puts that index back in service, the clean-up deletes it.
   `AliasedIsWhole` is what remains true: the alias never shows a part of a generation.
6. **A restore brings back another version** (`restore_other`, `delete.py:180`). It undoes the
   DELETE operation with the latest `updated_at`; no step ends such an operation, so an old one
   can be cancelled, and its save makes it the last. The restore then serves what that
   deletion had hidden, leaves the version of the last one ready beside it, and leaves its
   cleanup event pending. `ServedDocument` with `Recall`, and `OthersAreSuperseded` with
   `PassedOver`, are what remains true.
7. **A cancel is lost** (`cancel_lost`, `ingestion.py:374`). A cancel stored between `_progress`'s
   read and its save of the operation is overwritten, later checks find the operation running, and the
   version is published (`docs/09-document-lifecycle.md:94` has every boundary check for
   it). `AcceptedCancelHolds` is what remains true: it happens to no other cancel with a check ahead.

Seen while modelling, and part of the modelled behaviour without a run of its own.

Lifecycle and stores:

- A late retire call hides the current version (`publish.py:141`): it follows the commit,
  carries no fencing token, and may land after a rollback has put that version back.
  `FirstPublicationSearchable` is what remains true: it happens only to a version that was
  in service before.
- A repair takes an object for an orphan when none of the version rows it has listed names it.
  An upload that is between its object and its row loses its source, and so does one whose row
  is past the list's limit, which counts the rows of the whole tenant (`reconcile.py:78`),
  without any race; its records are no safer (`docs/09-document-lifecycle.md:107` and
  `docs/06-engineering-standards.md:387` ask for proof before deletion). `ServedIsWhole` is what
  remains true: unless a repair `overlooked` a row. The worker only runs it dry.
- A database error in `_load` (`ingestion.py:112`), in the last save of a run or in
  `_record_failure` is not retried: the message ends and the job stays pending or running.
- An index whose creation was not confirmed is left behind: `rebuild.py:24` precedes the `try`.
- Two overlapping switches may leave the alias on two indices, after which
  `resolve_alias` raises (`docs/09-document-lifecycle.md:82` has an atomic switch).
- No operation ever becomes cancelled, failed or dead-lettered: a cancel stores only its request
  (`control.py`), a failure is not saved (finding 2), a delete stays pending. So a batch ends as
  succeeded or not at all (`docs/09-document-lifecycle.md:109` lists partial success, failed and
  cancelled as its ends), and a batch of deletions runs for ever. A cancel saved over a success
  takes an ended batch back to running (`batch.py:127`); of two refreshes that overlap the last
  to save wins, which may be the older one.
- A build or a cancel of a graph saves the copy its caller holds (`graphrag/service.py:50-159`):
  a caller that keeps an old one stores a cancelled build as succeeded, or a succeeded one as
  cancelled; a build of another scope leaves its row running.

Answers:

- When a channel failed and the check leaves out all the other one found, the answer is that
  there is no evidence and its trace records a success (`EmptyIsNoFailure` in
  `KnowledgeQuery`; `docs/07-decisions-and-risks.md:564` asks for the two to be told apart).
- The merging retriever keeps the base's reason for an empty answer though candidates of
  its own were found (`retriever.py:84`), and judges versions by a map it was built with.
- With no parent known, `ParentContextExpander` takes every chunk of the version from the
  first, and its tokens may be used up before the hit (`parent_child.py:27-40`).
- Text is shown twice: Markdown list items (`markdown.py:76-90`), the words of a PDF page's
  tables (`pdf.py:93-113`), headings and tables inside a list item or a cell of HTML
  (`html.py:44-117`). `Repeated` in `SourceParsers` names exactly these. Text is not looked for:
  directly in a `div`, in grouped shapes and notes of a slide, in text boxes (`Visible`).
- After a skipped level siblings nest (`markdown.py:64`, the same in HTML and DOCX); the columns
  of a PDF page are found one after the other (`pdf.py:203`) and then sorted by height, so that
  they interleave. `BlocksShowSource` leaves these out.

Agents:

- A budget that runs out with sufficient evidence does not stop the run
  (`agentic_rag.py:457`): `execute_step` sets `completed`, the edge after it ends a run only on
  `failed` and `budget_exhausted`, and the graph enters `execute_step` again until the
  recursion limit or the time budget ends it. `StepsAreBudgeted` is what remains true.
- A crash gives iterations and attempts back (`agentic_rag.py:450`, `agentic_runtime.py:157`): the
  graph's checkpoints lag behind its nodes, and the result of an approved call is stored
  before the run's usage is (`hitl.py:210`). Calls that needed no approval may be made again
  after each crash; `CallsAreBudgeted` is what remains true: those that needed one are not.
- An approved and claimed call may be answered with what the process remembers of another run's
  call with the same arguments (`tool_policy.py:173-183`): the run continues, and its call
  is never made.
- `finalize` cites every evidence item with a citation, those included that the policy did not
  accept (`agentic_rag.py:391`; `docs/06-engineering-standards.md:318` asks for the evidence that
  was finally allowed). A plan of SQL and API steps only uses no retrieval round and is
  retried until its iterations run out, although ADR-023 allows two further passes.
- A run that dies after its approval succeeded cannot be resumed, and neither can one whose
  approved call timed out: `await_approval` raises each time. `_expire_if_needed` does not
  look at an approval that is already approved (`hitl.py:242`; `docs/10-agentic-rag.md:75` has
  the TTL rechecked on resume), and reports EXPIRED when its own swap lost to an
  approval: the run is then recorded as rejected (`agentic_rag.py:309-313`) while its call may be
  approved and execute (`docs/07-decisions-and-risks.md:625`).
- A memory whose consent was read before a revocation and which is saved after it
  survives, and is shown again after a later consent (`memory.py:75`; `docs/10-agentic-rag.md:79`).
- Two executions that drive one thread at once overwrite each other's checkpoints
  (`runtime.py:75`); event sequence numbers are used again after a resume.

## 6. What is not modelled, and the plan

Not modelled, for good: the HTTP API (its calls are the commands here), settings and
wiring (the settings that matter are CONSTANTS), model providers (a call that answers or
fails), LangGraph's checkpointer and ARQ beyond what the code relies on (external),
evaluation, operations and observability. Of the modelled components: permission and policy
rules (they only refuse), characters, tokens and encodings, query bodies and mappings of
Elasticsearch, wording of prompts and answers; of the advanced services keywords,
questions, summaries, tables of contents, images and similar histories, which
only make texts.

What would add most next:

1. An upload that meets lifecycle commands: `UploadIngestion` and `DocumentLifecycle` over one
   document row, for the blind save of `ingestion.py:248`.
2. The outbox's `ingestion.requested` events, which both pipelines take as delivered.
3. Records of one version that go different ways (`conflicts=proceed`, `elasticsearch.py:321`).
4. Two executions on one thread, once the code says what they may expect.
5. Proofs: the operators of `SourceParsers` written as recursive functions, and what a
   format's library may find as an assumption, so that `BlocksShowSource` can follow
   `ChunksCoverSource`.
